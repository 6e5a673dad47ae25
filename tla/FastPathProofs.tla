--------------------------- MODULE FastPathProofs ---------------------------
(***************************************************************************)
(* Proofs about FastPath, for every number of instances, facts, reads and  *)
(* writes: what memory serves is never older than what this instance has   *)
(* answered, announced or been told.                                       *)
(***************************************************************************)
EXTENDS FastPath, TLAPS

-----------------------------------------------------------------------------
(* Type correctness.                                                       *)

Moved == [noorg : Nat, authz : Nat, fenceTotal : Nat, orgFence : [Orgs -> Nat], gen : [Facts -> Nat]]

LEMMA TypeInit == Init => TypeOK
BY FastPathAssumption DEF Init, TypeOK, Commits, AtRest

Steps  == {"answer", "purged", "raised", "announced"}
Writes == [at : Instances, fact : Facts, ver : Commits, org : Orgs \cup {NoOrg}, step : Steps]
Notes  == [fact : Facts, ver : Commits, purge : BOOLEAN]

\* A request's fence and a notification move counters forward, within type.
LEMMA FencedType ==
  ASSUME NEW m \in Moved, NEW org \in Orgs \cup {NoOrg}
  PROVE  /\ Fenced(m, org) \in Moved
         /\ Fenced(m, org).fenceTotal = m.fenceTotal + 1
         /\ Fenced(m, org).noorg = IF org = NoOrg THEN m.noorg + 1 ELSE m.noorg
         /\ \A o \in Orgs : Fenced(m, org).orgFence[o]
                             = IF o = org THEN m.orgFence[o] + 1 ELSE m.orgFence[o]
         /\ Fenced(m, org).authz = m.authz /\ Fenced(m, org).gen = m.gen
<1> USE FastPathAssumption
<1>0. m.noorg \in Nat /\ m.authz \in Nat /\ m.fenceTotal \in Nat
      /\ m.orgFence \in [Orgs -> Nat] /\ m.gen \in [Facts -> Nat]
  BY DEF Moved
<1>1. CASE org = NoOrg
  <2>1. Fenced(m, org) = [noorg |-> m.noorg + 1, authz |-> m.authz, fenceTotal |-> m.fenceTotal + 1,
                          orgFence |-> m.orgFence, gen |-> m.gen]
    BY <1>1 DEF Fenced, Moved
  <2> QED
    BY <1>0, <1>1, <2>1 DEF Moved
<1>2. CASE org # NoOrg
  <2> DEFINE of == [m.orgFence EXCEPT ![org] = @ + 1]
  <2>1. of \in [Orgs -> Nat] /\ \A o \in Orgs : of[o] = IF o = org THEN m.orgFence[o] + 1 ELSE m.orgFence[o]
    BY <1>0, <1>2
  <2>2. Fenced(m, org) = [noorg |-> m.noorg, authz |-> m.authz, fenceTotal |-> m.fenceTotal + 1,
                          orgFence |-> of, gen |-> m.gen]
    BY <1>2 DEF Fenced, Moved
  <2> HIDE DEF of
  <2> QED
    BY <1>0, <1>2, <2>1, <2>2 DEF Moved
<1> QED
  BY <1>1, <1>2

LEMMA BumpedType ==
  ASSUME NEW m \in Moved, NEW f \in Facts
  PROVE  /\ Bumped(m, f) \in Moved
         /\ Bumped(m, f).authz = IF f \in Authz THEN m.authz + 1 ELSE m.authz
         /\ \A g \in Facts : Bumped(m, f).gen[g]
                              = IF g = f /\ f \notin Authz THEN m.gen[g] + 1 ELSE m.gen[g]
         /\ Bumped(m, f).noorg = m.noorg /\ Bumped(m, f).fenceTotal = m.fenceTotal
         /\ Bumped(m, f).orgFence = m.orgFence
<1>1. CASE f \in Authz
  BY <1>1 DEF Bumped, Moved
<1>2. CASE f \notin Authz
  <2> DEFINE gn == [m.gen EXCEPT ![f] = @ + 1]
  <2>1. gn \in [Facts -> Nat] /\ \A g \in Facts : gn[g] = IF g = f THEN m.gen[g] + 1 ELSE m.gen[g]
    BY DEF Moved
  <2>2. Bumped(m, f) = [m EXCEPT !.gen = gn]
    BY <1>2 DEF Bumped, Moved
  <2> HIDE DEF gn
  <2> QED
    BY <1>2, <2>1, <2>2 DEF Moved
<1> QED
  BY <1>1, <1>2

LEMMA CaptureType ==
  ASSUME TypeOK, NEW i \in Instances, NEW f \in Facts
  PROVE  Capture(i, f) \in Counters /\ Seal(i, f) \in Counters
<1>1. moved[i] \in Moved /\ session[i] \in 0 .. MaxSessions /\ OrgOf[f] \in Orgs
  BY FastPathAssumption DEF TypeOK, Moved
<1> QED
  BY <1>1 DEF Capture, Seal, Counters, Moved

LEMMA ReadingType ==
  ASSUME TypeOK, NEW r \in Readers, Reading(r)
  PROVE  TypeOK'
<1> USE FastPathAssumption
<1>1. ASSUME NEW i \in Instances, NEW f \in Facts, StartRead(r, i, f) PROVE TypeOK'
  <2>1. reader' \in [Readers -> {Idle} \cup [at : Instances, fact : Facts, cap : Counters,
                                            val : Commits, read : BOOLEAN]]
    BY <1>1, CaptureType DEF StartRead, TypeOK, Commits
  <2> QED
    BY <1>1, <2>1 DEF StartRead, TypeOK, cache, history
<1>2. CASE ReadDatabase(r)
  <2>1. reader[r] \in [at : Instances, fact : Facts, cap : Counters, val : Commits, read : BOOLEAN]
    BY <1>2 DEF ReadDatabase, TypeOK
  <2>2. db[reader[r].fact] \in Commits
    BY <2>1 DEF TypeOK
  <2>3. reader' = [reader EXCEPT ![r] = [reader[r] EXCEPT !.val = db[reader[r].fact], !.read = TRUE]]
    BY <1>2 DEF ReadDatabase, TypeOK
  <2>4. [reader[r] EXCEPT !.val = db[reader[r].fact], !.read = TRUE]
          \in [at : Instances, fact : Facts, cap : Counters, val : Commits, read : BOOLEAN]
    BY <2>1, <2>2
  <2> QED
    BY <1>2, <2>3, <2>4 DEF ReadDatabase, TypeOK, cache, history
<1>3. CASE Put(r)
  <2>1. reader[r] \in [at : Instances, fact : Facts, cap : Counters, val : Commits, read : BOOLEAN]
    BY <1>3 DEF Put, TypeOK
  <2>2. entry' \in [Instances -> [Facts -> [val : Commits, seal : Counters] \cup {NoEntry}]]
    BY <1>3, <2>1, CaptureType DEF Put, TypeOK
  <2>3. reader' \in [Readers -> {Idle} \cup [at : Instances, fact : Facts, cap : Counters,
                                            val : Commits, read : BOOLEAN]]
    BY <1>3 DEF Put, TypeOK
  <2> QED
    BY <1>3, <2>2, <2>3 DEF Put, TypeOK, history
<1>4. CASE Skip(r)
  BY <1>4 DEF Skip, TypeOK, cache, history
<1> QED
  BY <1>1, <1>2, <1>3, <1>4 DEF Reading

LEMMA ExpireType ==
  ASSUME TypeOK, NEW i \in Instances, NEW f \in Facts, Expire(i, f)
  PROVE  TypeOK'
BY DEF Expire, TypeOK, history

\* A notification sent is one more, to those that listen.
LEMMA NotifiedType ==
  ASSUME TypeOK, NEW f \in Facts, NEW v \in Commits, NEW purge \in BOOLEAN
  PROVE  /\ Notified(f, v, purge) \in [Instances -> SUBSET Notes]
         /\ \A j \in Instances :
              /\ link[j] = "up" => \E n \in Notified(f, v, purge)[j] : n.fact = f
              /\ inbox[j] \subseteq Notified(f, v, purge)[j]
              /\ \A n \in Notified(f, v, purge)[j] \ inbox[j] :
                   n.fact = f /\ n.ver = v /\ n.purge = purge
<1> DEFINE m == [fact |-> f, ver |-> v, purge |-> purge]
<1>1. m \in Notes /\ m.fact = f /\ m.ver = v /\ m.purge = purge
  BY DEF Notes
<1>2. inbox \in [Instances -> SUBSET Notes]
  BY DEF TypeOK, Notes
<1>3. Notified(f, v, purge) = [j \in Instances |->
        IF link[j] = "up" THEN inbox[j] \cup {m} ELSE inbox[j]]
  BY DEF Notified
<1> HIDE DEF m
<1>4. Notified(f, v, purge) \in [Instances -> SUBSET Notes]
  BY <1>1, <1>2, <1>3
<1>5. \A j \in Instances :
        /\ link[j] = "up" => m \in Notified(f, v, purge)[j]
        /\ inbox[j] \subseteq Notified(f, v, purge)[j]
        /\ \A n \in Notified(f, v, purge)[j] \ inbox[j] : n = m
  BY <1>3
<1> QED
  BY <1>1, <1>4, <1>5

LEMMA WritingType ==
  ASSUME TypeOK, NEW w \in Writers, Writing(w)
  PROVE  TypeOK'
<1> USE FastPathAssumption
<1>w. writer[w] # Idle => writer[w] \in Writes
  BY DEF TypeOK, Writes, Steps
<1>1. ASSUME NEW i \in Instances, NEW f \in Facts, NEW org \in Orgs \cup {NoOrg}, Commit(w, i, f, org)
      PROVE  TypeOK'
  <2>1. commits + 1 \in Commits
    BY <1>1 DEF Commit, TypeOK, Commits
  <2>2. db' \in [Facts -> Commits] /\ commits' \in Commits /\ announced' \in [Facts -> Commits]
    BY <1>1, <2>1 DEF Commit, TypeOK
  <2>3. inbox' \in [Instances -> SUBSET Notes]
    BY <1>1, <2>1, NotifiedType DEF Commit
  <2>4. Write(i, f, commits + 1, org, "answer") \in Writes
    BY <2>1 DEF Write, Writes, Steps
  <2>5. writer' \in [Writers -> {Idle} \cup Writes]
    BY <1>1, <2>4 DEF Commit, TypeOK, Writes, Steps
  <2> QED
    BY <1>1, <2>2, <2>3, <2>5 DEF Commit, TypeOK, cache, Notes, Writes, Steps
<1>2. CASE Respond(w)
  <2>1. Fenced(moved[writer[w].at], writer[w].org) \in Moved
    <3>1. moved[writer[w].at] \in Moved
      BY <1>2, <1>w DEF Respond, TypeOK, Moved, Writes
    <3>2. writer[w].org \in Orgs \cup {NoOrg}
      BY <1>2, <1>w DEF Respond, Writes
    <3> QED
      BY <3>1, <3>2, FencedType
  <2>2. moved' \in [Instances -> Moved]
    BY <1>2, <2>1 DEF Respond, TypeOK, Moved
  <2>3. answered' \in [Instances -> [Facts -> Commits]]
    BY <1>2, <1>w DEF Respond, TypeOK, Writes
  <2>4. writer' \in [Writers -> {Idle} \cup Writes]
    BY <1>2 DEF Respond, TypeOK, Writes, Steps
  <2> QED
    BY <1>2, <2>2, <2>3, <2>4 DEF Respond, TypeOK, Moved, Writes, Steps
<1>3. CASE Leave(w)
  BY <1>3 DEF Leave, TypeOK, cache, history
<1> QED
  BY <1>1, <1>2, <1>3 DEF Writing

\* A sweep's statements keep the types.
LEMMA SweepingType ==
  ASSUME TypeOK, NEW w \in Writers, Sweeping(w)
  PROVE  TypeOK'
<1> USE FastPathAssumption
<1>w. writer[w] # Idle => writer[w] \in Writes
  BY DEF TypeOK, Writes, Steps
<1>g. ASSUME NEW step \in Steps, writer[w] # Idle, Goto(w, step)
      PROVE  writer' \in [Writers -> {Idle} \cup Writes]
  <2>1. [writer[w] EXCEPT !.step = step] \in Writes
    BY <1>g, <1>w DEF Writes
  <2>2. writer' = [writer EXCEPT ![w] = [writer[w] EXCEPT !.step = step]]
    BY <1>g DEF Goto, TypeOK
  <2>3. writer \in [Writers -> {Idle} \cup Writes]
    BY DEF TypeOK, Writes, Steps
  <2> QED
    BY <2>1, <2>2, <2>3
<1>s. ASSUME NEW f \in Facts, Silently(f)
      PROVE  commits + 1 \in Commits /\ db' \in [Facts -> Commits] /\ commits' \in Commits
  <2>1. commits + 1 \in Commits
    BY <1>s DEF Silently, TypeOK, Commits
  <2> QED
    BY <1>s, <2>1 DEF Silently, TypeOK
<1>1. ASSUME NEW i \in Instances, NEW f \in Feeds, Purge(w, i, f)
      PROVE  TypeOK'
  <2>0. f \in Facts /\ Silently(f) /\ OrgOf[f] \in Orgs
    BY <1>1 DEF Purge
  <2>1. Write(i, f, commits + 1, OrgOf[f], "purged") \in Writes
    BY <1>s, <2>0 DEF Write, Writes, Steps
  <2>2. writer' \in [Writers -> {Idle} \cup Writes]
    BY <1>1, <2>1 DEF Purge, TypeOK, Writes, Steps
  <2> QED
    BY <1>s, <2>0, <2>2 DEF Silently, TypeOK, cache, history, Writes, Steps
<1>2. CASE RaiseWatermark(w)
  <2>1. writer[w] # Idle /\ Goto(w, "raised") /\ Silently(writer[w].fact)
    BY <1>2 DEF RaiseWatermark, At
  <2>2. writer[w].fact \in Facts
    BY <1>w, <2>1 DEF Writes
  <2>3. writer' \in [Writers -> {Idle} \cup Writes]
    BY <1>g, <2>1 DEF Steps
  <2> QED
    BY <1>s, <2>1, <2>2, <2>3 DEF Silently, TypeOK, cache, history, Writes, Steps
<1>3. CASE AnnouncePurge(w)
  <2>1. writer[w] # Idle /\ Goto(w, "announced")
    BY <1>3 DEF AnnouncePurge, At
  <2>2. PICK f \in Facts : f = writer[w].fact
    BY <1>w, <2>1 DEF Writes
  <2>3. writer' \in [Writers -> {Idle} \cup Writes]
    BY <1>g, <2>1 DEF Steps
  <2>4. commits \in Commits
    BY DEF TypeOK
  <2>5. inbox' \in [Instances -> SUBSET Notes]
    BY <1>3, <2>2, <2>4, NotifiedType DEF AnnouncePurge
  <2>6. announced' \in [Facts -> Commits]
    BY <1>3, <2>2 DEF AnnouncePurge, TypeOK
  <2> QED
    BY <1>3, <2>3, <2>5, <2>6 DEF AnnouncePurge, TypeOK, cache, Notes, Writes, Steps
<1>4. CASE DropHere(w)
  <2>1. writer[w].at \in Instances /\ writer[w].fact \in Facts
    BY <1>4, <1>w DEF DropHere, At, Writes
  <2>2. PICK i \in Instances, f \in Facts :
          /\ moved' = [moved EXCEPT ![i] = Bumped(@, f)]
          /\ entry' = [entry EXCEPT ![i][f] = NoEntry]
    BY <1>4, <2>1 DEF DropHere
  <2>3. moved' \in [Instances -> Moved]
    BY <2>2, BumpedType DEF TypeOK, Moved
  <2>4. entry' \in [Instances -> [Facts -> [val : Commits, seal : Counters] \cup {NoEntry}]]
    BY <2>2 DEF TypeOK
  <2>5. writer' \in [Writers -> {Idle} \cup Writes]
    BY <1>4 DEF DropHere, TypeOK, Writes, Steps
  <2> QED
    BY <1>4, <2>3, <2>4, <2>5 DEF DropHere, TypeOK, Moved, history, Writes, Steps
<1> QED
  BY <1>1, <1>2, <1>3, <1>4 DEF Sweeping

LEMMA ListeningType ==
  ASSUME TypeOK, NEW i \in Instances, Listening(i)
  PROVE  TypeOK'
<1> USE FastPathAssumption
<1>0. AtRest \in Moved
  BY DEF AtRest, Moved
<1>1. CASE Handle(i)
  <2>1. PICK n \in inbox[i] :
          /\ inbox' = [inbox EXCEPT ![i] = @ \ {n}]
          /\ moved' = [moved EXCEPT ![i] = Bumped(@, n.fact)]
          /\ entry' = [entry EXCEPT ![i] = [f \in Facts |->
               IF f = n.fact \/ (n.fact \in Authz /\ f \in Authz) THEN NoEntry ELSE entry[i][f]]]
          /\ nudged' = IF n.purge THEN nudged ELSE [nudged EXCEPT ![i][n.fact] = n.ver]
    BY <1>1 DEF Handle
  <2>0. inbox \in [Instances -> SUBSET Notes]
    BY DEF TypeOK, Notes
  <2>2. n.fact \in Facts /\ n.ver \in Commits
    BY <2>0 DEF Notes
  <2>3. moved' \in [Instances -> Moved]
    BY <2>1, <2>2, BumpedType DEF TypeOK, Moved
  <2>4. inbox' \in [Instances -> SUBSET Notes]
    BY <2>0, <2>1
  <2>5. entry' \in [Instances -> [Facts -> [val : Commits, seal : Counters] \cup {NoEntry}]]
    BY <2>1 DEF TypeOK
  <2>6. nudged' \in [Instances -> [Facts -> Commits]]
    BY <2>1, <2>2 DEF TypeOK
  <2> QED
    BY <1>1, <2>3, <2>4, <2>5, <2>6 DEF Handle, TypeOK, Moved, Notes
<1>2. CASE Listen(i)
  BY <1>2 DEF Listen, TypeOK, cache, history
<1>3. CASE SessionStarted(i)
  BY <1>0, <1>3 DEF SessionStarted, TypeOK, Moved, history
<1>4. CASE Break(i)
  BY <1>4 DEF Break, TypeOK, cache, history
<1>5. CASE SessionLost(i)
  BY <1>0, <1>5 DEF SessionLost, TypeOK, Moved, history
<1> QED
  BY <1>1, <1>2, <1>3, <1>4, <1>5 DEF Listening

LEMMA TypeStep == TypeOK /\ [Next]_vars => TypeOK'
<1>1. TypeOK /\ UNCHANGED vars => TypeOK'
  BY DEF vars, cache, history, TypeOK
<1> QED
  BY <1>1, ReadingType, ExpireType, WritingType, SweepingType, ListeningType DEF Next

\* Every variable keeps its type, for every number of sessions and commits.
THEOREM FastPathTypes == Spec => []TypeOK
  BY TypeInit, TypeStep, PTL DEF Spec

-----------------------------------------------------------------------------
(* The inductive invariant.  Within one session counters only grow, so a   *)
(* capture or seal that still matches has matched ever since it was taken: *)
(* no write was fenced and no notification handled in between.             *)

\* A value of f read or served at i is as new as anything i has said, and as
\* anything i was told of.
Fresh(i, f, v) ==
  /\ v >= answered[i][f] /\ v >= nudged[i][f]
  /\ v < announced[f] => Undelivered(i, f)

\* A served instance listens, in one of the sessions it counted.
Serving ==
  \A i \in Instances : session[i] <= sessions[i] /\ (session[i] # 0 => link[i] # "down")

\* Nothing is answered or announced that did not happen.
NotAhead ==
  /\ \A f \in Facts : db[f] <= commits /\ announced[f] <= db[f]
  /\ \A i \in Instances, f \in Facts : answered[i][f] <= db[f] /\ nudged[i][f] <= db[f]
  /\ \A i \in Instances : \A n \in inbox[i] : n.purge \/ n.ver <= db[n.fact]

WritersKnown ==
  \A w \in Writers : writer[w] # Idle =>
    /\ writer[w].ver <= db[writer[w].fact]
    /\ writer[w].org \in {OrgOf[writer[w].fact], NoOrg}
    /\ writer[w].step = "answer" \/ writer[w].fact \in Feeds

\* A capture is of a session that was, and not ahead of the counters.
CapturesBehind ==
  \A r \in Readers : reader[r] # Idle =>
    LET i == reader[r].at
        f == reader[r].fact
        c == reader[r].cap
    IN /\ c.session # 0 /\ c.session <= sessions[i]
       /\ c.session = session[i] =>
            /\ c.noorg <= moved[i].noorg /\ c.authz <= moved[i].authz
            /\ c.fence <= moved[i].fenceTotal /\ c.gen <= moved[i].gen[f]

\* A stored answer is of this session, and not ahead of the counters.
SealsBehind ==
  \A i \in Instances, f \in Facts : entry[i][f] # NoEntry =>
    LET c == entry[i][f].seal
    IN /\ c.session = session[i] /\ session[i] # 0
       /\ c.noorg <= moved[i].noorg /\ c.authz <= moved[i].authz
       /\ c.fence <= moved[i].orgFence[OrgOf[f]] /\ c.gen <= moved[i].gen[f]

FreshReads ==
  \A r \in Readers :
    reader[r] # Idle /\ reader[r].read /\ Capture(reader[r].at, reader[r].fact) = reader[r].cap
      => Fresh(reader[r].at, reader[r].fact, reader[r].val)

FreshEntries ==
  \A i \in Instances, f \in Facts : Valid(i, f) => Fresh(i, f, entry[i][f].val)

IInv == /\ TypeOK /\ Serving /\ NotAhead /\ WritersKnown /\ CapturesBehind /\ SealsBehind
        /\ FreshReads /\ FreshEntries

LEMMA InvInit == Init => IInv
<1> SUFFICES ASSUME Init PROVE IInv
  OBVIOUS
<1>1. TypeOK
  BY TypeInit
<1>2. Serving /\ NotAhead
  BY DEF Init, Serving, NotAhead
<1>3. WritersKnown /\ CapturesBehind /\ FreshReads
  BY DEF Init, WritersKnown, CapturesBehind, FreshReads
<1>4. SealsBehind /\ FreshEntries
  BY DEF Init, SealsBehind, FreshEntries, Valid
<1> QED
  BY <1>1, <1>2, <1>3, <1>4 DEF IInv

\* The fields of a read in progress, a write in progress and an entry.
LEMMA Fields ==
  ASSUME TypeOK
  PROVE  /\ \A r \in Readers : reader[r] # Idle =>
              /\ reader[r] \in [at : Instances, fact : Facts, cap : Counters, val : Commits, read : BOOLEAN]
              /\ reader[r].at \in Instances /\ reader[r].fact \in Facts
              /\ reader[r].cap \in Counters /\ reader[r].val \in Commits
         /\ \A w \in Writers : writer[w] # Idle =>
              /\ writer[w].at \in Instances /\ writer[w].fact \in Facts
              /\ writer[w].ver \in Commits /\ writer[w].org \in Orgs \cup {NoOrg}
              /\ writer[w] \in Writes
         /\ \A i \in Instances, f \in Facts : entry[i][f] # NoEntry =>
              entry[i][f].val \in Commits /\ entry[i][f].seal \in Counters
         /\ \A i \in Instances : moved[i] \in Moved
         /\ \A i \in Instances : \A n \in inbox[i] :
              n.fact \in Facts /\ n.ver \in Commits /\ n.purge \in BOOLEAN
         /\ \A f \in Facts : announced[f] \in Commits /\ db[f] \in Commits
         /\ \A i \in Instances, f \in Facts :
              answered[i][f] \in Commits /\ nudged[i][f] \in Commits /\ db[f] \in Commits
         /\ \A i \in Instances : session[i] \in Int /\ sessions[i] \in Int
<1>1. \A r \in Readers : reader[r] # Idle =>
        reader[r] \in [at : Instances, fact : Facts, cap : Counters, val : Commits, read : BOOLEAN]
  BY DEF TypeOK
<1>2. \A w \in Writers : writer[w] # Idle => writer[w] \in Writes
  BY DEF TypeOK, Writes, Steps
<1>3. \A i \in Instances, f \in Facts : entry[i][f] # NoEntry =>
        entry[i][f] \in [val : Commits, seal : Counters]
  BY DEF TypeOK
<1>4. \A i \in Instances : \A n \in inbox[i] : n \in Notes
  BY DEF TypeOK, Notes
<1>5. \A i \in Instances : moved[i] \in Moved /\ session[i] \in Int /\ sessions[i] \in Int
  BY FastPathAssumption DEF TypeOK, Moved
<1>6. \A i \in Instances, f \in Facts :
        answered[i][f] \in Commits /\ nudged[i][f] \in Commits /\ db[f] \in Commits
  BY DEF TypeOK
<1>7. \A f \in Facts : announced[f] \in Commits /\ db[f] \in Commits
  BY DEF TypeOK
<1> QED
  BY <1>1, <1>2, <1>3, <1>4, <1>5, <1>6, <1>7 DEF Writes, Notes

\* The counters compared: a capture or a seal matches field by field.
LEMMA Matches ==
  ASSUME NEW i, NEW f, NEW c, c \in Counters
  PROVE  /\ Capture(i, f) = c <=>
              /\ c.session = session[i] /\ c.noorg = moved[i].noorg /\ c.authz = moved[i].authz
              /\ c.fence = moved[i].fenceTotal /\ c.gen = moved[i].gen[f]
         /\ Seal(i, f) = c <=>
              /\ c.session = session[i] /\ c.noorg = moved[i].noorg /\ c.authz = moved[i].authz
              /\ c.fence = moved[i].orgFence[OrgOf[f]] /\ c.gen = moved[i].gen[f]
BY DEF Counters, Capture, Seal

\* A read in progress disturbs only its own facts, and an entry it stores.
LEMMA StartReadInv ==
  ASSUME IInv, NEW r \in Readers, NEW i \in Instances, NEW f \in Facts, StartRead(r, i, f)
  PROVE  IInv'
<1> USE DEF IInv
<1>0. UNCHANGED <<db, commits, link, inbox, session, sessions, moved, entry, writer, announced, answered, nudged>>
  BY DEF StartRead, cache, history
<1>1. TypeOK'
  BY ReadingType DEF Reading
<1>2. (Serving /\ NotAhead /\ WritersKnown /\ SealsBehind /\ FreshEntries)'
  BY <1>0 DEF Serving, NotAhead, WritersKnown, SealsBehind, FreshEntries, Fresh, Valid, Seal, Undelivered
<1>3. \A q \in Readers : q # r => reader'[q] = reader[q]
  BY DEF StartRead, TypeOK
<1>4. /\ reader'[r].at = i /\ reader'[r].fact = f /\ reader'[r].cap = Capture(i, f)
      /\ ~reader'[r].read /\ session[i] # 0
  BY DEF StartRead, TypeOK
<1>5. CapturesBehind'
  <2>1. \A q \in Readers : q # r => CapturesBehind!(q)'
    BY <1>0, <1>3 DEF CapturesBehind
  <2>2. CapturesBehind!(r)'
    BY <1>0, <1>4, Fields DEF Capture, Serving, Moved
  <2> QED
    BY <2>1, <2>2 DEF CapturesBehind
<1>6. FreshReads'
  BY <1>0, <1>3, <1>4 DEF FreshReads, Fresh, Capture, Undelivered
<1> QED
  BY <1>1, <1>2, <1>5, <1>6

LEMMA ReadDatabaseInv ==
  ASSUME IInv, NEW r \in Readers, ReadDatabase(r)
  PROVE  IInv'
<1> USE DEF IInv
<1>0. UNCHANGED <<db, commits, link, inbox, session, sessions, moved, entry, writer, announced, answered, nudged>>
  BY DEF ReadDatabase, cache, history
<1>1. TypeOK'
  BY ReadingType DEF Reading
<1>2. (Serving /\ NotAhead /\ WritersKnown /\ SealsBehind /\ FreshEntries)'
  BY <1>0 DEF Serving, NotAhead, WritersKnown, SealsBehind, FreshEntries, Fresh, Valid, Seal, Undelivered
<1>3. \A q \in Readers : q # r => reader'[q] = reader[q]
  BY DEF ReadDatabase, TypeOK
<1>4. /\ reader'[r].at = reader[r].at /\ reader'[r].fact = reader[r].fact
      /\ reader'[r].cap = reader[r].cap /\ reader'[r].val = db[reader[r].fact] /\ reader[r] # Idle
  BY Fields DEF ReadDatabase, TypeOK
<1>5. CapturesBehind'
  BY <1>0, <1>3, <1>4 DEF CapturesBehind
<1>6. FreshReads'
  <2>1. \A q \in Readers : q # r => FreshReads!(q)'
    BY <1>0, <1>3 DEF FreshReads, Fresh, Capture, Undelivered
  <2>2. Fresh(reader[r].at, reader[r].fact, db[reader[r].fact])
    BY <1>4, Fields DEF Fresh, NotAhead, Commits
  <2>3. FreshReads!(r)'
    BY <1>0, <1>4, <2>2 DEF Fresh, Undelivered
  <2> QED
    BY <2>1, <2>3 DEF FreshReads
<1> QED
  BY <1>1, <1>2, <1>5, <1>6

LEMMA PutInv ==
  ASSUME IInv, NEW r \in Readers, Put(r)
  PROVE  IInv'
<1> USE DEF IInv
<1>p. PICK i \in Instances, f \in Facts : i = reader[r].at /\ f = reader[r].fact
  BY Fields DEF Put
<1>0. UNCHANGED <<db, commits, link, inbox, session, sessions, moved, writer, announced, answered, nudged>>
  BY DEF Put, history
<1>1. TypeOK'
  BY ReadingType DEF Reading
<1>2. (Serving /\ NotAhead /\ WritersKnown)'
  BY <1>0 DEF Serving, NotAhead, WritersKnown
<1>3. reader'[r] = Idle /\ \A q \in Readers : q # r => reader'[q] = reader[q]
  BY DEF Put, TypeOK
<1>4. CapturesBehind' /\ FreshReads'
  BY <1>0, <1>3 DEF CapturesBehind, FreshReads, Fresh, Capture, Undelivered
<1>5. reader[r] # Idle /\ reader[r].read
  BY DEF Put
<1>6. CASE ~Unchanged(i, f, reader[r].cap)
  <2>1. entry' = entry
    BY <1>p, <1>6 DEF Put
  <2> QED
    BY <1>0, <1>1, <1>2, <1>4, <2>1 DEF SealsBehind, FreshEntries, Fresh, Valid, Seal, Undelivered
<1>7. CASE Unchanged(i, f, reader[r].cap)
  <2>1. /\ entry'[i][f].val = reader[r].val /\ entry'[i][f].seal = Seal(i, f)
        /\ \A j \in Instances, g \in Facts : <<j, g>> # <<i, f>> => entry'[j][g] = entry[j][g]
    BY <1>p, <1>5, <1>7 DEF Put, TypeOK
  <2>2. session[i] # 0 /\ Fresh(i, f, reader[r].val)
    BY <1>p, <1>5, <1>7 DEF Unchanged, FreshReads, Capture
  <2>3. SealsBehind'
    <3>1. \A j \in Instances, g \in Facts : <<j, g>> # <<i, f>> => SealsBehind!(j, g)'
      BY <1>0, <2>1 DEF SealsBehind
    <3>2. SealsBehind!(i, f)'
      BY <1>0, <1>5, <2>1, <2>2, Fields, FastPathAssumption DEF Seal, Moved
    <3> QED
      BY <3>1, <3>2 DEF SealsBehind
  <2>4. FreshEntries'
    <3>1. \A j \in Instances, g \in Facts : <<j, g>> # <<i, f>> => FreshEntries!(j, g)'
      BY <1>0, <2>1 DEF FreshEntries, Fresh, Valid, Seal, Undelivered
    <3>2. Fresh(i, f, entry'[i][f].val)
      BY <2>1, <2>2
    <3>3. FreshEntries!(i, f)'
      BY <1>0, <3>2 DEF Fresh, Undelivered
    <3> QED
      BY <3>1, <3>3 DEF FreshEntries
  <2> QED
    BY <1>1, <1>2, <1>4, <2>3, <2>4
<1> QED
  BY <1>6, <1>7

LEMMA SkipInv ==
  ASSUME IInv, NEW r \in Readers, Skip(r)
  PROVE  IInv'
<1> USE DEF IInv
<1>0. UNCHANGED <<db, commits, link, inbox, session, sessions, moved, entry, writer, announced, answered, nudged>>
  BY DEF Skip, cache, history
<1>1. TypeOK'
  BY ReadingType DEF Reading
<1>2. reader'[r] = Idle /\ \A q \in Readers : q # r => reader'[q] = reader[q]
  BY DEF Skip, TypeOK
<1>3. (Serving /\ NotAhead /\ WritersKnown /\ SealsBehind /\ FreshEntries)'
  BY <1>0 DEF Serving, NotAhead, WritersKnown, SealsBehind, FreshEntries, Fresh, Valid, Seal, Undelivered
<1>4. CapturesBehind' /\ FreshReads'
  BY <1>0, <1>2 DEF CapturesBehind, FreshReads, Fresh, Capture, Undelivered
<1> QED
  BY <1>1, <1>3, <1>4

LEMMA ExpireInv ==
  ASSUME IInv, NEW i \in Instances, NEW f \in Facts, Expire(i, f)
  PROVE  IInv'
<1> USE DEF IInv
<1>0. UNCHANGED <<db, commits, link, inbox, session, sessions, moved, reader, writer, announced, answered, nudged>>
  BY DEF Expire, history
<1>1. TypeOK'
  BY ExpireType
<1>2. (Serving /\ NotAhead /\ WritersKnown /\ CapturesBehind /\ FreshReads)'
  BY <1>0 DEF Serving, NotAhead, WritersKnown, CapturesBehind, FreshReads, Fresh, Capture, Undelivered
<1>3. \A j \in Instances, g \in Facts : entry'[j][g] = NoEntry \/ entry'[j][g] = entry[j][g]
  BY DEF Expire, TypeOK
<1>4. (SealsBehind /\ FreshEntries)'
  BY <1>0, <1>3 DEF SealsBehind, FreshEntries, Fresh, Valid, Seal, Undelivered
<1> QED
  BY <1>1, <1>2, <1>4

LEMMA LeaveInv ==
  ASSUME IInv, NEW w \in Writers, Leave(w)
  PROVE  IInv'
<1> USE DEF IInv
<1>0. UNCHANGED <<db, commits, link, inbox, session, sessions, moved, entry, reader, announced, answered, nudged>>
  BY DEF Leave, cache, history
<1>1. TypeOK'
  BY WritingType DEF Writing
<1>2. (Serving /\ NotAhead /\ CapturesBehind /\ SealsBehind)'
  BY <1>0 DEF Serving, NotAhead, CapturesBehind, SealsBehind
<1>3. (FreshReads /\ FreshEntries)'
  BY <1>0 DEF FreshReads, FreshEntries, Fresh, Valid, Capture, Seal, Undelivered
<1>4. WritersKnown'
  BY <1>0 DEF Leave, WritersKnown, TypeOK
<1> QED
  BY <1>1, <1>2, <1>3, <1>4

\* Where no counter moves and no read or entry changes, what was fresh and
\* served need only stay fresh.
LEMMA StillFresh ==
  ASSUME IInv, UNCHANGED <<link, session, sessions, moved, entry, reader>>,
         \A j \in Instances, g \in Facts : \A v \in Commits :
           Fresh(j, g, v) /\ link[j] # "down" => Fresh(j, g, v)'
  PROVE  (Serving /\ CapturesBehind /\ SealsBehind /\ FreshReads /\ FreshEntries)'
<1> USE DEF IInv
<1>1. (Serving /\ CapturesBehind /\ SealsBehind)'
  BY DEF Serving, CapturesBehind, SealsBehind
<1>2. FreshReads'
  <2> SUFFICES ASSUME NEW r \in Readers, reader[r] # Idle, reader[r].read,
                      Capture(reader[r].at, reader[r].fact) = reader[r].cap
               PROVE  Fresh(reader[r].at, reader[r].fact, reader[r].val)'
    BY DEF FreshReads, Capture
  <2> DEFINE j == reader[r].at
             g == reader[r].fact
             v == reader[r].val
  <2>1. PICK jj \in Instances, gg \in Facts, vv \in Commits : jj = j /\ gg = g /\ vv = v
    BY Fields
  <2>2. Fresh(jj, gg, vv) /\ link[jj] # "down"
    <3>1. reader[r].cap.session # 0
      BY DEF CapturesBehind
    <3>2. session[jj] = reader[r].cap.session
      BY <2>1 DEF Capture
    <3> QED
      BY <2>1, <3>1, <3>2 DEF FreshReads, Serving
  <2>3. Fresh(jj, gg, vv)'
    BY <2>2
  <2>4. jj = reader'[r].at /\ gg = reader'[r].fact /\ vv = reader'[r].val
    BY <2>1
  <2> QED
    BY <2>3, <2>4 DEF Fresh, Undelivered
<1>3. FreshEntries'
  <2> SUFFICES ASSUME NEW j \in Instances, NEW g \in Facts, Valid(j, g)
               PROVE  Fresh(j, g, entry[j][g].val)'
    BY DEF FreshEntries, Valid, Seal
  <2>1. PICK v \in Commits : v = entry[j][g].val
    BY Fields DEF Valid
  <2>2. Fresh(j, g, v) /\ link[j] # "down"
    BY <2>1 DEF FreshEntries, Serving, Valid
  <2>3. Fresh(j, g, v)'
    BY <2>2
  <2> QED
    BY <2>1, <2>3 DEF Fresh, Undelivered
<1> QED
  BY <1>1, <1>2, <1>3

\* Every instance that serves has been sent the notification of f, or its
\* connection is broken.
LEMMA ToldOf ==
  ASSUME TypeOK, link' = link, NEW f \in Facts, NEW v \in Commits, NEW purge \in BOOLEAN,
         inbox' = Notified(f, v, purge), NEW j \in Instances, link[j] # "down"
  PROVE  Undelivered(j, f)'
<1>1. link[j] \in {"up", "broken"}
  BY DEF TypeOK
<1>2. link[j] = "up" => \E n \in inbox'[j] : n.fact = f
  BY NotifiedType
<1> QED
  BY <1>1, <1>2 DEF Undelivered

\* A commit outdates what was read, and tells every instance that serves.
LEMMA CommitInv ==
  ASSUME IInv, NEW w \in Writers, NEW i \in Instances, NEW f \in Facts,
         NEW org \in Orgs \cup {NoOrg}, Commit(w, i, f, org)
  PROVE  IInv'
<1> USE DEF IInv
<1>0. UNCHANGED <<link, session, sessions, moved, entry, reader, answered, nudged>>
  BY DEF Commit, cache
<1>1. TypeOK'
  BY WritingType DEF Writing
<1>2. /\ commits \in Int /\ commits' = commits + 1 /\ commits + 1 \in Commits
      /\ db'[f] = commits + 1 /\ \A g \in Facts : g # f => db'[g] = db[g]
      /\ announced'[f] = commits + 1 /\ \A g \in Facts : g # f => announced'[g] = announced[g]
      /\ \A g \in Facts : db[g] \in Int /\ db[g] <= db'[g]
  <2>1. /\ commits \in Int /\ commits' = commits + 1 /\ commits + 1 \in Commits
        /\ \A g \in Facts : db[g] \in Int /\ db[g] <= commits
    BY FastPathAssumption DEF Commit, TypeOK, NotAhead, Commits
  <2>2. /\ db'[f] = commits + 1 /\ \A g \in Facts : g # f => db'[g] = db[g]
        /\ announced'[f] = commits + 1 /\ \A g \in Facts : g # f => announced'[g] = announced[g]
    BY DEF Commit, TypeOK
  <2>3. \A g \in Facts : db[g] <= db'[g]
    BY <2>1, <2>2
  <2> QED
    BY <2>1, <2>2, <2>3
<1>3. /\ inbox' = Notified(f, commits + 1, FALSE)
      /\ \A j \in Instances : inbox[j] \subseteq inbox'[j]
      /\ \A j \in Instances : \A n \in inbox'[j] \ inbox[j] : n.fact = f /\ n.ver = commits + 1
  <2>1. PICK v \in Commits, purge \in BOOLEAN : v = commits + 1 /\ purge = FALSE
    BY <1>2
  <2>2. inbox' = Notified(f, v, purge) /\ TypeOK
    BY <2>1 DEF Commit
  <2>3. /\ \A j \in Instances : inbox[j] \subseteq Notified(f, v, purge)[j]
        /\ \A j \in Instances : \A n \in Notified(f, v, purge)[j] \ inbox[j] :
             n.fact = f /\ n.ver = v
    BY <2>2, NotifiedType
  <2>4. /\ \A j \in Instances : inbox[j] \subseteq inbox'[j]
        /\ \A j \in Instances : \A n \in inbox'[j] \ inbox[j] : n.fact = f /\ n.ver = v
    BY <2>2, <2>3
  <2> HIDE DEF IInv
  <2>5. inbox' = Notified(f, commits + 1, FALSE)
    BY DEF Commit
  <2> QED
    BY <2>1, <2>4, <2>5
<1>4. NotAhead'
  <2>1. \A g \in Facts : db'[g] <= commits' /\ announced'[g] <= db'[g]
    BY <1>2 DEF NotAhead
  <2>2. \A j \in Instances, g \in Facts : answered'[j][g] <= db'[g] /\ nudged'[j][g] <= db'[g]
    BY <1>0, <1>2, Fields DEF NotAhead, Commits
  <2>3. \A j \in Instances : \A n \in inbox[j] : n.purge \/ n.ver <= db'[n.fact]
    BY <1>2, Fields DEF NotAhead, Commits
  <2>4. \A j \in Instances : \A n \in inbox'[j] : n.purge \/ n.ver <= db'[n.fact]
    <3> SUFFICES ASSUME NEW j \in Instances, NEW n \in inbox'[j], n \notin inbox[j]
                 PROVE  n.purge \/ n.ver <= db'[n.fact]
      BY <2>3
    <3>1. n.fact = f /\ n.ver = commits + 1
      BY <1>3
    <3> QED
      BY <1>2, <3>1
  <2> QED
    BY <2>1, <2>2, <2>4 DEF NotAhead
<1>5. WritersKnown'
  <2>1. \A x \in Writers : x # w => writer'[x] = writer[x]
    BY DEF Commit, TypeOK
  <2>2. /\ writer'[w].fact = f /\ writer'[w].ver = commits + 1 /\ writer'[w].org = org
        /\ writer'[w].step = "answer" /\ org \in {OrgOf[f], NoOrg}
    BY DEF Commit, TypeOK, Write
  <2>3. \A x \in Writers : x # w => WritersKnown!(x)'
    BY <1>2, <2>1, Fields DEF WritersKnown, Commits
  <2> QED
    BY <1>2, <2>2, <2>3 DEF WritersKnown
<1>7. ASSUME NEW j \in Instances, NEW g \in Facts, NEW v \in Commits, Fresh(j, g, v), link[j] # "down"
      PROVE  Fresh(j, g, v)'
  <2>1. Undelivered(j, g) => Undelivered(j, g)'
    BY <1>0, <1>3 DEF Undelivered
  <2>2. g = f => Undelivered(j, g)'
    BY <1>0, <1>2, <1>3, <1>7, ToldOf
  <2> QED
    BY <1>0, <1>2, <1>7, <2>1, <2>2 DEF Fresh
<1> QED
  BY <1>0, <1>1, <1>4, <1>5, <1>7, StillFresh

\* What is deleted or raised silently was not announced: what was fresh is so.
LEMMA SilentlyInv ==
  ASSUME IInv, NEW w \in Writers, NEW f \in Facts, Silently(f), TypeOK',
         \A x \in Writers : x # w => writer'[x] = writer[x],
         /\ writer'[w].fact = f /\ writer'[w].ver \in Commits /\ writer'[w].ver <= db'[f]
         /\ writer'[w].org \in {OrgOf[f], NoOrg} /\ f \in Feeds
  PROVE  IInv'
<1> USE DEF IInv
<1>0. UNCHANGED <<link, inbox, session, sessions, moved, entry, reader, announced, answered, nudged>>
  BY DEF Silently, cache, history
<1>2. /\ commits \in Int /\ commits' = commits + 1
      /\ db'[f] = commits + 1 /\ \A g \in Facts : g # f => db'[g] = db[g]
      /\ \A g \in Facts : db[g] \in Int /\ db[g] <= db'[g]
  BY DEF Silently, TypeOK, NotAhead, Commits
<1>4. NotAhead'
  <2>1. \A g \in Facts : db'[g] <= commits' /\ announced'[g] <= db'[g]
    BY <1>0, <1>2, Fields DEF NotAhead, Commits
  <2>2. \A j \in Instances, g \in Facts : answered'[j][g] <= db'[g] /\ nudged'[j][g] <= db'[g]
    BY <1>0, <1>2, Fields DEF NotAhead, Commits
  <2>3. \A j \in Instances : \A n \in inbox[j] : n.purge \/ n.ver <= db'[n.fact]
    BY <1>2, Fields DEF NotAhead, Commits
  <2> QED
    BY <1>0, <2>1, <2>2, <2>3 DEF NotAhead
<1>5. WritersKnown'
  <2>3. \A x \in Writers : x # w => WritersKnown!(x)'
    BY <1>2, Fields DEF WritersKnown, Commits
  <2> QED
    BY <2>3 DEF WritersKnown
<1>7. \A j \in Instances, g \in Facts : \A v \in Commits : Fresh(j, g, v) => Fresh(j, g, v)'
  BY <1>0 DEF Fresh, Undelivered
<1> QED
  BY <1>0, <1>4, <1>5, <1>7, StillFresh

LEMMA PurgeInv ==
  ASSUME IInv, NEW w \in Writers, NEW i \in Instances, NEW f \in Feeds, Purge(w, i, f)
  PROVE  IInv'
<1>1. TypeOK'
  BY SweepingType DEF Sweeping, IInv
<1>2. f \in Facts /\ Silently(f)
  BY FastPathAssumption DEF Purge
<1>3. /\ \A x \in Writers : x # w => writer'[x] = writer[x]
      /\ writer'[w].fact = f /\ writer'[w].ver = commits + 1 /\ writer'[w].org = OrgOf[f]
  BY DEF Purge, Write, IInv, TypeOK
<1>4. commits + 1 \in Commits /\ db'[f] = commits + 1
  BY <1>2, FastPathAssumption DEF Silently, IInv, TypeOK, Commits
<1>5. writer'[w].ver \in Commits /\ writer'[w].ver <= db'[f]
  BY <1>3, <1>4 DEF Commits
<1> QED
  BY <1>1, <1>2, <1>3, <1>5, SilentlyInv

\* A sweep goes to its next statement with the feed it purges.
LEMMA GotoKeeps ==
  ASSUME TypeOK, NEW w \in Writers, writer[w] # Idle, NEW step \in Steps, Goto(w, step)
  PROVE  /\ \A x \in Writers : x # w => writer'[x] = writer[x]
         /\ writer'[w].at = writer[w].at /\ writer'[w].fact = writer[w].fact
         /\ writer'[w].ver = writer[w].ver /\ writer'[w].org = writer[w].org
         /\ writer'[w] # Idle => writer'[w].step = step
<1>1. writer[w] \in Writes
  BY Fields
<1>2. writer' = [writer EXCEPT ![w] = [writer[w] EXCEPT !.step = step]]
  BY DEF Goto, TypeOK
<1>3. writer'[w] = [writer[w] EXCEPT !.step = step] /\ \A x \in Writers : x # w => writer'[x] = writer[x]
  BY <1>2 DEF TypeOK
<1> QED
  BY <1>1, <1>3 DEF Writes

LEMMA RaiseInv ==
  ASSUME IInv, NEW w \in Writers, RaiseWatermark(w)
  PROVE  IInv'
<1>1. TypeOK'
  BY SweepingType DEF Sweeping, IInv
<1>2. /\ TypeOK /\ writer[w] # Idle /\ writer[w].step = "purged"
      /\ Goto(w, "raised") /\ "raised" \in Steps
  BY DEF RaiseWatermark, At, IInv, Steps
<1>3. PICK f \in Facts : f = writer[w].fact
  BY <1>2, Fields
<1>4. Silently(f)
  BY <1>3 DEF RaiseWatermark
<1>5. /\ f \in Feeds /\ writer[w].org \in {OrgOf[f], NoOrg}
      /\ writer[w].ver \in Commits /\ writer[w].ver <= db[f]
  BY <1>2, <1>3, Fields DEF IInv, WritersKnown
<1>6. db'[f] = commits + 1 /\ db[f] <= commits /\ db[f] \in Int /\ commits \in Int
  BY <1>4 DEF Silently, IInv, TypeOK, NotAhead, Commits
<1>7. writer[w].ver <= db'[f]
  BY <1>5, <1>6 DEF Commits
<1>8. /\ \A x \in Writers : x # w => writer'[x] = writer[x]
      /\ writer'[w].fact = f /\ writer'[w].ver = writer[w].ver /\ writer'[w].org = writer[w].org
  BY <1>2, <1>3, GotoKeeps
<1> QED
  BY <1>1, <1>4, <1>5, <1>7, <1>8, SilentlyInv

\* The purge is announced to every instance that serves, whatever was read.
LEMMA AnnounceInv ==
  ASSUME IInv, NEW w \in Writers, AnnouncePurge(w)
  PROVE  IInv'
<1> USE DEF IInv
<1>0. UNCHANGED <<db, commits, link, session, sessions, moved, entry, reader, answered, nudged>>
  BY DEF AnnouncePurge, cache
<1>1. TypeOK'
  BY SweepingType DEF Sweeping
<1>2. /\ writer[w] # Idle /\ writer[w].step = "raised"
      /\ Goto(w, "announced") /\ "announced" \in Steps
  BY DEF AnnouncePurge, At, Steps
<1>3. PICK f \in Facts : f = writer[w].fact
  BY <1>2, Fields
<1>4. /\ announced'[f] = db[f] /\ \A g \in Facts : g # f => announced'[g] = announced[g]
  BY <1>3 DEF AnnouncePurge, TypeOK
<1>5. /\ inbox' = Notified(f, commits, TRUE) /\ commits \in Commits
      /\ \A j \in Instances : inbox[j] \subseteq inbox'[j]
      /\ \A j \in Instances : \A n \in inbox'[j] \ inbox[j] : n.purge
  <2>1. inbox' = Notified(f, commits, TRUE) /\ commits \in Commits /\ TypeOK /\ TRUE \in BOOLEAN
    BY <1>3 DEF AnnouncePurge, TypeOK
  <2>2. /\ \A j \in Instances : inbox[j] \subseteq Notified(f, commits, TRUE)[j]
        /\ \A j \in Instances : \A n \in Notified(f, commits, TRUE)[j] \ inbox[j] : n.purge = TRUE
    BY <2>1, NotifiedType
  <2> QED
    BY <2>1, <2>2
<1>6. NotAhead'
  <2>1. \A g \in Facts : announced'[g] <= db[g]
    BY <1>4, Fields DEF NotAhead, Commits
  <2>2. \A j \in Instances : \A n \in inbox'[j] : n.purge \/ n.ver <= db[n.fact]
    BY <1>5 DEF NotAhead
  <2> QED
    BY <1>0, <2>1, <2>2 DEF NotAhead
<1>7. WritersKnown'
  <2>1. \A x \in Writers : x # w => WritersKnown!(x)'
    BY <1>0, <1>2, GotoKeeps DEF WritersKnown
  <2>2. WritersKnown!(w)'
    BY <1>0, <1>2, GotoKeeps DEF WritersKnown
  <2> QED
    BY <2>1, <2>2 DEF WritersKnown
<1>8. ASSUME NEW j \in Instances, NEW g \in Facts, NEW v \in Commits, Fresh(j, g, v), link[j] # "down"
      PROVE  Fresh(j, g, v)'
  <2>1. Undelivered(j, g) => Undelivered(j, g)'
    BY <1>0, <1>5 DEF Undelivered
  <2>2. g = f => Undelivered(j, g)'
    BY <1>0, <1>5, <1>8, ToldOf
  <2> QED
    BY <1>0, <1>4, <1>8, <2>1, <2>2 DEF Fresh
<1> QED
  BY <1>0, <1>1, <1>6, <1>7, <1>8, StillFresh

\* A response moves the fence: no read under way on the instance may be
\* stored, and no stored answer of what was written may be served.
LEMMA RespondInv ==
  ASSUME IInv, NEW w \in Writers, Respond(w)
  PROVE  IInv'
<1> USE DEF IInv
<1>0. UNCHANGED <<db, commits, link, inbox, session, sessions, entry, reader, announced, nudged>>
  BY DEF Respond
<1>1. TypeOK'
  BY WritingType DEF Writing
<1>p. PICK i \in Instances, f \in Facts, v \in Commits, org \in Orgs \cup {NoOrg} :
        /\ i = writer[w].at /\ f = writer[w].fact /\ v = writer[w].ver /\ org = writer[w].org
        /\ v <= db[f] /\ org \in {OrgOf[f], NoOrg}
  BY Fields DEF Respond, WritersKnown
<1>2. /\ moved'[i] = Fenced(moved[i], org)
      /\ \A j \in Instances : j # i => moved'[j] = moved[j]
  BY <1>p DEF Respond, TypeOK
<1>3. /\ answered'[i][f] = IF answered[i][f] < v THEN v ELSE answered[i][f]
      /\ \A j \in Instances, g \in Facts :
           <<j, g>> # <<i, f>> => answered'[j][g] = answered[j][g]
  BY <1>p DEF Respond, TypeOK
<1>4. /\ moved[i] \in Moved /\ moved'[i].fenceTotal = moved[i].fenceTotal + 1
      /\ moved'[i].noorg = IF org = NoOrg THEN moved[i].noorg + 1 ELSE moved[i].noorg
      /\ \A o \in Orgs : moved'[i].orgFence[o]
            = IF o = org THEN moved[i].orgFence[o] + 1 ELSE moved[i].orgFence[o]
      /\ moved'[i].authz = moved[i].authz /\ moved'[i].gen = moved[i].gen
  <2>1. moved[i] \in Moved /\ org \in Orgs \cup {NoOrg}
    BY Fields, FastPathAssumption
  <2> QED
    BY <1>2, <2>1, FencedType
<1>5. NotAhead'
  BY <1>0, <1>p, <1>3 DEF NotAhead
<1>6. WritersKnown'
  BY <1>0 DEF Respond, WritersKnown, TypeOK
<1>7. Serving'
  BY <1>0 DEF Serving
<1>8. CapturesBehind'
  <2> SUFFICES ASSUME NEW r \in Readers, reader[r] # Idle PROVE CapturesBehind!(r)'
    BY <1>0 DEF CapturesBehind
  <2>1. PICK j \in Instances, g \in Facts, c \in Counters :
          j = reader[r].at /\ g = reader[r].fact /\ c = reader[r].cap
    BY Fields
  <2>2. /\ c.noorg \in Int /\ c.authz \in Int /\ c.fence \in Int /\ c.gen \in Int
    BY DEF Counters
  <2>3. /\ moved[i].noorg \in Int /\ moved[i].fenceTotal \in Int
    BY <1>4 DEF Moved
  <2>4. j = i => /\ c.noorg <= moved[i].noorg => c.noorg <= moved'[i].noorg
                 /\ c.fence <= moved[i].fenceTotal => c.fence <= moved'[i].fenceTotal
    BY <1>4, <2>2, <2>3
  <2>5. CapturesBehind!(r)
    BY DEF CapturesBehind
  <2> QED
    BY <1>0, <1>2, <1>4, <2>1, <2>4, <2>5
<1>9. ASSUME NEW j \in Instances, NEW g \in Facts, entry[j][g] # NoEntry
      PROVE  SealsBehind!(j, g)' /\ (Valid(j, g)' => Valid(j, g) /\ <<j, g>> # <<i, f>>)
  <2>0. OrgOf[g] \in Orgs
    BY FastPathAssumption
  <2>1. PICK c \in Counters : c = entry[j][g].seal
    BY <1>9, Fields
  <2>2. SealsBehind!(j, g)
    BY DEF SealsBehind
  <2>3. CASE j # i
    BY <1>0, <1>2, <2>2, <2>3 DEF Valid, Seal
  <2>4. CASE j = i
    <3>1. /\ c.noorg \in Int /\ c.fence \in Int
          /\ moved[i].noorg \in Int /\ moved[i].orgFence[OrgOf[g]] \in Int
      BY <1>4, <2>0 DEF Counters, Moved
    <3>2. /\ c.session = session[i] /\ session[i] # 0
          /\ c.noorg <= moved[i].noorg /\ c.authz <= moved[i].authz
          /\ c.fence <= moved[i].orgFence[OrgOf[g]] /\ c.gen <= moved[i].gen[g]
      BY <1>9, <2>1, <2>2, <2>4
    <3>3. /\ c.noorg <= moved'[i].noorg /\ c.fence <= moved'[i].orgFence[OrgOf[g]]
      BY <1>4, <2>0, <3>1, <3>2
    <3>4. SealsBehind!(j, g)'
      BY <1>0, <1>4, <2>1, <2>4, <3>2, <3>3
    <3>5. ASSUME Valid(j, g)' PROVE Valid(j, g) /\ <<j, g>> # <<i, f>>
      <4>1. /\ c.noorg = moved'[i].noorg /\ c.fence = moved'[i].orgFence[OrgOf[g]]
            /\ c.authz = moved[i].authz /\ c.gen = moved[i].gen[g]
        BY <1>0, <1>4, <2>1, <2>4, <3>5 DEF Valid, Seal
      <4>2. c.noorg = moved[i].noorg /\ c.fence = moved[i].orgFence[OrgOf[g]]
        BY <1>4, <2>0, <3>1, <3>2, <4>1
      <4>3. org # NoOrg /\ OrgOf[g] # org
        <5>1. moved'[i].noorg = moved[i].noorg /\ moved'[i].orgFence[OrgOf[g]] = moved[i].orgFence[OrgOf[g]]
          BY <4>1, <4>2
        <5>2. ASSUME org = NoOrg PROVE FALSE
          BY <1>4, <3>1, <5>1, <5>2
        <5>3. ASSUME OrgOf[g] = org PROVE FALSE
          BY <1>4, <2>0, <3>1, <5>1, <5>3
        <5> QED
          BY <5>2, <5>3
      <4>4. g # f
        BY <1>p, <4>3
      <4>5. Seal(j, g) = c
        BY <2>4, <3>2, <4>1, <4>2, Matches
      <4> QED
        BY <1>9, <2>1, <2>4, <3>2, <4>4, <4>5 DEF Valid
    <3> QED
      BY <3>4, <3>5
  <2> QED
    BY <2>3, <2>4
<1>10. SealsBehind'
  <2>1. \A j \in Instances, g \in Facts : entry[j][g] # NoEntry => SealsBehind!(j, g)'
    BY <1>9
  <2> QED
    BY <1>0, <2>1 DEF SealsBehind
<1>11. FreshReads'
  <2> SUFFICES ASSUME NEW r \in Readers, reader[r] # Idle, reader[r].read,
                      (Capture(reader[r].at, reader[r].fact) = reader[r].cap)'
               PROVE  Fresh(reader[r].at, reader[r].fact, reader[r].val)'
    BY <1>0 DEF FreshReads
  <2>1. PICK j \in Instances, g \in Facts, c \in Counters :
          j = reader[r].at /\ g = reader[r].fact /\ c = reader[r].cap
    BY Fields
  <2>2. c.session = session[j] /\ c.fence = moved'[j].fenceTotal
    BY <1>0, <2>1 DEF Capture
  <2>3. c.fence <= moved[j].fenceTotal
    BY <2>1, <2>2 DEF CapturesBehind
  <2>4. j # i
    <3>1. moved[i].fenceTotal \in Int
      BY <1>4 DEF Moved
    <3> QED
      BY <1>4, <2>2, <2>3, <3>1
  <2>5. Capture(j, g) = c
    BY <1>0, <1>2, <2>1, <2>4 DEF Capture
  <2>6. Fresh(j, g, reader[r].val)
    BY <2>1, <2>5 DEF FreshReads
  <2> QED
    BY <1>0, <1>3, <2>1, <2>4, <2>6 DEF Fresh, Undelivered
<1>12. FreshEntries'
  <2> SUFFICES ASSUME NEW j \in Instances, NEW g \in Facts, Valid(j, g)'
               PROVE  Fresh(j, g, entry[j][g].val)'
    BY <1>0 DEF FreshEntries
  <2>1. entry[j][g] # NoEntry
    BY <1>0 DEF Valid
  <2>2. Valid(j, g) /\ <<j, g>> # <<i, f>>
    BY <1>9, <2>1
  <2>3. Fresh(j, g, entry[j][g].val)
    BY <2>2 DEF FreshEntries
  <2> QED
    BY <1>0, <1>3, <2>2, <2>3 DEF Fresh, Undelivered
<1> QED
  BY <1>1, <1>5, <1>6, <1>7, <1>8, <1>10, <1>11, <1>12

\* A counter that moves: reads under way are not stored, and the answers it
\* is about are gone.
LEMMA MovesOn ==
  ASSUME IInv, NEW i \in Instances, NEW h \in Facts,
         UNCHANGED <<db, commits, link, session, sessions, reader, announced, answered>>,
         /\ moved'[i] = Bumped(moved[i], h) /\ \A j \in Instances : j # i => moved'[j] = moved[j],
         /\ \A j \in Instances, g \in Facts : \A n \in inbox[j] :
              n.fact = g /\ <<j, g>> # <<i, h>> => n \in inbox'[j],
         \A j \in Instances, g \in Facts : <<j, g>> # <<i, h>> => nudged'[j][g] = nudged[j][g],
         /\ \A j \in Instances : j # i => entry'[j] = entry[j]
         /\ entry'[i][h] = NoEntry
         /\ \A g \in Facts : entry'[i][g] \in {entry[i][g], NoEntry}
  PROVE  (CapturesBehind /\ SealsBehind /\ FreshReads /\ FreshEntries)'
<1> USE DEF IInv
<1>0. UNCHANGED <<db, commits, link, session, sessions, reader, announced, answered>>
  OBVIOUS
<1>2. /\ moved'[i] = Bumped(moved[i], h) /\ \A j \in Instances : j # i => moved'[j] = moved[j]
  OBVIOUS
<1>3. \A j \in Instances, g \in Facts : <<j, g>> # <<i, h>> => nudged'[j][g] = nudged[j][g]
  OBVIOUS
<1>4. /\ \A j \in Instances : j # i => entry'[j] = entry[j]
      /\ entry'[i][h] = NoEntry
      /\ \A g \in Facts : entry'[i][g] \in {entry[i][g], NoEntry}
  OBVIOUS
<1>5. /\ moved[i] \in Moved
      /\ moved'[i].authz = IF h \in Authz THEN moved[i].authz + 1 ELSE moved[i].authz
      /\ \A g \in Facts : moved'[i].gen[g]
            = IF g = h /\ h \notin Authz THEN moved[i].gen[g] + 1 ELSE moved[i].gen[g]
      /\ moved'[i].noorg = moved[i].noorg /\ moved'[i].fenceTotal = moved[i].fenceTotal
      /\ moved'[i].orgFence = moved[i].orgFence
  BY <1>2, Fields, BumpedType
<1>6. /\ moved[i].authz \in Int /\ moved[i].authz <= moved'[i].authz
      /\ \A g \in Facts : moved[i].gen[g] \in Int /\ moved[i].gen[g] <= moved'[i].gen[g]
  BY <1>5 DEF Moved
<1>9. CapturesBehind'
  <2> SUFFICES ASSUME NEW r \in Readers, reader[r] # Idle PROVE CapturesBehind!(r)'
    BY <1>0 DEF CapturesBehind
  <2>1. PICK j \in Instances, g \in Facts, c \in Counters :
          j = reader[r].at /\ g = reader[r].fact /\ c = reader[r].cap
    BY Fields
  <2>2. c.authz \in Int /\ c.gen \in Int
    BY DEF Counters
  <2>3. /\ c.authz <= moved[i].authz => c.authz <= moved'[i].authz
        /\ c.gen <= moved[i].gen[g] => c.gen <= moved'[i].gen[g]
    <3>1. \A a, b, x \in Int : a <= b /\ b <= x => a <= x
      OBVIOUS
    <3>2. moved'[i].authz \in Int /\ moved'[i].gen[g] \in Int
      BY <1>5, <1>6
    <3> QED
      BY <1>6, <2>2, <3>1, <3>2
  <2>4. CapturesBehind!(r)
    BY DEF CapturesBehind
  <2> QED
    BY <1>0, <1>2, <1>5, <2>1, <2>3, <2>4
<1>10. ASSUME NEW j \in Instances, NEW g \in Facts, entry'[j][g] # NoEntry
       PROVE  SealsBehind!(j, g)' /\ (Valid(j, g)' => Valid(j, g) /\ <<j, g>> # <<i, h>>)
  <2>1. entry'[j][g] = entry[j][g]
    BY <1>4, <1>10
  <2>2. PICK c \in Counters : c = entry[j][g].seal
    BY <1>10, <2>1, Fields
  <2>3. SealsBehind!(j, g)
    BY DEF SealsBehind
  <2>4. CASE j # i
    BY <1>0, <1>2, <2>1, <2>3, <2>4 DEF Valid, Seal
  <2>5. CASE j = i
    <3>1. g # h /\ c.authz \in Int /\ c.gen \in Int
      BY <1>4, <1>10, <2>5 DEF Counters
    <3>2. moved'[i].gen[g] = moved[i].gen[g]
      BY <1>5, <3>1
    <3>3. /\ c.session = session[i] /\ session[i] # 0
          /\ c.noorg <= moved[i].noorg /\ c.authz <= moved[i].authz
          /\ c.fence <= moved[i].orgFence[OrgOf[g]] /\ c.gen <= moved[i].gen[g]
      BY <1>10, <2>1, <2>2, <2>3, <2>5
    <3>4. c.authz <= moved'[i].authz
      BY <1>5, <1>6, <3>1, <3>3
    <3>5. SealsBehind!(j, g)'
      BY <1>0, <1>5, <2>1, <2>2, <2>5, <3>2, <3>3, <3>4
    <3>6. ASSUME Valid(j, g)' PROVE Valid(j, g)
      <4>1. /\ c.authz = moved'[i].authz /\ c.noorg = moved[i].noorg /\ c.gen = moved[i].gen[g]
            /\ c.fence = moved[i].orgFence[OrgOf[g]]
        BY <1>5, <2>1, <2>2, <2>5, <3>2, <3>6 DEF Valid, Seal
      <4>2. c.authz = moved[i].authz
        BY <1>5, <1>6, <3>1, <3>3, <4>1
      <4>3. Seal(j, g) = c
        BY <2>5, <3>3, <4>1, <4>2, Matches
      <4> QED
        BY <1>10, <2>1, <2>2, <2>5, <3>3, <4>3 DEF Valid
    <3> QED
      BY <3>1, <3>5, <3>6
  <2> QED
    BY <2>4, <2>5
<1>11. SealsBehind'
  <2>1. \A j \in Instances, g \in Facts : entry'[j][g] # NoEntry => SealsBehind!(j, g)'
    BY <1>10
  <2> QED
    BY <2>1 DEF SealsBehind
<1>12. \A j \in Instances, g \in Facts :
         <<j, g>> # <<i, h>> /\ Undelivered(j, g) => Undelivered(j, g)'
  <2> SUFFICES ASSUME NEW j \in Instances, NEW g \in Facts, <<j, g>> # <<i, h>>,
                      NEW m \in inbox[j], m.fact = g
               PROVE  m \in inbox'[j]
    BY <1>0 DEF Undelivered
  <2> QED
    OBVIOUS
<1>13. FreshReads'
  <2> SUFFICES ASSUME NEW r \in Readers, reader[r] # Idle, reader[r].read,
                      (Capture(reader[r].at, reader[r].fact) = reader[r].cap)'
               PROVE  Fresh(reader[r].at, reader[r].fact, reader[r].val)'
    BY <1>0 DEF FreshReads
  <2>1. PICK j \in Instances, g \in Facts, c \in Counters :
          j = reader[r].at /\ g = reader[r].fact /\ c = reader[r].cap
    BY Fields
  <2>2. /\ c.session = session[j] /\ c.authz = moved'[j].authz /\ c.gen = moved'[j].gen[g]
        /\ c.noorg = moved'[j].noorg /\ c.fence = moved'[j].fenceTotal
    BY <1>0, <2>1 DEF Capture
  <2>3. c.authz <= moved[j].authz /\ c.gen <= moved[j].gen[g]
    BY <2>1, <2>2 DEF CapturesBehind
  <2>4. j = i => moved'[i].authz = moved[i].authz /\ moved'[i].gen[g] = moved[i].gen[g]
    BY <1>5, <1>6, <2>2, <2>3
  <2>5. <<j, g>> # <<i, h>>
    BY <1>5, <1>6, <2>4
  <2>6. Capture(j, g) = c
    BY <1>0, <1>2, <1>5, <2>1, <2>2, <2>4, Matches
  <2>7. Fresh(j, g, reader[r].val)
    BY <2>1, <2>6 DEF FreshReads
  <2>8. Undelivered(j, g) => Undelivered(j, g)'
    BY <1>12, <2>5
  <2>9. answered'[j][g] = answered[j][g] /\ nudged'[j][g] = nudged[j][g] /\ db'[g] = db[g]
    BY <1>0, <1>3, <2>5
  <2> QED
    BY <1>0, <2>1, <2>7, <2>8, <2>9 DEF Fresh, Undelivered
<1>14. FreshEntries'
  <2> SUFFICES ASSUME NEW j \in Instances, NEW g \in Facts, Valid(j, g)'
               PROVE  Fresh(j, g, entry[j][g].val)'
    BY DEF FreshEntries
  <2>1. entry'[j][g] # NoEntry
    BY DEF Valid
  <2>2. Valid(j, g) /\ <<j, g>> # <<i, h>> /\ entry'[j][g] = entry[j][g]
    BY <1>4, <1>10, <2>1
  <2>3. Fresh(j, g, entry[j][g].val)
    BY <2>2 DEF FreshEntries
  <2>4. Undelivered(j, g) => Undelivered(j, g)'
    BY <1>12, <2>2
  <2> QED
    BY <1>0, <1>3, <2>2, <2>3, <2>4 DEF Fresh
<1> QED
  BY <1>9, <1>11, <1>13, <1>14

\* A notification handled: the answers it is about go before devices are nudged.
LEMMA HandleInv ==
  ASSUME IInv, NEW i \in Instances, Handle(i)
  PROVE  IInv'
<1> USE DEF IInv
<1>0. UNCHANGED <<db, commits, link, session, sessions, reader, writer, announced, answered>>
  BY DEF Handle
<1>1. TypeOK'
  BY ListeningType DEF Listening
<1>p. PICK n \in inbox[i] :
        /\ inbox' = [inbox EXCEPT ![i] = @ \ {n}]
        /\ moved' = [moved EXCEPT ![i] = Bumped(@, n.fact)]
        /\ entry' = [entry EXCEPT ![i] = [f \in Facts |->
             IF f = n.fact \/ (n.fact \in Authz /\ f \in Authz) THEN NoEntry ELSE entry[i][f]]]
        /\ nudged' = IF n.purge THEN nudged ELSE [nudged EXCEPT ![i][n.fact] = n.ver]
  BY DEF Handle
<1>q. PICK h \in Facts : h = n.fact /\ n.ver \in Commits /\ (n.purge \/ n.ver <= db[h])
  BY Fields DEF NotAhead
<1>2. /\ inbox'[i] = inbox[i] \ {n} /\ \A j \in Instances : j # i => inbox'[j] = inbox[j]
      /\ moved'[i] = Bumped(moved[i], h) /\ \A j \in Instances : j # i => moved'[j] = moved[j]
  BY <1>p, <1>q DEF TypeOK
<1>3. /\ nudged'[i][h] = nudged[i][h] \/ (nudged'[i][h] = n.ver /\ ~n.purge)
      /\ \A j \in Instances, g \in Facts : <<j, g>> # <<i, h>> => nudged'[j][g] = nudged[j][g]
  BY <1>p, <1>q DEF TypeOK
<1>4. /\ \A j \in Instances : j # i => entry'[j] = entry[j]
      /\ \A g \in Facts : entry'[i][g] = IF g = h \/ (h \in Authz /\ g \in Authz) THEN NoEntry ELSE entry[i][g]
  BY <1>p, <1>q DEF TypeOK
<1>7. NotAhead'
  <2>1. \A j \in Instances : inbox'[j] \subseteq inbox[j]
    BY <1>2
  <2>2. \A j \in Instances, g \in Facts : answered[j][g] <= db[g] /\ nudged'[j][g] <= db[g]
    BY <1>q, <1>3 DEF NotAhead
  <2> QED
    BY <1>0, <2>1, <2>2 DEF NotAhead
<1>8. (WritersKnown /\ Serving)'
  BY <1>0 DEF WritersKnown, Serving
<1>9. \A j \in Instances, g \in Facts : \A n1 \in inbox[j] :
        n1.fact = g /\ <<j, g>> # <<i, h>> => n1 \in inbox'[j]
  BY <1>2, <1>q
<1>10. /\ entry'[i][h] = NoEntry
       /\ \A g \in Facts : entry'[i][g] \in {entry[i][g], NoEntry}
  BY <1>4
<1>11. (CapturesBehind /\ SealsBehind /\ FreshReads /\ FreshEntries)'
  BY <1>0, <1>2, <1>3, <1>4, <1>9, <1>10, MovesOn
<1> QED
  BY <1>1, <1>7, <1>8, <1>11

\* The sweeper's own instance drops its answer of the feed.
LEMMA DropHereInv ==
  ASSUME IInv, NEW w \in Writers, DropHere(w)
  PROVE  IInv'
<1> USE DEF IInv
<1>0. UNCHANGED <<db, commits, link, inbox, session, sessions, reader, announced, answered, nudged>>
  BY DEF DropHere, history
<1>1. TypeOK'
  BY SweepingType DEF Sweeping
<1>p. PICK i \in Instances, h \in Facts : i = writer[w].at /\ h = writer[w].fact
  BY Fields DEF DropHere, At
<1>2. moved' = [moved EXCEPT ![i] = Bumped(@, h)] /\ entry' = [entry EXCEPT ![i][h] = NoEntry]
  BY <1>p DEF DropHere
<1>3. /\ moved'[i] = Bumped(moved[i], h) /\ \A j \in Instances : j # i => moved'[j] = moved[j]
      /\ \A j \in Instances : j # i => entry'[j] = entry[j]
      /\ entry'[i][h] = NoEntry
      /\ \A g \in Facts : entry'[i][g] \in {entry[i][g], NoEntry}
  BY <1>2 DEF TypeOK
<1>4. (CapturesBehind /\ SealsBehind /\ FreshReads /\ FreshEntries)'
  BY <1>0, <1>3, MovesOn
<1>5. Serving' /\ NotAhead'
  BY <1>0 DEF Serving, NotAhead
<1>6. writer'[w] = Idle /\ \A x \in Writers : x # w => writer'[x] = writer[x]
  BY DEF DropHere, TypeOK
<1>7. WritersKnown'
  BY <1>0, <1>6 DEF WritersKnown
<1> QED
  BY <1>1, <1>4, <1>5, <1>7

\* The connection changes, the session does not: nothing undelivered before
\* becomes delivered, except that an instance that was down did not serve.
LEMMA LinkInv ==
  ASSUME IInv, NEW i \in Instances, Listen(i) \/ Break(i)
  PROVE  IInv'
<1> USE DEF IInv
<1>0. UNCHANGED <<db, commits, session, sessions, moved, entry, reader, writer, announced, answered, nudged>>
  BY DEF Listen, Break, cache, history
<1>1. TypeOK'
  BY ListeningType DEF Listening
<1>2. /\ (link'[i] = "up" /\ link[i] = "down") \/ link'[i] = "broken"
      /\ \A j \in Instances : j # i => link'[j] = link[j] /\ inbox'[j] = inbox[j]
      /\ link'[i] = "up" => inbox'[i] = inbox[i]
      /\ inbox'[i] \subseteq inbox[i]
  BY DEF Listen, Break, TypeOK
<1>3. Serving' /\ NotAhead'
  BY <1>0, <1>2 DEF Serving, NotAhead
<1>4. (WritersKnown /\ CapturesBehind /\ SealsBehind)'
  BY <1>0 DEF WritersKnown, CapturesBehind, SealsBehind
<1>5. \A j \in Instances, f \in Facts : Undelivered(j, f) => Undelivered(j, f)'
  BY <1>2 DEF Undelivered
<1>6. FreshReads'
  <2> SUFFICES ASSUME NEW r \in Readers, reader[r] # Idle, reader[r].read,
                      Capture(reader[r].at, reader[r].fact) = reader[r].cap
               PROVE  Fresh(reader[r].at, reader[r].fact, reader[r].val)'
    BY <1>0 DEF FreshReads, Capture
  <2>1. PICK j \in Instances, g \in Facts : j = reader[r].at /\ g = reader[r].fact
    BY Fields
  <2>2. Fresh(j, g, reader[r].val)
    BY <2>1 DEF FreshReads
  <2>3. Undelivered(j, g) => Undelivered(j, g)'
    BY <1>5
  <2> QED
    BY <1>0, <2>1, <2>2, <2>3 DEF Fresh, Undelivered
<1>7. FreshEntries'
  <2> SUFFICES ASSUME NEW j \in Instances, NEW g \in Facts, Valid(j, g)
               PROVE  Fresh(j, g, entry[j][g].val)'
    BY <1>0 DEF FreshEntries, Valid, Seal
  <2>1. Fresh(j, g, entry[j][g].val) /\ (Undelivered(j, g) => Undelivered(j, g)')
    BY <1>5 DEF FreshEntries
  <2> QED
    BY <1>0, <2>1 DEF Fresh
<1> QED
  BY <1>1, <1>3, <1>4, <1>6, <1>7

\* A session starts or ends: nothing stored survives, and no capture taken
\* before matches again, because no session number comes twice.
LEMMA SessionInv ==
  ASSUME IInv, NEW i \in Instances, SessionStarted(i) \/ SessionLost(i)
  PROVE  IInv'
<1> USE DEF IInv
<1>0. UNCHANGED <<db, commits, reader, writer, announced, answered, nudged>>
  BY DEF SessionStarted, SessionLost, history
<1>1. TypeOK'
  BY ListeningType DEF Listening
<1>2. /\ session'[i] \in Int /\ sessions[i] \in Int /\ sessions'[i] \in Int
      /\ sessions[i] <= sessions'[i] /\ session'[i] <= sessions'[i]
      /\ session'[i] = 0 \/ (session'[i] > sessions[i] /\ link'[i] # "down")
      /\ \A f \in Facts : entry'[i][f] = NoEntry
      /\ inbox'[i] \subseteq inbox[i]
  <2>1. CASE SessionStarted(i)
    BY <2>1, Fields, FastPathAssumption DEF SessionStarted, TypeOK
  <2>2. CASE SessionLost(i)
    BY <2>2, Fields, FastPathAssumption DEF SessionLost, TypeOK
  <2> QED
    BY <2>1, <2>2
<1>3. \A j \in Instances : j # i =>
        /\ session'[j] = session[j] /\ sessions'[j] = sessions[j] /\ link'[j] = link[j]
        /\ inbox'[j] = inbox[j] /\ moved'[j] = moved[j] /\ entry'[j] = entry[j]
  BY DEF SessionStarted, SessionLost, TypeOK
<1>4. Serving' /\ NotAhead'
  <2>1. Serving'
    BY <1>2, <1>3 DEF Serving
  <2>2. NotAhead'
    BY <1>0, <1>2, <1>3 DEF NotAhead
  <2> QED
    BY <2>1, <2>2
<1>5. WritersKnown'
  BY <1>0 DEF WritersKnown
<1>6. \A r \in Readers : reader[r] # Idle /\ reader[r].at = i =>
        reader[r].cap.session # 0 /\ reader[r].cap.session # session'[i]
        /\ reader[r].cap.session <= sessions'[i]
  <2> SUFFICES ASSUME NEW r \in Readers, reader[r] # Idle, reader[r].at = i
               PROVE  /\ reader[r].cap.session # 0 /\ reader[r].cap.session # session'[i]
                      /\ reader[r].cap.session <= sessions'[i]
    OBVIOUS
  <2>1. reader[r].cap.session \in Int
    BY Fields, FastPathAssumption DEF Counters
  <2>2. reader[r].cap.session # 0 /\ reader[r].cap.session <= sessions[i]
    BY DEF CapturesBehind
  <2> QED
    BY <1>2, <2>1, <2>2
<1>7. CapturesBehind'
  <2> SUFFICES ASSUME NEW r \in Readers, reader[r] # Idle PROVE CapturesBehind!(r)'
    BY <1>0 DEF CapturesBehind
  <2>1. PICK j \in Instances, g \in Facts : j = reader[r].at /\ g = reader[r].fact
    BY Fields
  <2>2. CapturesBehind!(r)
    BY DEF CapturesBehind
  <2>3. CASE j = i
    BY <1>0, <1>6, <2>1, <2>3
  <2>4. CASE j # i
    BY <1>0, <1>3, <2>1, <2>2, <2>4
  <2> QED
    BY <2>3, <2>4
<1>8. SealsBehind'
  BY <1>2, <1>3 DEF SealsBehind
<1>9. FreshReads'
  <2> SUFFICES ASSUME NEW r \in Readers, reader[r] # Idle, reader[r].read,
                      (Capture(reader[r].at, reader[r].fact) = reader[r].cap)'
               PROVE  Fresh(reader[r].at, reader[r].fact, reader[r].val)'
    BY <1>0 DEF FreshReads
  <2>1. PICK j \in Instances, g \in Facts : j = reader[r].at /\ g = reader[r].fact
    BY Fields
  <2>2. j # i
    BY <1>0, <1>6, <2>1 DEF Capture
  <2>3. Fresh(j, g, reader[r].val)
    BY <1>0, <1>3, <2>1, <2>2 DEF FreshReads, Capture
  <2>4. link'[j] = link[j] /\ inbox'[j] = inbox[j]
    BY <1>3, <2>2
  <2> QED
    BY <1>0, <2>1, <2>3, <2>4 DEF Fresh, Undelivered
<1>10. FreshEntries'
  <2> SUFFICES ASSUME NEW j \in Instances, NEW g \in Facts, Valid(j, g)'
               PROVE  Fresh(j, g, entry[j][g].val)'
    BY DEF FreshEntries
  <2>1. j # i
    BY <1>2 DEF Valid
  <2>2. Fresh(j, g, entry[j][g].val)
    BY <1>3, <2>1 DEF FreshEntries, Valid, Seal
  <2> QED
    BY <1>0, <1>3, <2>1, <2>2 DEF Fresh, Undelivered
<1> QED
  BY <1>1, <1>4, <1>5, <1>7, <1>8, <1>9, <1>10

LEMMA InvStep == IInv /\ [Next]_vars => IInv'
<1>1. ASSUME IInv, UNCHANGED vars PROVE IInv'
  <2> USE <1>1 DEF IInv, vars, cache, history
  <2>1. TypeOK'
    BY TypeStep
  <2>2. (Serving /\ NotAhead /\ WritersKnown /\ CapturesBehind /\ SealsBehind)'
    BY DEF Serving, NotAhead, WritersKnown, CapturesBehind, SealsBehind
  <2>3. (FreshReads /\ FreshEntries)'
    BY DEF FreshReads, FreshEntries, Fresh, Valid, Capture, Seal, Undelivered
  <2> QED
    BY <2>1, <2>2, <2>3
<1>2. ASSUME IInv, Next PROVE IInv'
  <2>1. ASSUME NEW r \in Readers, Reading(r) PROVE IInv'
    BY <1>2, <2>1, StartReadInv, ReadDatabaseInv, PutInv, SkipInv DEF Reading
  <2>2. ASSUME NEW w \in Writers, Writing(w) PROVE IInv'
    BY <1>2, <2>2, CommitInv, RespondInv, LeaveInv DEF Writing
  <2>4. ASSUME NEW w \in Writers, Sweeping(w) PROVE IInv'
    BY <1>2, <2>4, PurgeInv, RaiseInv, AnnounceInv, DropHereInv DEF Sweeping
  <2>3. ASSUME NEW i \in Instances, Listening(i) PROVE IInv'
    BY <1>2, <2>3, HandleInv, LinkInv, SessionInv DEF Listening
  <2> QED
    BY <1>2, <2>1, <2>2, <2>3, <2>4, ExpireInv DEF Next
<1> QED
  BY <1>1, <1>2

\* The invariant holds in every reachable state.
THEOREM FastPathInvariant == Spec => []IInv
  BY InvInit, InvStep, PTL DEF Spec

\* A served answer older than a change that was announced has the notification
\* still under way; only what a purge has not announced yet is served without.
THEOREM StaleIsAnnounced == Spec => []StaleOnlyInFlight
<1>1. IInv => StaleOnlyInFlight
  BY DEF IInv, FreshEntries, Fresh, StaleOnlyInFlight
<1> QED
  BY <1>1, FastPathInvariant, PTL

\* What an instance serves includes every write it has answered.
THEOREM WritesAreRead == Spec => []OwnWritesServed
<1>1. IInv => OwnWritesServed
  BY DEF IInv, FreshEntries, Fresh, OwnWritesServed
<1> QED
  BY <1>1, FastPathInvariant, PTL

\* What an instance serves includes every change it has announced to devices.
THEOREM NudgesAreRead == Spec => []NudgedReadIsFresh
<1>1. IInv => NudgedReadIsFresh
  BY DEF IInv, FreshEntries, Fresh, NudgedReadIsFresh
<1> QED
  BY <1>1, FastPathInvariant, PTL
=============================================================================
