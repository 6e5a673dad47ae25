------------------------------ MODULE FastPath ------------------------------
(***************************************************************************)
(* The read fast paths: each server instance answers some reads from       *)
(* memory and must drop an answer the moment it may have changed.          *)
(*                                                                         *)
(* A fact is what one cached answer depends on: a branch's feed (the idle  *)
(* pull), an organisation's catalog revision, or an organisation's grants  *)
(* (accounts, epochs and sessions, all dropped together).  A commit        *)
(* notifies every instance that listens; notifications are delivered in    *)
(* commit order.  A reader captures the counters, reads the database, and  *)
(* stores what it read only if no counter moved; an entry is sealed with   *)
(* the counters and served while they still match.  A request that wrote   *)
(* moves its organisation's fence before its response leaves.  Only the    *)
(* purge of old tombstones announces its change in a statement of its own, *)
(* two statements after the first.                                         *)
(***************************************************************************)
EXTENDS Integers, FiniteSets

CONSTANTS
  Instances,   \* server processes
  Facts,       \* the branches, catalogs and grants answers are made of
  Authz,       \* the facts announced as authz_epoch / authz_user
  Feeds,       \* the branches' feeds, which the sweeper purges
  Orgs,        \* organisations
  OrgOf,       \* the organisation a fact belongs to
  NoOrg,       \* a request without an organisation (a super admin's)
  Readers,     \* concurrent reads
  Writers,     \* concurrent mutating requests and background jobs
  Idle,        \* no read or write in progress
  NoEntry,     \* no stored answer
  MaxCommits,  \* bound: commits that change a fact
  MaxSessions  \* bound: LISTEN sessions per instance

ASSUME FastPathAssumption ==
  /\ OrgOf \in [Facts -> Orgs] /\ NoOrg \notin Orgs /\ Authz \subseteq Facts
  /\ Feeds \subseteq Facts \ Authz
  /\ MaxCommits \in Nat /\ MaxSessions \in Nat

VARIABLES
  db,        \* the commit that last changed each fact
  commits,   \* commits so far
  link,      \* the LISTEN connection: "down", "up", or "broken", unnoticed
  inbox,     \* notifications sent to each instance, not yet handled
  session,   \* the fast-path session, 0 when nothing is served or stored
  sessions,  \* sessions started so far
  moved,     \* the counters of each instance
  entry,     \* the stored answers
  reader,    \* each read in progress
  writer,    \* each write in progress
  announced, \* history: last change of each fact sent to those who listen
  answered,  \* history: last change of a fact answered to a client here
  nudged     \* history: last change of a fact announced to devices here

cache   == <<session, sessions, moved, entry>>
history == <<announced, answered, nudged>>
vars    == <<db, commits, link, inbox, cache, reader, writer, history>>

Commits  == 0 .. MaxCommits

\* Every counter at zero, as in State::default.
AtRest == [noorg |-> 0, authz |-> 0, fenceTotal |-> 0,
           orgFence |-> [o \in Orgs |-> 0], gen |-> [f \in Facts |-> 0]]

-----------------------------------------------------------------------------
(* The fill rule.                                                          *)

Capture(i, f) ==
  [session |-> session[i], noorg |-> moved[i].noorg, authz |-> moved[i].authz,
   fence |-> moved[i].fenceTotal, gen |-> moved[i].gen[f]]

Seal(i, f) ==
  [session |-> session[i], noorg |-> moved[i].noorg, authz |-> moved[i].authz,
   fence |-> moved[i].orgFence[OrgOf[f]], gen |-> moved[i].gen[f]]

\* Faulty: only a new listener session counts as a move.
UnchangedSession(i, f, cap) == cap.session # 0 /\ f \in Facts /\ session[i] = cap.session

\* Nothing relevant moved since the capture, and the listener is up.
Unchanged(i, f, cap) == cap.session # 0 /\ Capture(i, f) = cap

\* The stored answer of f may be served.
Valid(i, f) ==
  /\ session[i] # 0
  /\ entry[i][f] # NoEntry
  /\ entry[i][f].seal = Seal(i, f)

-----------------------------------------------------------------------------
(* Readers: a miss.  (A hit serves a valid entry and changes nothing.)     *)

\* capture(), before the database is read.
StartRead(r, i, f) ==
  /\ reader[r] = Idle
  /\ session[i] # 0
  /\ reader' = [reader EXCEPT ![r] =
       [at |-> i, fact |-> f, cap |-> Capture(i, f), val |-> 0, read |-> FALSE]]
  /\ UNCHANGED <<db, commits, link, inbox, cache, writer, history>>

ReadDatabase(r) ==
  /\ reader[r] # Idle /\ ~reader[r].read
  /\ reader' = [reader EXCEPT ![r].val = db[reader[r].fact], ![r].read = TRUE]
  /\ UNCHANGED <<db, commits, link, inbox, cache, writer, history>>

\* put_*: store what was read, unless something moved.
Put(r) ==
  /\ reader[r] # Idle /\ reader[r].read
  /\ LET i == reader[r].at
         f == reader[r].fact
     IN entry' = IF Unchanged(i, f, reader[r].cap)
                 THEN [entry EXCEPT ![i][f] = [val |-> reader[r].val, seal |-> Seal(i, f)]]
                 ELSE entry
  /\ reader' = [reader EXCEPT ![r] = Idle]
  /\ UNCHANGED <<db, commits, link, inbox, session, sessions, moved, writer, history>>

\* The answer is one that is not stored (a pull that was not idle), or failed.
Skip(r) ==
  /\ reader[r] # Idle /\ reader[r].read
  /\ reader' = [reader EXCEPT ![r] = Idle]
  /\ UNCHANGED <<db, commits, link, inbox, cache, writer, history>>

\* Faulty: no age limit, only a working listener drops an entry.
ExpireWhileListening(i, f) ==
  /\ entry[i][f] # NoEntry /\ link[i] = "up"
  /\ entry' = [entry EXCEPT ![i][f] = NoEntry]
  /\ UNCHANGED <<db, commits, link, inbox, session, sessions, moved, reader, writer, history>>

\* The age limit, an entry's deadline, or a full map drops an entry.
Expire(i, f) ==
  /\ entry[i][f] # NoEntry
  /\ entry' = [entry EXCEPT ![i][f] = NoEntry]
  /\ UNCHANGED <<db, commits, link, inbox, session, sessions, moved, reader, writer, history>>

-----------------------------------------------------------------------------
(* Writers.                                                                *)

\* A notification sent to every instance that listens.
Notified(f, v, purge) ==
  [j \in Instances |->
     IF link[j] = "up" THEN inbox[j] \cup {[fact |-> f, ver |-> v, purge |-> purge]} ELSE inbox[j]]

Write(i, f, v, org, step) == [at |-> i, fact |-> f, ver |-> v, org |-> org, step |-> step]

\* The transaction commits, and its triggers' notification with it.
Commit(w, i, f, org) ==
  /\ writer[w] = Idle
  /\ org \in {OrgOf[f], NoOrg}
  /\ commits < MaxCommits
  /\ commits' = commits + 1
  /\ db' = [db EXCEPT ![f] = commits + 1]
  /\ inbox' = Notified(f, commits + 1, FALSE)
  /\ announced' = [announced EXCEPT ![f] = commits + 1]
  /\ writer' = [writer EXCEPT ![w] = Write(i, f, commits + 1, org, "answer")]
  /\ UNCHANGED <<link, cache, reader, answered, nudged>>

\* Faulty: the organisation's own fence stays where it is.
FencedTotal(m, org) ==
  IF org = NoOrg
  THEN [m EXCEPT !.fenceTotal = @ + 1, !.noorg = @ + 1]
  ELSE [m EXCEPT !.fenceTotal = @ + 1]

\* on_local_write: the fence moves.
Fenced(m, org) ==
  IF org = NoOrg
  THEN [m EXCEPT !.fenceTotal = @ + 1, !.noorg = @ + 1]
  ELSE [m EXCEPT !.fenceTotal = @ + 1, !.orgFence[org] = @ + 1]

\* fence: the counters move, then the response leaves.
Respond(w) ==
  /\ writer[w] # Idle /\ writer[w].step = "answer"
  /\ LET i == writer[w].at
         f == writer[w].fact
         v == writer[w].ver
     IN /\ moved' = [moved EXCEPT ![i] = Fenced(@, writer[w].org)]
        /\ answered' = [answered EXCEPT ![i][f] = IF @ < v THEN v ELSE @]
  /\ writer' = [writer EXCEPT ![w] = Idle]
  /\ UNCHANGED <<db, commits, link, inbox, session, sessions, entry, reader, announced, nudged>>

\* A background job, or a request whose client went away: no response.  A sweep
\* that dies between two statements leaves here too.
Leave(w) ==
  /\ writer[w] # Idle
  /\ writer' = [writer EXCEPT ![w] = Idle]
  /\ UNCHANGED <<db, commits, link, inbox, cache, reader, history>>

-----------------------------------------------------------------------------
(* The sweeper purges the old tombstones of a feed: four statements, each  *)
(* committed by itself.                                                    *)

\* A statement that changes what the feed answers, and tells nobody.
Silently(f) ==
  /\ commits < MaxCommits
  /\ commits' = commits + 1
  /\ db' = [db EXCEPT ![f] = commits + 1]
  /\ UNCHANGED <<link, inbox, cache, reader, history>>

At(w, step) == writer[w] # Idle /\ writer[w].step = step

Goto(w, step) == writer' = [writer EXCEPT ![w].step = step]

\* The DELETE: the head of the feed may go back, and a cursor be ahead of it.
Purge(w, i, f) ==
  /\ writer[w] = Idle /\ f \in Feeds
  /\ Silently(f)
  /\ writer' = [writer EXCEPT ![w] = Write(i, f, commits + 1, OrgOf[f], "purged")]

\* raise_watermark: a cursor below it must resync.
RaiseWatermark(w) ==
  /\ At(w, "purged") /\ Goto(w, "raised")
  /\ Silently(writer[w].fact)

\* pg_notify on the sweeper's own channel, which nudges no device: sent after
\* whatever has committed so far.
AnnouncePurge(w) ==
  /\ At(w, "raised") /\ Goto(w, "announced")
  /\ inbox' = Notified(writer[w].fact, commits, TRUE)
  /\ announced' = [announced EXCEPT ![writer[w].fact] = db[writer[w].fact]]
  /\ UNCHANGED <<db, commits, link, cache, reader, answered, nudged>>

-----------------------------------------------------------------------------
(* The listener.                                                           *)

\* Faulty: the entry is removed, but no counter moves.
BumpedNot(m, f) == IF f \in Facts THEN m ELSE AtRest

\* on_branch_changed, on_catalog, on_authz.
Bumped(m, f) ==
  IF f \in Authz THEN [m EXCEPT !.authz = @ + 1] ELSE [m EXCEPT !.gen[f] = @ + 1]

\* handle: the oldest notification; the answers go before devices are nudged.
Handle(i) ==
  /\ session[i] # 0
  /\ \E n \in inbox[i] :
       /\ \A m \in inbox[i] : n.ver <= m.ver
       /\ inbox' = [inbox EXCEPT ![i] = @ \ {n}]
       /\ moved' = [moved EXCEPT ![i] = Bumped(@, n.fact)]
       /\ entry' = [entry EXCEPT ![i] = [f \in Facts |->
            IF f = n.fact \/ (n.fact \in Authz /\ f \in Authz) THEN NoEntry ELSE entry[i][f]]]
       /\ nudged' = IF n.purge THEN nudged ELSE [nudged EXCEPT ![i][n.fact] = n.ver]
  /\ UNCHANGED <<db, commits, link, session, sessions, reader, writer, announced, answered>>

\* The instance that sweeps drops its own answer at once.
DropHere(w) ==
  /\ At(w, "announced")
  /\ LET i == writer[w].at
         f == writer[w].fact IN
     /\ moved' = [moved EXCEPT ![i] = Bumped(@, f)]
     /\ entry' = [entry EXCEPT ![i][f] = NoEntry]
  /\ writer' = [writer EXCEPT ![w] = Idle]
  /\ UNCHANGED <<db, commits, link, inbox, session, sessions, reader, history>>

\* listen_all: from here every commit notifies this instance.
Listen(i) ==
  /\ link[i] = "down"
  /\ link' = [link EXCEPT ![i] = "up"]
  /\ UNCHANGED <<db, commits, inbox, cache, reader, writer, history>>

\* Faulty: the session is numbered ahead of the sessions counted.
SessionStartedAhead(i) ==
  /\ link[i] # "down" /\ session[i] = 0
  /\ sessions[i] < MaxSessions
  /\ sessions' = [sessions EXCEPT ![i] = @ + 1]
  /\ session' = [session EXCEPT ![i] = sessions[i] + 2]
  /\ moved' = [moved EXCEPT ![i] = AtRest]
  /\ entry' = [entry EXCEPT ![i] = [f \in Facts |-> NoEntry]]
  /\ UNCHANGED <<db, commits, link, inbox, reader, writer, history>>

\* session_started: everything cached before is dropped.
SessionStarted(i) ==
  /\ link[i] # "down" /\ session[i] = 0
  /\ sessions[i] < MaxSessions
  /\ sessions' = [sessions EXCEPT ![i] = @ + 1]
  /\ session' = [session EXCEPT ![i] = sessions[i] + 1]
  /\ moved' = [moved EXCEPT ![i] = AtRest]
  /\ entry' = [entry EXCEPT ![i] = [f \in Facts |-> NoEntry]]
  /\ UNCHANGED <<db, commits, link, inbox, reader, writer, history>>

\* The connection breaks: what was not delivered yet may be lost.
Break(i) ==
  /\ link[i] = "up"
  /\ \E last \in Commits :
       inbox' = [inbox EXCEPT ![i] = {n \in @ : n.ver <= last}]
  /\ link' = [link EXCEPT ![i] = "broken"]
  /\ UNCHANGED <<db, commits, cache, reader, writer, history>>

\* try_recv reports the loss: session_lost.
SessionLost(i) ==
  /\ link[i] = "broken"
  /\ link' = [link EXCEPT ![i] = "down"]
  /\ inbox' = [inbox EXCEPT ![i] = {}]
  /\ session' = [session EXCEPT ![i] = 0]
  /\ moved' = [moved EXCEPT ![i] = AtRest]
  /\ entry' = [entry EXCEPT ![i] = [f \in Facts |-> NoEntry]]
  /\ UNCHANGED <<db, commits, sessions, reader, writer, history>>

-----------------------------------------------------------------------------
Init ==
  /\ db = [f \in Facts |-> 0] /\ commits = 0
  /\ link = [i \in Instances |-> "down"]
  /\ inbox = [i \in Instances |-> {}]
  /\ session = [i \in Instances |-> 0] /\ sessions = [i \in Instances |-> 0]
  /\ moved = [i \in Instances |-> AtRest]
  /\ entry = [i \in Instances |-> [f \in Facts |-> NoEntry]]
  /\ reader = [r \in Readers |-> Idle]
  /\ writer = [w \in Writers |-> Idle]
  /\ announced = [f \in Facts |-> 0]
  /\ answered = [i \in Instances |-> [f \in Facts |-> 0]]
  /\ nudged = [i \in Instances |-> [f \in Facts |-> 0]]

Reading(r) == \/ \E i \in Instances, f \in Facts : StartRead(r, i, f)
              \/ ReadDatabase(r) \/ Put(r) \/ Skip(r)

Writing(w) == \/ \E i \in Instances, f \in Facts, org \in Orgs \cup {NoOrg} : Commit(w, i, f, org)
              \/ Respond(w) \/ Leave(w)

Sweeping(w) == \/ \E i \in Instances, f \in Feeds : Purge(w, i, f)
               \/ RaiseWatermark(w) \/ AnnouncePurge(w) \/ DropHere(w)

Listening(i) == \/ Handle(i) \/ Listen(i) \/ SessionStarted(i) \/ Break(i) \/ SessionLost(i)

Next == \/ \E r \in Readers : Reading(r)
        \/ \E w \in Writers : Writing(w) \/ Sweeping(w)
        \/ \E i \in Instances : Listening(i)
        \/ \E i \in Instances, f \in Facts : Expire(i, f)

Spec == Init /\ [][Next]_vars

\* The listener task runs, a read ends, an entry's age limit passes.
Fairness ==
  /\ \A i \in Instances : WF_vars(Handle(i))
  /\ \A r \in Readers : WF_vars(ReadDatabase(r)) /\ WF_vars(Put(r) \/ Skip(r))
  /\ \A i \in Instances, f \in Facts : WF_vars(Expire(i, f))

FairSpec == Spec /\ Fairness

-----------------------------------------------------------------------------
(* Properties.                                                             *)

Counters == [session : 0 .. MaxSessions, noorg : Nat, authz : Nat, fence : Nat, gen : Nat]

\* Every variable keeps its type (State, Capture, Entry).
TypeOK ==
  /\ db \in [Facts -> Commits] /\ commits \in Commits
  /\ link \in [Instances -> {"down", "up", "broken"}]
  /\ inbox \in [Instances -> SUBSET [fact : Facts, ver : Commits, purge : BOOLEAN]]
  /\ session \in [Instances -> 0 .. MaxSessions] /\ sessions \in [Instances -> 0 .. MaxSessions]
  /\ moved \in [Instances -> [noorg : Nat, authz : Nat, fenceTotal : Nat,
                              orgFence : [Orgs -> Nat], gen : [Facts -> Nat]]]
  /\ entry \in [Instances -> [Facts -> [val : Commits, seal : Counters] \cup {NoEntry}]]
  /\ reader \in [Readers -> {Idle} \cup [at : Instances, fact : Facts, cap : Counters,
                                         val : Commits, read : BOOLEAN]]
  /\ writer \in [Writers -> {Idle} \cup [at : Instances, fact : Facts, ver : Commits,
                                         org : Orgs \cup {NoOrg},
                                         step : {"answer", "purged", "raised", "announced"}]]
  /\ announced \in [Facts -> Commits]
  /\ answered \in [Instances -> [Facts -> Commits]]
  /\ nudged \in [Instances -> [Facts -> Commits]]

\* A notification of f is under way to i, or was lost with the connection.
Undelivered(i, f) ==
  link[i] = "broken" \/ \E n \in inbox[i] : n.fact = f

\* fastpath/mod.rs, the fill rule: an entry is only ever served while no event
\* has arrived since the data it holds was read; so a served answer older than a
\* change that was announced has the notification still under way.  What commits
\* is announced with the commit; a purge only two statements later, or never when
\* the sweep dies, and until then the answer of before it may be served.
StaleOnlyInFlight ==
  \A i \in Instances, f \in Facts :
    Valid(i, f) /\ entry[i][f].val < announced[f] => Undelivered(i, f)

\* The writer's next read on the instance that answered it never races the
\* notification of its own write (fence), even when the listener is broken.
OwnWritesServed ==
  \A i \in Instances, f \in Facts : Valid(i, f) => entry[i][f].val >= answered[i][f]

\* A pull that a nudge causes never meets the old answer (listener::handle),
\* on the instance that sent the nudge.
NudgedReadIsFresh ==
  \A i \in Instances, f \in Facts : Valid(i, f) => entry[i][f].val >= nudged[i][f]

\* Once nothing is written any more, every answer served is the current one,
\* also on an instance that never notices its listener is broken: the age
\* limit is the backstop.
FreshInTheEnd ==
  <>[](\A i \in Instances, f \in Facts : Valid(i, f) => entry[i][f].val = db[f])
=============================================================================
