------------------------------ MODULE SyncFeed ------------------------------
(***************************************************************************)
(* The per-branch changefeed and the devices that pull it.                 *)
(*                                                                         *)
(* A database session writes entities of the branch inside a transaction;  *)
(* the triggers call sync_emit, which takes the branch's advisory key      *)
(* SHARED until the transaction ends and gives the entity's feed row the   *)
(* next value of one sequence.  The feed is compacted: one row per entity. *)
(* A device pulls the feed in several statements (check, horizon, rows,    *)
(* projection), each of which sees what is committed when it runs, and the *)
(* answer reaches the device, or is lost, later still.                     *)
(*                                                                         *)
(* One branch is modelled: the advisory key, the rows and the watermark    *)
(* are all per branch.  Sequence values are global, so gaps are normal.    *)
(***************************************************************************)
EXTENDS Integers, FiniteSets

CONSTANTS
  Entities,    \* the entities of the branch that have a feed row
  TimeBased,   \* those that leave their live set by the clock alone
  Ageable,     \* bound: those whose tombstone may grow past 30 days
  Sessions,    \* database sessions that can hold a transaction
  Devices,     \* tills and kitchen screens, each with one pull at a time
  Limit,       \* rows per incremental page
  MaxSeq       \* bound: the last sequence value handed out

ASSUME SetsAssumption ==
  /\ IsFiniteSet(Entities)
  /\ TimeBased \subseteq Entities
  /\ Ageable \subseteq Entities

ASSUME NumbersAssumption ==
  /\ Limit \in Nat \ {0}
  /\ MaxSeq \in Nat

VARIABLES
  \* the database, committed
  feed,        \* sync_changes: the row of each entity
  source,      \* each entity's own row: version and live-set membership
  purged,      \* sync_feed_watermarks.purged_through_seq
  aged,        \* entities whose tombstone is older than 30 days
  \* the database, in flight
  nextSeq,     \* sync_changes_seq: the next value nextval returns
  pending,     \* the feed rows each open transaction has written
  sweep,       \* the emits a sweep statement found due in its snapshot
  unraised,    \* sweeper: highest seq purged whose watermark is not raised
  \* one pull per device, inside the server or on the way back
  pc,          \* where the pull stands
  horizon,     \* sync_safe_horizon's answer
  page,        \* the feed rows the pull read
  more,        \* has_more
  next,        \* the cursor the answer hands out
  answer,      \* projected version per entity of the page; 0 is a delete
  checksum,    \* the set of <<entity, seq>> the answer's checksums count
  \* the device
  mode,        \* "full" until a snapshot is held, then "pull"
  cursor,      \* its `since`
  heldSeq,     \* the feed seq it stored with each entity; 0 is not held
  heldVer      \* the version of each entity it holds; 0 is not held

database == <<feed, source, purged, aged, nextSeq, pending, sweep, unraised>>
pull     == <<pc, horizon, page, more, next, answer, checksum>>
device   == <<mode, cursor, heldSeq, heldVer>>
vars     == <<database, pull, device>>

Seqs     == 0 .. MaxSeq
Ops      == {"none", "upsert", "delete"}
Rows     == [seq : Seqs, op : Ops]
NoRow    == [seq |-> 0, op |-> "none"]
NoRows   == [e \in Entities |-> NoRow]
NoOps    == [e \in Entities |-> "none"]
Nothing  == [e \in Entities |-> 0]
Steps    == {"idle", "horizon", "rows", "project", "snapshot",
             "resync", "page", "full"}

-----------------------------------------------------------------------------
(* Writers: sync_emit inside a transaction.                                *)

Touches(s, e) == pending[s][e].op # "none"

\* The session holds the branch's advisory key SHARED (until its end).
HoldsKey(s) == \E e \in Entities : Touches(s, e)

KeyIsFree == \A s \in Sessions : ~HoldsKey(s)

\* Faulty: the value is drawn before the row is locked.
CanLockLate(s, e) == s \in Sessions /\ e \in Entities

\* The row lock of the entity is the session's, or nobody's.
CanLock(s, e) == \A t \in Sessions \ {s} : ~Touches(t, e)

\* sync_emit: under the key, the row is stamped with the next value.
EmitRow(s, e, op) ==
  /\ nextSeq <= MaxSeq
  /\ CanLock(s, e)
  /\ pending' = [pending EXCEPT ![s][e] = [seq |-> nextSeq, op |-> op]]
  /\ nextSeq' = nextSeq + 1
  /\ UNCHANGED <<feed, source, purged, aged, sweep, unraised, pull, device>>

\* The session's transaction is a sweep statement.
Sweeps(s) == \E e \in Entities : sweep[s][e] # "none"

\* A write of a source row fires its trigger.  A live row is an upsert, a row
\* outside its live set a delete (only an entity that existed can leave it).
Write(s, e) ==
  /\ ~Sweeps(s)
  /\ \/ EmitRow(s, e, "upsert")
     \/ /\ source[e].ver > 0 \/ Touches(s, e)
        /\ EmitRow(s, e, "delete")

\* A sweep statement (one instance sweeps at a time) starts with a snapshot of
\* the emits that are due: deletes for upsert rows whose entity left its live
\* set by the clock, or upserts for live entities with no row at all.
SweepScan(s) ==
  /\ ~HoldsKey(s)
  /\ \A t \in Sessions : ~Sweeps(t)
  /\ \/ sweep' = [sweep EXCEPT ![s] = [e \in Entities |->
           IF e \in TimeBased /\ feed[e].op = "upsert" /\ ~source[e].live
           THEN "delete" ELSE "none"]]
     \/ sweep' = [sweep EXCEPT ![s] = [e \in Entities |->
           IF feed[e].op = "none" /\ source[e].live THEN "upsert" ELSE "none"]]
  /\ UNCHANGED <<feed, source, purged, aged, nextSeq, pending, unraised, pull, device>>

\* It then emits them one by one, without a second look at the entity.
SweepEmit(s, e) ==
  /\ sweep[s][e] # "none"
  /\ ~Touches(s, e)
  /\ EmitRow(s, e, sweep[s][e])

\* A sweep writes no entity: it only stamps the row anew.
Commit(s) ==
  /\ HoldsKey(s)
  /\ \A e \in Entities : sweep[s][e] # "none" => Touches(s, e)
  /\ feed' = [e \in Entities |-> IF Touches(s, e) THEN pending[s][e] ELSE feed[e]]
  /\ source' = [e \in Entities |->
                  IF Touches(s, e)
                  THEN [ver  |-> pending[s][e].seq,
                        live |-> IF Sweeps(s) THEN source[e].live
                                 ELSE pending[s][e].op = "upsert"]
                  ELSE source[e]]
  /\ aged' = {e \in aged : ~Touches(s, e)}
  /\ pending' = [pending EXCEPT ![s] = NoRows]
  /\ sweep' = [sweep EXCEPT ![s] = NoOps]
  /\ UNCHANGED <<purged, nextSeq, unraised, pull, device>>

\* The sequence values a rolled-back transaction took are gone for good.
Rollback(s) ==
  /\ HoldsKey(s) \/ Sweeps(s)
  /\ pending' = [pending EXCEPT ![s] = NoRows]
  /\ sweep' = [sweep EXCEPT ![s] = NoOps]
  /\ UNCHANGED <<feed, source, purged, aged, nextSeq, unraised, pull, device>>

-----------------------------------------------------------------------------
(* The clock and the sweeper's tombstone purge.                            *)

\* A time-based live predicate turns false: no row is written, none emitted.
AgeOut(e) ==
  /\ e \in TimeBased
  /\ source[e].live
  /\ source' = [source EXCEPT ![e].live = FALSE]
  /\ UNCHANGED <<feed, purged, aged, nextSeq, pending, sweep, unraised, pull, device>>

\* Faulty: the purge forgets to ask for tombstones.
AgeAnyRow(e) ==
  /\ e \in Ageable \ aged
  /\ feed[e].op # "none"
  /\ aged' = aged \cup {e}
  /\ UNCHANGED <<feed, source, purged, nextSeq, pending, sweep, unraised, pull, device>>

\* Thirty days pass for a tombstone.
AgeTombstone(e) ==
  /\ e \in Ageable \ aged
  /\ feed[e].op = "delete"
  /\ aged' = aged \cup {e}
  /\ UNCHANGED <<feed, source, purged, nextSeq, pending, sweep, unraised, pull, device>>

Unlocked(e) == \A s \in Sessions : ~Touches(s, e)

\* DELETE of the aged tombstones, one autocommit statement.  It skips rows an
\* open transaction has locked: once that commits they are no longer aged.
PurgeTombstones ==
  /\ unraised = 0
  /\ LET dead == {e \in aged : Unlocked(e)}
     IN /\ \E last \in dead :
             /\ \A e \in dead : feed[e].seq <= feed[last].seq
             /\ unraised' = feed[last].seq
        /\ feed' = [e \in Entities |-> IF e \in dead THEN NoRow ELSE feed[e]]
        /\ aged' = aged \ dead
  /\ UNCHANGED <<source, purged, nextSeq, pending, sweep, pull, device>>

\* raise_watermark: the statement after it.
RaiseWatermark ==
  /\ unraised > 0
  /\ purged' = IF purged < unraised THEN unraised ELSE purged
  /\ unraised' = 0
  /\ UNCHANGED <<feed, source, aged, nextSeq, pending, sweep, pull, device>>

\* The sweep fails (or the process dies) between the two statements.
SweepFails ==
  /\ unraised > 0
  /\ unraised' = 0
  /\ UNCHANGED <<feed, source, purged, aged, nextSeq, pending, sweep, pull, device>>

-----------------------------------------------------------------------------
(* The server's side of a pull.                                            *)

FeedSeqs == {feed[e].seq : e \in Entities} \cup {0}

\* max(seq) of the branch's rows, 0 when it has none.
IsHead(h) == h \in FeedSeqs /\ \A q \in FeedSeqs : q <= h

\* Faulty: the wait for the key always times out.
HorizonNeverWaits(since, h) == h = since

\* sync_safe_horizon(branch, since): the head once the exclusive key is got,
\* never below `since`; `since` itself when a writer holds the key too long.
SafeHorizon(since, h) ==
  \/ KeyIsFree /\ \E top \in FeedSeqs : IsHead(top) /\ h = IF top < since THEN since ELSE top
  \/ ~KeyIsFree /\ h = since

\* The cursor predates a purge, or is ahead of the head.
MustResync(d) == cursor[d] < purged \/ \A q \in FeedSeqs : q < cursor[d]

\* incremental: the resync check, one statement over watermark and head.
PullCheck(d) ==
  /\ pc[d] = "idle" /\ mode[d] = "pull"
  /\ pc' = [pc EXCEPT ![d] =
              IF MustResync(d) THEN "resync" ELSE "horizon"]
  /\ UNCHANGED <<horizon, page, more, next, answer, checksum, database, device>>

PullHorizon(d) ==
  /\ pc[d] = "horizon"
  /\ \E h \in FeedSeqs \cup {cursor[d]} :
       SafeHorizon(cursor[d], h) /\ horizon' = [horizon EXCEPT ![d] = h]
  /\ pc' = [pc EXCEPT ![d] = "rows"]
  /\ UNCHANGED <<page, more, next, answer, checksum, database, device>>

InRange(d, e) == feed[e].op # "none" /\ feed[e].seq > cursor[d] /\ feed[e].seq <= horizon[d]

\* ORDER BY seq LIMIT: the rows with fewer than Limit in-range rows below.
FirstRows(d) ==
  {e \in Entities : /\ InRange(d, e)
                    /\ Cardinality({f \in Entities : InRange(d, f) /\ feed[f].seq < feed[e].seq}) < Limit}

\* Faulty: the cursor handed out is the horizon, also when rows are left.
PullRowsToHorizon(d) ==
  /\ pc[d] = "rows"
  /\ page' = [page EXCEPT ![d] = [e \in Entities |-> IF e \in FirstRows(d) THEN feed[e] ELSE NoRow]]
  /\ more' = [more EXCEPT ![d] = \E e \in Entities : InRange(d, e) /\ e \notin FirstRows(d)]
  /\ next' = [next EXCEPT ![d] = horizon[d]]
  /\ pc' = [pc EXCEPT ![d] = "project"]
  /\ UNCHANGED <<horizon, answer, checksum, database, device>>

\* Faulty: the cursor handed out is one past the last seq.
PullRowsPast(d) ==
  /\ pc[d] = "rows"
  /\ page' = [page EXCEPT ![d] = [e \in Entities |-> IF e \in FirstRows(d) THEN feed[e] ELSE NoRow]]
  /\ more' = [more EXCEPT ![d] = FALSE]
  /\ next' = [next EXCEPT ![d] = horizon[d] + 1]
  /\ pc' = [pc EXCEPT ![d] = "project"]
  /\ UNCHANGED <<horizon, answer, checksum, database, device>>

PullRows(d) ==
  /\ pc[d] = "rows"
  /\ LET taken == FirstRows(d)
         left  == \E e \in Entities : InRange(d, e) /\ e \notin taken
     IN /\ page' = [page EXCEPT ![d] = [e \in Entities |-> IF e \in taken THEN feed[e] ELSE NoRow]]
        /\ more' = [more EXCEPT ![d] = left]
        /\ \/ /\ left
              /\ \E last \in taken : /\ \A e \in taken : feed[e].seq <= feed[last].seq
                                     /\ next' = [next EXCEPT ![d] = feed[last].seq]
           \/ /\ ~left
              /\ next' = [next EXCEPT ![d] = horizon[d]]
  /\ pc' = [pc EXCEPT ![d] = "project"]
  /\ UNCHANGED <<horizon, answer, checksum, database, device>>

\* projection::project: what the entity is now, nothing when it is not live.
Projected(e) == IF source[e].live THEN source[e].ver ELSE 0

\* Faulty: the checksums count past the horizon.
CountedAll(d) ==
  {<<e, feed[e].seq>> : e \in {f \in Entities :
      d \in Devices /\ feed[f].op = "upsert" /\ source[f].live}}

\* state_checksums: the upsert rows up to the horizon that project now.
Counted(d) ==
  {<<e, feed[e].seq>> : e \in {f \in Entities :
      feed[f].op = "upsert" /\ feed[f].seq <= horizon[d] /\ source[f].live}}

\* The REPEATABLE READ transaction: projections and checksums, one snapshot.
PullProject(d) ==
  /\ pc[d] = "project"
  /\ answer' = [answer EXCEPT ![d] =
       [e \in Entities |-> IF page[d][e].op = "upsert" THEN Projected(e) ELSE 0]]
  /\ checksum' = [checksum EXCEPT ![d] = IF more[d] THEN {} ELSE Counted(d)]
  /\ pc' = [pc EXCEPT ![d] = "page"]
  /\ UNCHANGED <<horizon, page, more, next, database, device>>

\* full: the horizon first, in a statement of its own, from 0 ...
FullHorizon(d) ==
  /\ pc[d] = "idle" /\ mode[d] = "full"
  /\ \E h \in FeedSeqs : SafeHorizon(0, h) /\ horizon' = [horizon EXCEPT ![d] = h]
  /\ pc' = [pc EXCEPT ![d] = "snapshot"]
  /\ UNCHANGED <<page, more, next, answer, checksum, database, device>>

\* ... then one REPEATABLE READ snapshot of the live rows up to it.
FullSnapshot(d) ==
  /\ pc[d] = "snapshot"
  /\ LET held(e) == feed[e].op = "upsert" /\ feed[e].seq <= horizon[d] /\ source[e].live
     IN /\ page' = [page EXCEPT ![d] = [e \in Entities |-> IF held(e) THEN feed[e] ELSE NoRow]]
        /\ answer' = [answer EXCEPT ![d] = [e \in Entities |-> IF held(e) THEN source[e].ver ELSE 0]]
  /\ checksum' = [checksum EXCEPT ![d] = Counted(d)]
  /\ more' = [more EXCEPT ![d] = FALSE]
  /\ next' = [next EXCEPT ![d] = horizon[d]]
  /\ pc' = [pc EXCEPT ![d] = "full"]
  /\ UNCHANGED <<horizon, database, device>>

-----------------------------------------------------------------------------
(* The device's side of a pull (the POS core is the consumer).             *)

\* The exchange is over: its working state is forgotten.
EndPull(d) ==
  /\ pc' = [pc EXCEPT ![d] = "idle"]
  /\ horizon' = [horizon EXCEPT ![d] = 0]
  /\ page' = [page EXCEPT ![d] = NoRows]
  /\ more' = [more EXCEPT ![d] = FALSE]
  /\ next' = [next EXCEPT ![d] = 0]
  /\ answer' = [answer EXCEPT ![d] = Nothing]
  /\ checksum' = [checksum EXCEPT ![d] = {}]

ApplyResync(d) ==
  /\ pc[d] = "resync"
  /\ mode' = [mode EXCEPT ![d] = "full"]
  /\ EndPull(d)
  /\ UNCHANGED <<cursor, heldSeq, heldVer, database>>

\* Each change of the page replaces or removes its entity.
ApplyPage(d) ==
  /\ pc[d] = "page"
  /\ heldVer' = [heldVer EXCEPT ![d] = [e \in Entities |->
        IF page[d][e].op = "none" THEN heldVer[d][e] ELSE answer[d][e]]]
  /\ heldSeq' = [heldSeq EXCEPT ![d] = [e \in Entities |->
        IF page[d][e].op = "none" THEN heldSeq[d][e]
        ELSE IF answer[d][e] = 0 THEN 0 ELSE page[d][e].seq]]
  /\ cursor' = [cursor EXCEPT ![d] = next[d]]
  /\ EndPull(d)
  /\ UNCHANGED <<mode, database>>

\* A snapshot replaces everything the device held.
ApplyFull(d) ==
  /\ pc[d] = "full"
  /\ heldVer' = [heldVer EXCEPT ![d] = answer[d]]
  /\ heldSeq' = [heldSeq EXCEPT ![d] = [e \in Entities |-> page[d][e].seq]]
  /\ cursor' = [cursor EXCEPT ![d] = next[d]]
  /\ mode' = [mode EXCEPT ![d] = "pull"]
  /\ EndPull(d)
  /\ UNCHANGED database

\* The answer is lost, or the app dies before applying it.
Lose(d) ==
  /\ pc[d] \in {"resync", "page", "full"}
  /\ EndPull(d)
  /\ UNCHANGED <<database, device>>

-----------------------------------------------------------------------------
Init ==
  /\ feed = NoRows
  /\ source = [e \in Entities |-> [ver |-> 0, live |-> FALSE]]
  /\ purged = 0 /\ aged = {} /\ nextSeq = 1 /\ unraised = 0
  /\ pending = [s \in Sessions |-> NoRows]
  /\ sweep = [s \in Sessions |-> NoOps]
  /\ pc = [d \in Devices |-> "idle"]
  /\ horizon = [d \in Devices |-> 0]
  /\ page = [d \in Devices |-> NoRows]
  /\ more = [d \in Devices |-> FALSE]
  /\ next = [d \in Devices |-> 0]
  /\ answer = [d \in Devices |-> Nothing]
  /\ checksum = [d \in Devices |-> {}]
  /\ mode = [d \in Devices |-> "full"]
  /\ cursor = [d \in Devices |-> 0]
  /\ heldSeq = [d \in Devices |-> Nothing]
  /\ heldVer = [d \in Devices |-> Nothing]

Writer(s) == \/ \E e \in Entities : Write(s, e) \/ SweepEmit(s, e)
             \/ SweepScan(s) \/ Commit(s) \/ Rollback(s)

Housekeeping == \/ \E e \in Entities : AgeOut(e) \/ AgeTombstone(e)
                \/ PurgeTombstones \/ RaiseWatermark \/ SweepFails

Serve(d) == \/ PullCheck(d) \/ PullHorizon(d) \/ PullRows(d) \/ PullProject(d)
            \/ FullHorizon(d) \/ FullSnapshot(d)

Apply(d) == ApplyResync(d) \/ ApplyPage(d) \/ ApplyFull(d)

Next == \/ \E s \in Sessions : Writer(s)
        \/ Housekeeping
        \/ \E d \in Devices : Serve(d) \/ Apply(d) \/ Lose(d)

Spec == Init /\ [][Next]_vars

\* A transaction ends (statement_timeout, idle_in_transaction_session_timeout);
\* the sweep's next statement runs; a device polls on and is answered; the
\* network does not lose every answer for ever.
Fairness ==
  /\ \A s \in Sessions : WF_vars(Commit(s) \/ Rollback(s))
  /\ WF_vars(RaiseWatermark \/ SweepFails)
  /\ \A d \in Devices : WF_vars(Serve(d)) /\ SF_vars(Apply(d))

FairSpec == Spec /\ Fairness

-----------------------------------------------------------------------------
(* Properties.                                                             *)

\* Every variable keeps its type (sync_changes.op and seq, PullResponse).
TypeOK ==
  /\ feed \in [Entities -> Rows]
  /\ source \in [Entities -> [ver : Seqs, live : BOOLEAN]]
  /\ purged \in Seqs /\ aged \subseteq Entities
  /\ nextSeq \in 1 .. MaxSeq + 1
  /\ pending \in [Sessions -> [Entities -> Rows]]
  /\ sweep \in [Sessions -> [Entities -> Ops]]
  /\ unraised \in Seqs
  /\ pc \in [Devices -> Steps]
  /\ horizon \in [Devices -> Seqs]
  /\ page \in [Devices -> [Entities -> Rows]]
  /\ more \in [Devices -> BOOLEAN]
  /\ next \in [Devices -> Seqs]
  /\ answer \in [Devices -> [Entities -> Seqs]]
  /\ checksum \in [Devices -> SUBSET (Entities \X Seqs)]
  /\ mode \in [Devices -> {"full", "pull"}]
  /\ cursor \in [Devices -> Seqs]
  /\ heldSeq \in [Devices -> [Entities -> Seqs]]
  /\ heldVer \in [Devices -> [Entities -> Seqs]]

\* A version that brings entity e up to its committed feed row.
UpToRow(e, v) ==
  CASE feed[e].op = "upsert" -> v >= feed[e].seq \/ (v = 0 /\ ~source[e].live)
    [] feed[e].op = "delete" -> v = 0
    [] OTHER                 -> TRUE

\* A device has applied every change at or below its cursor: an incremental
\* page never steps over a change, however transactions, pages and lost
\* answers interleave (pull/mod.rs: the horizon "never skips a seq held by an
\* in-flight emitter").
NoSkippedChange ==
  \A d \in Devices : \A e \in Entities :
    feed[e].seq <= cursor[d] => UpToRow(e, heldVer[d][e])

\* A change still in flight lies above everything a device was, or is about
\* to be, told it has seen (sync_safe_horizon).
InFlightAboveCursors ==
  \A s \in Sessions : \A e \in Entities : Touches(s, e) =>
    \A d \in Devices : /\ pending[s][e].seq > cursor[d]
                       /\ pending[s][e].seq > horizon[d]
                       /\ pending[s][e].seq > next[d]

\* A device never replaces an entity by an older version of it: the answers
\* it applies are never from before one it has applied already.
NeverOlder ==
  [][\A d \in Devices : \A e \in Entities :
       heldVer'[d][e] # 0 => heldVer'[d][e] >= heldVer[d][e]]_vars

\* What the checksums of an answer are compared with: the entities device d
\* holds, each at the sequence value it was brought with.
Digest(d) == {<<e, heldSeq[d][e]>> : e \in {f \in Entities : heldVer[d][f] # 0}}

\* A checksum may leave entity e out of what a device holds: its row has moved
\* past the cursor handed out, or was purged, or the clock took the entity out
\* of its live set and no sweep has told the feed yet.
MayBeUncounted(d, e) ==
  \/ feed[e].seq > next[d]
  \/ feed[e].op = "none"
  \/ e \in TimeBased /\ ~source[e].live

\* The last answer of a pull carries checksums counted in a later snapshot
\* than its rows, up to the horizon of an earlier one (state_checksums).  A
\* device that applies it holds all they count, at the sequence value counted,
\* and they leave out of its set only what the next pulls tell it about.
MismatchIsExplained ==
  [][\A d \in Devices : (ApplyPage(d) \/ ApplyFull(d)) /\ ~more[d] =>
       /\ checksum[d] \subseteq Digest(d)'
       /\ \A e \in Entities :
            heldVer'[d][e] # 0 /\ <<e, heldSeq'[d][e]>> \notin checksum[d]
              => MayBeUncounted(d, e)]_vars

\* Once the writers pause, every device ends up at the head of the feed and
\* stays there, whatever answers were lost, unless tombstones are purged (what
\* a purge does to the head is told in the README).
Converges ==
  \/ <>(purged # 0 \/ unraised # 0)
  \/ \A d \in Devices :
       <>[](mode[d] = "pull" /\ \A e \in Entities : feed[e].seq <= cursor[d])

\* What devices are promised, without the mechanism (see FeedContract).
Contract ==
  INSTANCE FeedContract
    WITH published <- feed, entity <- source, seen <- cursor, held <- heldVer

\* The pull implements the contract.
MeetsContract == Contract!Spec

\* sweeper.rs: "a device whose cursor predates the purge is told to resync".
\* No device keeps an entity whose tombstone has been purged unless its next
\* pull sends it for a snapshot.
NoGhost ==
  \A d \in Devices : \A e \in Entities :
    (/\ mode[d] = "pull" /\ heldVer[d][e] # 0
     /\ feed[e].op = "none" /\ ~source[e].live /\ unraised = 0) => MustResync(d)
=============================================================================
