------------------------------- MODULE Replay -------------------------------
(***************************************************************************)
(* POST /sync/replay and /sync/replay/batch: the tills' queued operations, *)
(* sent again until the server answers for them.                           *)
(*                                                                         *)
(* A till gives up waiting, or its server dies, at any moment; a request   *)
(* it gave up on goes on.  A LAN peer may hold a copy of an operation and  *)
(* send it too.  Each operation carries its idempotency key: it is judged, *)
(* looked up, applied in a transaction that the key's index guards, and    *)
(* only then are its flags recorded, in a statement of their own.          *)
(***************************************************************************)
EXTENDS Integers, Sequences, SequencesExt, FiniteSets

CONSTANTS
  Tills,
  Old,                 \* tills of before 0.15.0, which ack every 409
  Ops, Queue,          \* operations, and each till's, oldest first
  Unlisted,            \* those refused with a 409 that REFUSALS does not list
  Money,               \* the operations that record money already taken
  Needs, Bars,         \* what must be applied before each, and what must not
  Calls,               \* requests in progress at once
  MaxBatch,            \* operations a batch carries
  RetryAttempts,       \* attempts at one operation in one request
  MaxFaults,           \* bound on faults: time outs, deaths, transient failures
  NoOne                \* no till, no call

ASSUME ReplayAssumption ==
  /\ Old \subseteq Tills /\ Money \subseteq Ops /\ Unlisted \subseteq Ops
  /\ Queue \in [Tills -> Seq(Ops)]
  /\ \A d \in Tills : \A i, j \in DOMAIN Queue[d] : Queue[d][i] = Queue[d][j] => i = j
  /\ Needs \in [Ops -> SUBSET Ops] /\ Bars \in [Ops -> SUBSET Ops]
  /\ MaxBatch \in Nat \ {0} /\ RetryAttempts \in Nat \ {0} /\ MaxFaults \in Nat
  /\ NoOne \notin Tills \cup Calls

VARIABLES
  granted,             \* whether the operations' author holds the permission
  applied,             \* how often each operation has been applied
  flagged,             \* the operations with a flag for the owner
  outbox, stuck,       \* each till's queue, and its list of the refused
  waiting,             \* the call each till waits for
  call,                \* each request in progress
  faults

server == <<applied, flagged>>
till   == <<outbox, stuck, waiting>>
vars   == <<granted, server, till, call, faults>>

Call(d, ops, n, pc, flag, tries, out) ==
  [till |-> d, ops |-> ops, n |-> n, pc |-> pc, flag |-> flag, tries |-> tries, out |-> out]

Free == Call(NoOne, <<>>, 0, "free", FALSE, 0, "ok")

-----------------------------------------------------------------------------
(* The till.                                                               *)

\* Faulty: the newest operation first.
NewestFirst(d) == <<Last(outbox[d])>>

\* An old till sends its operations one by one.
BatchOf(d) ==
  LET most == IF d \in Old THEN 1 ELSE MaxBatch IN
  SubSeq(outbox[d], 1, IF Len(outbox[d]) < most THEN Len(outbox[d]) ELSE most)

Send(d) ==
  \E c \in Calls :
    /\ waiting[d] = NoOne /\ outbox[d] # <<>> /\ call[c] = Free
    /\ call' = [call EXCEPT ![c] = Call(d, BatchOf(d), 0, "judge", FALSE, 1, "ok")]
    /\ waiting' = [waiting EXCEPT ![d] = c]
    /\ UNCHANGED <<granted, server, outbox, stuck, faults>>

TimeOut(d) ==
  /\ waiting[d] # NoOne /\ faults < MaxFaults
  /\ waiting' = [waiting EXCEPT ![d] = NoOne]
  /\ faults' = faults + 1
  /\ UNCHANGED <<granted, server, outbox, stuck, call>>

-----------------------------------------------------------------------------
(* The server, one operation of a call after the other.                    *)

Op(c) == call[c].ops[call[c].n + 1]

At(c, pc) == call[c].pc = pc

Goto(c, pc) == call' = [call EXCEPT ![c].pc = pc]

\* The call once its operation has the answer out: it stops at the first that
\* is not a success.
AfterOp(c, out) ==
  LET k == call[c] IN
  IF out # "ok" THEN [k EXCEPT !.pc = "answer", !.out = out]
  ELSE IF k.n + 1 = Len(k.ops) THEN [k EXCEPT !.n = @ + 1, !.pc = "answer"]
  ELSE [k EXCEPT !.n = @ + 1, !.pc = "judge", !.flag = FALSE, !.tries = 1]

Finish(c, out) == call' = [call EXCEPT ![c] = AfterOp(c, out)]

\* Without the permission money is accepted, to be flagged, and all else refused.
Judge(c) ==
  /\ At(c, "judge")
  /\ IF granted \/ Op(c) \in Money
     THEN call' = [call EXCEPT ![c].pc = "look", ![c].flag = ~granted]
     ELSE Finish(c, "forbidden")
  /\ UNCHANGED <<granted, server, till, faults>>

OnRecord(o) == applied[o] > 0

\* An operation on record is answered as it was the first time.
Look(c) ==
  /\ At(c, "look")
  /\ Goto(c, IF OnRecord(Op(c)) THEN "flag" ELSE "commit")
  /\ UNCHANGED <<granted, server, till, faults>>

Applicable(o) ==
  /\ \A p \in Needs[o] : OnRecord(p)
  /\ \A p \in Bars[o] : ~OnRecord(p)

\* Faulty: no index on the key.
KeyIsAbsent(o) == TRUE

\* The unique index on the operation's key.
KeyIsFree(o) == ~OnRecord(o)

\* A copy that lost the race on the key: a sale is answered with the stored
\* one, another operation with a 409 that says it is applied.
Commit(c) ==
  /\ At(c, "commit")
  /\ LET o == Op(c) IN
     IF ~KeyIsFree(o)
     THEN /\ IF o \in Money THEN Goto(c, "flag") ELSE Finish(c, "applied")
          /\ UNCHANGED applied
     ELSE IF Applicable(o)
     THEN Goto(c, "flag") /\ applied' = [applied EXCEPT ![o] = @ + 1]
     ELSE Finish(c, "refused") /\ UNCHANGED applied
  /\ UNCHANGED <<granted, flagged, till, faults>>

\* Faulty: attempts are not counted against the limit.
RetriesForever(c) ==
  /\ At(c, "commit") /\ faults < MaxFaults
  /\ faults' = faults + 1
  /\ call' = [call EXCEPT ![c].pc = "judge", ![c].flag = FALSE, ![c].tries = @ + 1]
  /\ UNCHANGED <<granted, server, till>>

\* A deadlock or a serialization failure rolled the operation back: it is tried
\* again from the start, and failed when that was the last attempt.
Transient(c) ==
  /\ At(c, "commit") /\ faults < MaxFaults
  /\ faults' = faults + 1
  /\ IF call[c].tries < RetryAttempts
     THEN call' = [call EXCEPT ![c].pc = "judge", ![c].flag = FALSE, ![c].tries = @ + 1]
     ELSE Finish(c, "failed")
  /\ UNCHANGED <<granted, server, till>>

\* An error here is only logged.
RecordFlags(c) ==
  /\ At(c, "flag")
  /\ \/ flagged' = IF call[c].flag THEN flagged \cup {Op(c)} ELSE flagged
     \/ call[c].flag /\ faults < MaxFaults /\ UNCHANGED flagged
  /\ Finish(c, "ok")
  /\ UNCHANGED <<granted, applied, till, faults>>

\* Every request in progress dies with the server.
Crash ==
  /\ faults < MaxFaults /\ \E c \in Calls : call[c] # Free
  /\ call' = [c \in Calls |-> Free]
  /\ waiting' = [d \in Tills |-> NoOne]
  /\ faults' = faults + 1
  /\ UNCHANGED <<granted, server, outbox, stuck>>

\* The connection a till gave up on closes, and the request with it.
Dropped(c) ==
  /\ call[c] # Free /\ waiting[call[c].till] # c
  /\ call' = [call EXCEPT ![c] = Free]
  /\ UNCHANGED <<granted, server, till, faults>>

-----------------------------------------------------------------------------
(* The answer.                                                             *)

\* An old till's operation whose refusal it takes for done: REFUSALS lists some
\* codes of POS tills' refusals, not those of the floor, nor a conflict without code.
Unread(d, o) == d \in Old /\ o \in Unlisted

\* Faulty: a refusal is answered as a failure, to be tried again.
RefusalIsFailure(d, o, out) == IF out = "applied" THEN 409 ELSE 500

\* Faulty: no refusal is listed, all are 409s whoever asks.
SameForAll(d, o, out) ==
  CASE out \in {"applied", "refused"} -> 409
    [] out = "forbidden"              -> 403
    [] OTHER                          -> 500

\* A refusal is a 409 whose code a till reads; for_old_till makes a 422 of it to
\* a till that would take any 409 for done, when its code is listed.
Status(d, o, out) ==
  CASE out = "applied"   -> 409
    [] out = "refused"   -> IF d \in Old /\ ~Unread(d, o) THEN 422 ELSE 409
    [] out = "forbidden" -> 403
    [] OTHER             -> 500

\* Whether till d takes the answer for done.
TakenForDone(d, o, out) == Status(d, o, out) = 409 /\ (d \in Old \/ out = "applied")

\* The first n operations are done, the next one done, refused or to be sent
\* again, and the rest not attempted.
Deliver(c) ==
  /\ At(c, "answer")
  /\ LET k == call[c]
         d == k.till IN
     IF waiting[d] # c THEN UNCHANGED till
     ELSE LET rest == k.n + 1 <= Len(k.ops)
              done == rest /\ TakenForDone(d, Op(c), k.out)
              dead == rest /\ ~done /\ Status(d, Op(c), k.out) < 500
              gone == IF done \/ dead THEN k.n + 1 ELSE k.n IN
          /\ outbox' = [outbox EXCEPT ![d] = SubSeq(@, gone + 1, Len(@))]
          /\ stuck' = [stuck EXCEPT ![d] = IF dead THEN @ \cup {Op(c)} ELSE @]
          /\ waiting' = [waiting EXCEPT ![d] = NoOne]
  /\ call' = [call EXCEPT ![c] = Free]
  /\ UNCHANGED <<granted, server, faults>>

\* The owner takes the permission away, or gives it back.
Regrant ==
  /\ granted' = ~granted
  /\ UNCHANGED <<server, till, call, faults>>

-----------------------------------------------------------------------------

Init ==
  /\ granted = TRUE
  /\ applied = [o \in Ops |-> 0] /\ flagged = {}
  /\ outbox = Queue /\ stuck = [d \in Tills |-> {}]
  /\ waiting = [d \in Tills |-> NoOne]
  /\ call = [c \in Calls |-> Free]
  /\ faults = 0

Serve(c) == Judge(c) \/ Look(c) \/ Commit(c) \/ RecordFlags(c) \/ Deliver(c)

Next ==
  \/ Regrant \/ Crash
  \/ \E d \in Tills : Send(d) \/ TimeOut(d)
  \/ \E c \in Calls : Serve(c) \/ Transient(c) \/ Dropped(c)

\* Tills send as long as they have something queued, and a request that runs
\* goes on; faults are bounded.
Fairness ==
  /\ \A d \in Tills : WF_vars(Send(d))
  /\ \A c \in Calls : WF_vars(Serve(c))

Spec == Init /\ [][Next]_vars /\ Fairness

-----------------------------------------------------------------------------
(* Properties.                                                             *)

OpsOf(d) == ToSet(Queue[d])

\* An old till has let go of o, and may have taken its refusal for done.
Unseen(d, o) == Unread(d, o) /\ o \notin ToSet(outbox[d])

\* The variables keep their types.
TypeOK ==
  /\ granted \in BOOLEAN
  /\ applied \in [Ops -> Nat] /\ flagged \subseteq Ops
  /\ outbox \in [Tills -> Seq(Ops)] /\ stuck \in [Tills -> SUBSET Ops]
  /\ waiting \in [Tills -> Calls \cup {NoOne}]
  /\ call \in [Calls ->
       [till : Tills \cup {NoOne}, ops : Seq(Ops), n : Nat,
        pc : {"free", "judge", "look", "commit", "flag", "answer"}, flag : BOOLEAN,
        tries : 0 .. RetryAttempts,
        out : {"ok", "forbidden", "refused", "applied", "failed"}]]
  /\ faults \in 0 .. MaxFaults

\* An operation is applied once, however often its till and its peers send it
\* and whenever a request dies.
AppliedOnce == \A o \in Ops : applied[o] <= 1

\* No work vanishes: what a till no longer has queued is on the server, or on
\* the list of refused operations the till shows; but for what an old till took
\* for done, because its refusal is a 409 that is not listed.
NothingLost ==
  \A d \in Tills : \A o \in OpsOf(d) :
    o \in ToSet(outbox[d]) \/ o \in stuck[d] \/ OnRecord(o) \/ Unseen(d, o)

\* A till's operations are applied in the order they were queued: one that is
\* on the server, and that nobody else sends, has the earlier ones there too,
\* but for those refused, and those an old till let go of unread.
InOrder ==
  \A d \in Tills : \A i, j \in DOMAIN Queue[d] :
    LET o == Queue[d][i]
        p == Queue[d][j] IN
    i < j /\ OnRecord(p) /\ (\A e \in Tills \ {d} : p \notin OpsOf(e)) =>
      OnRecord(o) \/ o \in stuck[d] \/ Unseen(d, o)

\* What tills are promised, without the mechanism (see ReplayContract).
Contract ==
  INSTANCE ReplayContract WITH landed <- applied, queued <- outbox, refused <- stuck

\* The replay (replay_batch, and replay for old tills) implements the contract:
\* each operation lands once, in its turn, and a till lets go of nothing that has not
\* landed, but for what it shows refused, and an old till for what it cannot read.
DeliversAsPromised == Contract!Spec

\* Every queue empties: a till is never stopped by an operation that can no longer
\* be applied, whatever was lost, retried or refused on the way.
Drains == <>[](\A d \in Tills : outbox[d] = <<>>)
=============================================================================
