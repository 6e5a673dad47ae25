---------------------------- MODULE ReplayProofs ----------------------------
(***************************************************************************)
(* Proofs about Replay, for every number of tills, operations, requests    *)
(* and faults: an operation is applied once, none is lost, and a till's    *)
(* are applied in the order it queued them.                                *)
(***************************************************************************)
EXTENDS Replay, SequenceTheorems, TLAPS

\* What the server has for good, or the till shows as refused, or has let go of
\* as an old till may.
Settled(d, o) == OnRecord(o) \/ o \in stuck[d] \/ Unseen(d, o)

\* A request carries a stretch of its till's queue, and what comes before the
\* operation it is at is settled.
Window(c) ==
  LET k == call[c] IN
  \E w \in Nat :
    /\ w + Len(k.ops) <= Len(Queue[k.till])
    /\ \A i \in 1 .. Len(k.ops) : k.ops[i] = Queue[k.till][w + i]
    /\ \A i \in 1 .. w + k.n : Settled(k.till, Queue[k.till][i])

\* What a request is about to answer is so.
WellCalled(c) ==
  LET k == call[c] IN
  /\ k.till \in Tills /\ k.n <= Len(k.ops)
  /\ k.pc # "free"
  /\ k.pc # "answer" => k.n < Len(k.ops) /\ k.out = "ok"
  /\ k.out # "ok" => k.n < Len(k.ops)
  /\ k.out = "applied" \/ k.pc = "flag" => OnRecord(k.ops[k.n + 1])
  /\ Window(c)

Called == \A c \in Calls : call[c] = Free \/ WellCalled(c)

\* What a till waits for are the first operations it has queued.
Awaited ==
  \A d \in Tills : waiting[d] # NoOne =>
    LET k == call[waiting[d]] IN
    /\ k.till = d /\ Len(k.ops) <= Len(outbox[d])
    /\ \A i \in 1 .. Len(k.ops) : k.ops[i] = outbox[d][i]

\* A till has the end of its queue left, and what came before is settled.
Rest ==
  \A d \in Tills :
    /\ Len(outbox[d]) <= Len(Queue[d])
    /\ \A i \in 1 .. Len(outbox[d]) :
         outbox[d][i] = Queue[d][Len(Queue[d]) - Len(outbox[d]) + i]
    /\ \A i \in 1 .. Len(Queue[d]) - Len(outbox[d]) : Settled(d, Queue[d][i])

IInv == TypeOK /\ Called /\ Awaited /\ Rest /\ AppliedOnce /\ InOrder

Pcs == {"free", "judge", "look", "commit", "flag", "answer"}
Outs == {"ok", "forbidden", "refused", "applied", "failed"}

CallType == [till : Tills \cup {NoOne}, ops : Seq(Ops), n : Nat, pc : Pcs, flag : BOOLEAN,
             tries : 0 .. RetryAttempts, out : Outs]

LEMMA FreeFacts == Free \in CallType /\ Len(Free.ops) = 0 /\ Free.till = NoOne /\ Free.pc = "free"
  BY ReplayAssumption DEF Free, Call, CallType, Pcs, Outs

LEMMA CallTyped == TypeOK <=>
  /\ granted \in BOOLEAN
  /\ applied \in [Ops -> Nat] /\ flagged \subseteq Ops
  /\ outbox \in [Tills -> Seq(Ops)] /\ stuck \in [Tills -> SUBSET Ops]
  /\ waiting \in [Tills -> Calls \cup {NoOne}]
  /\ call \in [Calls -> CallType]
  /\ faults \in 0 .. MaxFaults
  BY DEF TypeOK, CallType, Pcs, Outs

LEMMA TypedNext ==
  ASSUME granted' \in BOOLEAN, applied' \in [Ops -> Nat], flagged' \subseteq Ops,
         outbox' \in [Tills -> Seq(Ops)], stuck' \in [Tills -> SUBSET Ops],
         waiting' \in [Tills -> Calls \cup {NoOne}], call' \in [Calls -> CallType],
         faults' \in 0 .. MaxFaults
  PROVE  TypeOK'
  BY DEF TypeOK, CallType, Pcs, Outs

\* A request in progress is at an operation of its till.
LEMMA Busy ==
  ASSUME IInv, NEW c \in Calls, call[c].pc # "free"
  PROVE  /\ call[c] \in CallType /\ WellCalled(c)
         /\ call[c].n < Len(call[c].ops) => Op(c) \in Ops
<1>1. call[c] \in CallType
  BY CallTyped DEF IInv
<1>2. call[c] # Free
  BY FreeFacts
<1>3. call[c].n + 1 \in Nat \ {0} /\ (call[c].n < Len(call[c].ops) => call[c].n + 1 \in 1 .. Len(call[c].ops))
  BY <1>1 DEF CallType
<1>4. call[c].n < Len(call[c].ops) => Op(c) \in Ops
  BY <1>1, <1>3 DEF CallType, Op
<1> QED
  BY <1>1, <1>2, <1>4 DEF IInv, Called

\* Let go of unread, once the step is taken.
UnseenNext(d, o) == Unread(d, o) /\ o \notin ToSet(outbox'[d])

\* What is on record stays there, what is refused too, and what is let go of
\* does not come back.
Grows == /\ \A o \in Ops : applied[o] > 0 => applied'[o] > 0
         /\ \A d \in Tills : stuck[d] \subseteq stuck'[d]
         /\ \A d \in Tills, o \in Ops : Unseen(d, o) => UnseenNext(d, o)

\* Settled once the step is taken.
SettledNext(d, o) == applied'[o] > 0 \/ o \in stuck'[d] \/ UnseenNext(d, o)

LEMMA QueueInOps == \A d \in Tills : \A i \in 1 .. Len(Queue[d]) : Queue[d][i] \in Ops
  BY ReplayAssumption

\* The stretch stays one when the request goes on past a settled operation.
LEMMA WindowKept ==
  ASSUME IInv, Grows, NEW c \in Calls, WellCalled(c),
         call'[c].till = call[c].till, call'[c].ops = call[c].ops,
         \/ call'[c].n = call[c].n
         \/ /\ call'[c].n = call[c].n + 1 /\ call[c].n < Len(call[c].ops)
            /\ SettledNext(call[c].till, Op(c))
  PROVE  Window(c)'
<1> DEFINE d == call[c].till
           ops == call[c].ops
           n == call[c].n
<1>1. PICK w \in Nat :
       /\ w + Len(ops) <= Len(Queue[d])
       /\ \A i \in 1 .. Len(ops) : ops[i] = Queue[d][w + i]
       /\ \A i \in 1 .. w + n : Settled(d, Queue[d][i])
  BY DEF WellCalled, Window
<1>2. call[c] \in CallType
  BY CallTyped DEF IInv
<1>3. d \in Tills /\ n <= Len(ops) /\ n \in Nat /\ Len(ops) \in Nat
  BY <1>2 DEF WellCalled, CallType
<1>4. Len(Queue[d]) \in Nat
  BY <1>3, ReplayAssumption
<1>5. ASSUME NEW i \in 1 .. w + n PROVE SettledNext(d, Queue[d][i])
  <2>1. i \in 1 .. Len(Queue[d])
    BY <1>1, <1>3, <1>4
  <2>2. Queue[d][i] \in Ops
    BY <2>1, <1>3, QueueInOps
  <2> QED
    BY <1>1, <1>3, <2>2 DEF Settled, SettledNext, Grows, OnRecord
<1>6. ASSUME NEW i \in 1 .. w + call'[c].n PROVE SettledNext(d, Queue[d][i])
  <2>1. CASE i \in 1 .. w + n
    BY <2>1, <1>5
  <2>2. CASE i \notin 1 .. w + n
    <3>1. call'[c].n = n + 1 /\ n < Len(ops) /\ SettledNext(d, ops[n + 1])
      <4>1. call'[c].n # n
        BY <2>2
      <4> QED
        BY <4>1 DEF Op
    <3>2. n + 1 \in 1 .. Len(ops) /\ i = w + (n + 1)
      BY <3>1, <2>2, <1>3
    <3>3. ops[n + 1] = Queue[d][w + (n + 1)]
      BY <3>2, <1>1
    <3> QED
      BY <3>1, <3>2, <3>3
  <2> QED
    BY <2>1, <2>2
<1>7. \A i \in 1 .. w + call'[c].n : Settled(d, Queue[d][i])'
  BY <1>6 DEF Settled, SettledNext, OnRecord, Unseen, UnseenNext
<1> QED
  BY <1>1, <1>7 DEF Window

LEMMA CallKept ==
  ASSUME IInv, Grows, NEW c \in Calls, call'[c] = call[c], WellCalled(c)
  PROVE  WellCalled(c)'
<1> DEFINE k == call[c]
<1>1. k \in CallType
  BY CallTyped DEF IInv
<1>2. k.out = "applied" \/ k.pc = "flag" => k.ops[k.n + 1] \in Ops
  <2>1. k.out = "applied" \/ k.pc = "flag" => k.n + 1 \in 1 .. Len(k.ops)
    BY <1>1 DEF WellCalled, CallType
  <2> QED
    BY <1>1, <2>1 DEF CallType
<1>3. k.out = "applied" \/ k.pc = "flag" => OnRecord(k.ops[k.n + 1])'
  BY <1>2 DEF WellCalled, Grows, OnRecord
<1>4. Window(c)'
  BY WindowKept
<1> QED
  BY <1>3, <1>4 DEF WellCalled

LEMMA CalledKept ==
  ASSUME IInv, Grows, NEW S \in SUBSET Calls,
         \A c \in Calls \ S : call'[c] = call[c],
         \A c \in S : call'[c] = Free \/ WellCalled(c)'
  PROVE  Called'
<1> SUFFICES ASSUME NEW c \in Calls \ S PROVE call'[c] = Free \/ WellCalled(c)'
  BY DEF Called, Free, Call
<1>1. call[c] = Free \/ WellCalled(c)
  BY DEF IInv, Called
<1> QED
  BY <1>1, CallKept

LEMMA RestKept ==
  ASSUME IInv, Grows, outbox' = outbox
  PROVE  Rest'
<1> SUFFICES ASSUME NEW d \in Tills PROVE
      \A i \in 1 .. Len(Queue[d]) - Len(outbox[d]) : Settled(d, Queue[d][i])'
  BY DEF Rest, IInv
<1>1. Len(Queue[d]) \in Nat /\ Len(outbox[d]) \in Nat
  BY ReplayAssumption, CallTyped DEF IInv
<1>2. ASSUME NEW i \in 1 .. Len(Queue[d]) - Len(outbox[d]) PROVE Settled(d, Queue[d][i])'
  <2>1. Settled(d, Queue[d][i])
    BY DEF IInv, Rest
  <2>2. Queue[d][i] \in Ops
    BY <1>1, QueueInOps
  <2> QED
    BY <2>1, <2>2 DEF Settled, Grows, OnRecord, Unseen, UnseenNext
<1> QED
  BY <1>2

LEMMA OrderKept ==
  ASSUME IInv, Grows, applied' = applied
  PROVE  AppliedOnce' /\ InOrder'
<1>1. AppliedOnce'
  BY DEF IInv, AppliedOnce
<1>2. ASSUME NEW d \in Tills, NEW i \in DOMAIN Queue[d], NEW j \in DOMAIN Queue[d], i < j,
             OnRecord(Queue[d][j])', \A e \in Tills \ {d} : Queue[d][j] \notin OpsOf(e)
      PROVE  OnRecord(Queue[d][i])' \/ Queue[d][i] \in stuck'[d] \/ Unseen(d, Queue[d][i])'
  <2>1. OnRecord(Queue[d][j])
    BY <1>2 DEF OnRecord
  <2>2. OnRecord(Queue[d][i]) \/ Queue[d][i] \in stuck[d] \/ Unseen(d, Queue[d][i])
    BY <2>1, <1>2 DEF IInv, InOrder
  <2>3. Queue[d][i] \in Ops
    BY ReplayAssumption
  <2> QED
    BY <2>2, <2>3 DEF Grows, OnRecord, Unseen, UnseenNext
<1>3. InOrder'
  BY <1>2 DEF InOrder, OpsOf
<1> QED
  BY <1>1, <1>3

\* A step that leaves the tills' queues and the record alone, and the operations
\* a request carries.
LEMMA Moved ==
  ASSUME IInv, NEW c \in Calls, UNCHANGED <<applied, outbox, stuck, waiting>>,
         \A b \in Calls \ {c} : call'[b] = call[b],
         call'[c].till = call[c].till, call'[c].ops = call[c].ops, WellCalled(c)'
  PROVE  Called' /\ Awaited' /\ Rest' /\ AppliedOnce' /\ InOrder'
<1>1. Grows
  BY DEF Grows, Unseen, UnseenNext
<1>2. Called'
  <2>1. {c} \in SUBSET Calls /\ \A b \in {c} : call'[b] = Free \/ WellCalled(b)'
    OBVIOUS
  <2> QED
    BY <1>1, <2>1, CalledKept
<1>3. Awaited'
  <2> SUFFICES ASSUME NEW d \in Tills, waiting[d] # NoOne
               PROVE  LET k == call'[waiting[d]] IN
                      /\ k.till = d /\ Len(k.ops) <= Len(outbox[d])
                      /\ \A i \in 1 .. Len(k.ops) : k.ops[i] = outbox[d][i]
    BY DEF Awaited
  <2>1. waiting[d] \in Calls
    BY CallTyped DEF IInv
  <2>2. call'[waiting[d]].till = call[waiting[d]].till /\ call'[waiting[d]].ops = call[waiting[d]].ops
    BY <2>1
  <2> QED
    BY <2>2 DEF IInv, Awaited
<1> QED
  BY <1>1, <1>2, <1>3, RestKept, OrderKept

\* Forgetting requests, and giving up on them.
LEMMA Forgotten ==
  ASSUME IInv, UNCHANGED <<applied, outbox, stuck>>, NEW S \in SUBSET Calls,
         \A c \in Calls \ S : call'[c] = call[c], \A c \in S : call'[c] = Free,
         \A d \in Tills : waiting'[d] = NoOne \/ (waiting'[d] = waiting[d] /\ waiting[d] \notin S)
  PROVE  Called' /\ Awaited' /\ Rest' /\ AppliedOnce' /\ InOrder'
<1>1. Grows
  BY DEF Grows, Unseen, UnseenNext
<1>2. Called'
  BY <1>1, CalledKept
<1>3. Awaited'
  <2> SUFFICES ASSUME NEW d \in Tills, waiting'[d] # NoOne
               PROVE  LET k == call'[waiting'[d]] IN
                      /\ k.till = d /\ Len(k.ops) <= Len(outbox[d])
                      /\ \A i \in 1 .. Len(k.ops) : k.ops[i] = outbox[d][i]
    BY DEF Awaited
  <2>1. waiting[d] \in Calls \ S /\ waiting'[d] = waiting[d]
    BY CallTyped DEF IInv
  <2>2. call'[waiting[d]] = call[waiting[d]]
    BY <2>1
  <2> QED
    BY <2>1, <2>2 DEF IInv, Awaited
<1> QED
  BY <1>1, <1>2, <1>3, RestKept, OrderKept

\* A request goes on with its operation.
LEMMA GoneOn ==
  ASSUME IInv, Grows, NEW c \in Calls, call[c].pc \notin {"free", "answer"},
         call'[c].till = call[c].till, call'[c].ops = call[c].ops, call'[c].n = call[c].n,
         call'[c].out = call[c].out, call'[c].pc \in Pcs \ {"free", "answer"},
         call'[c].pc = "flag" => applied'[Op(c)] > 0
  PROVE  WellCalled(c)'
<1>1. WellCalled(c)
  BY Busy
<1>2. Window(c)'
  BY <1>1, WindowKept
<1>3. call'[c].pc = "flag" => OnRecord(call[c].ops[call[c].n + 1])'
  BY DEF OnRecord, Op
<1> QED
  BY <1>1, <1>2, <1>3 DEF WellCalled

LEMMA GotoFacts ==
  ASSUME TypeOK, NEW c \in Calls, NEW pc \in Pcs, Goto(c, pc)
  PROVE  /\ call' \in [Calls -> CallType]
         /\ \A b \in Calls \ {c} : call'[b] = call[b]
         /\ call'[c].till = call[c].till /\ call'[c].ops = call[c].ops
         /\ call'[c].n = call[c].n /\ call'[c].out = call[c].out /\ call'[c].pc = pc
<1>1. call[c] \in CallType /\ call \in [Calls -> CallType]
  BY CallTyped
<1> QED
  BY <1>1 DEF Goto, CallType

\* An operation is done with: the next one, or the answer.
LEMMA FinishFacts ==
  ASSUME IInv, NEW c \in Calls, call[c].pc \notin {"free", "answer"}, NEW out \in Outs, Finish(c, out)
  PROVE  /\ call' \in [Calls -> CallType]
         /\ \A b \in Calls \ {c} : call'[b] = call[b]
         /\ call'[c].till = call[c].till /\ call'[c].ops = call[c].ops
         /\ out # "ok" => /\ call'[c].n = call[c].n
                          /\ call'[c].pc = "answer" /\ call'[c].out = out
         /\ out = "ok" => /\ call'[c].n = call[c].n + 1 /\ call'[c].out = "ok"
                          /\ \/ call'[c].pc = "answer" /\ call'[c].n = Len(call[c].ops)
                             \/ call'[c].pc = "judge" /\ call'[c].n < Len(call[c].ops)
<1>1. call[c] \in CallType /\ call \in [Calls -> CallType] /\ WellCalled(c)
  BY Busy, CallTyped DEF IInv
<1>2. call[c].n < Len(call[c].ops) /\ call[c].out = "ok" /\ call[c].n \in Nat /\ Len(call[c].ops) \in Nat
  BY <1>1 DEF WellCalled, CallType
<1>3. call'[c] = AfterOp(c, out) /\ \A b \in Calls \ {c} : call'[b] = call[b]
  BY <1>1 DEF Finish
<1>4. CASE out # "ok"
  <2>1. AfterOp(c, out) = [call[c] EXCEPT !.pc = "answer", !.out = out]
    BY <1>4 DEF AfterOp
  <2>2. AfterOp(c, out) \in CallType
    BY <2>1, <1>1 DEF CallType, Pcs, Outs
  <2> QED
    BY <1>1, <1>3, <1>4, <2>1, <2>2 DEF Finish, CallType
<1> DEFINE m == call[c].n + 1
<1>a. m \in Nat /\ m <= Len(call[c].ops) /\ 1 \in 0 .. RetryAttempts
  BY <1>2, ReplayAssumption
<1>5. CASE out = "ok" /\ m = Len(call[c].ops)
  <2>1. AfterOp(c, out) = [call[c] EXCEPT !.n = m, !.pc = "answer"]
    BY <1>5 DEF AfterOp
  <2> HIDE DEF m
  <2>2. /\ AfterOp(c, out) \in CallType
        /\ AfterOp(c, out).till = call[c].till /\ AfterOp(c, out).ops = call[c].ops
        /\ AfterOp(c, out).n = m /\ AfterOp(c, out).pc = "answer"
        /\ AfterOp(c, out).out = call[c].out
    BY <2>1, <1>1, <1>a DEF CallType, Pcs, Outs
  <2>3. call' \in [Calls -> CallType]
    BY <1>1, <2>2 DEF Finish
  <2> QED
    BY <1>2, <1>3, <1>5, <2>2, <2>3 DEF m
<1>6. CASE out = "ok" /\ m # Len(call[c].ops)
  <2>1. AfterOp(c, out) = [call[c] EXCEPT !.n = m, !.pc = "judge", !.flag = FALSE, !.tries = 1]
    BY <1>6 DEF AfterOp
  <2> HIDE DEF m
  <2>2. /\ AfterOp(c, out) \in CallType
        /\ AfterOp(c, out).till = call[c].till /\ AfterOp(c, out).ops = call[c].ops
        /\ AfterOp(c, out).n = m /\ AfterOp(c, out).pc = "judge"
        /\ AfterOp(c, out).out = call[c].out
    BY <2>1, <1>1, <1>a DEF CallType, Pcs, Outs
  <2>3. call' \in [Calls -> CallType]
    BY <1>1, <2>2 DEF Finish
  <2>4. m < Len(call[c].ops)
    BY <1>2, <1>6 DEF m
  <2> QED
    BY <1>2, <1>3, <1>6, <2>2, <2>3, <2>4 DEF m
<1> QED
  BY <1>4, <1>5, <1>6

LEMMA Finished ==
  ASSUME IInv, Grows, NEW c \in Calls, call[c].pc \notin {"free", "answer"}, NEW out \in Outs, Finish(c, out),
         out = "ok" => SettledNext(call[c].till, Op(c)), out = "applied" => applied'[Op(c)] > 0
  PROVE  WellCalled(c)'
<1>1. WellCalled(c) /\ call[c] \in CallType
  BY Busy
<1>2. call[c].n < Len(call[c].ops) /\ call[c].n \in Nat /\ Len(call[c].ops) \in Nat
  BY <1>1 DEF WellCalled, CallType
<1>3. Window(c)'
  BY <1>1, <1>2, FinishFacts, WindowKept
<1>4. CASE out # "ok"
  <2>1. out = "applied" => OnRecord(call[c].ops[call[c].n + 1])'
    BY <1>4, FinishFacts DEF OnRecord, Op
  <2> QED
    BY <1>1, <1>2, <1>3, <1>4, <2>1, FinishFacts DEF WellCalled
<1>5. CASE out = "ok"
  BY <1>1, <1>2, <1>3, <1>5, FinishFacts DEF WellCalled
<1> QED
  BY <1>4, <1>5

-----------------------------------------------------------------------------
(* The invariant, step by step.                                            *)

LEMMA InitInv == Init => IInv
<1> SUFFICES ASSUME Init PROVE IInv
  OBVIOUS
<1>1. TypeOK
  BY CallTyped, FreeFacts, ReplayAssumption DEF Init
<1>2. Called /\ Awaited
  BY DEF Init, Called, Awaited
<1>3. Rest
  <2> SUFFICES ASSUME NEW d \in Tills
               PROVE  /\ Len(outbox[d]) <= Len(Queue[d])
                      /\ \A i \in 1 .. Len(outbox[d]) :
                           outbox[d][i] = Queue[d][Len(Queue[d]) - Len(outbox[d]) + i]
                      /\ \A i \in 1 .. Len(Queue[d]) - Len(outbox[d]) : Settled(d, Queue[d][i])
    BY DEF Rest
  <2>1. outbox[d] = Queue[d] /\ Len(Queue[d]) \in Nat
    BY ReplayAssumption DEF Init
  <2> QED
    BY <2>1
<1>4. AppliedOnce
  BY DEF Init, AppliedOnce
<1>5. \A d \in Tills : \A j \in DOMAIN Queue[d] : ~OnRecord(Queue[d][j])
  BY ReplayAssumption DEF Init, OnRecord
<1>6. InOrder
  BY <1>5 DEF InOrder
<1> QED
  BY <1>1, <1>2, <1>3, <1>4, <1>6 DEF IInv

\* The operations sent are the first ones queued.
LEMMA BatchFacts ==
  ASSUME NEW d \in Tills, outbox[d] \in Seq(Ops), outbox[d] # <<>>
  PROVE  /\ BatchOf(d) \in Seq(Ops) /\ Len(BatchOf(d)) \in 1 .. Len(outbox[d])
         /\ \A i \in 1 .. Len(BatchOf(d)) : BatchOf(d)[i] = outbox[d][i]
<1> DEFINE most == IF d \in Old THEN 1 ELSE MaxBatch
           m == IF Len(outbox[d]) < most THEN Len(outbox[d]) ELSE most
<1>1. Len(outbox[d]) \in Nat \ {0} /\ most \in Nat \ {0}
  BY ReplayAssumption
<1>2. m \in 1 .. Len(outbox[d])
  BY <1>1
<1>3. BatchOf(d) = SubSeq(outbox[d], 1, m)
  BY DEF BatchOf
<1>4. \A i \in 1 .. m : outbox[d][i] \in Ops
  BY <1>2
<1> HIDE DEF m
<1>5. /\ SubSeq(outbox[d], 1, m) \in Seq(Ops) /\ Len(SubSeq(outbox[d], 1, m)) = m
      /\ \A i \in 1 .. m : SubSeq(outbox[d], 1, m)[i] = outbox[d][i]
  BY <1>1, <1>2, <1>4, SubSeqProperties
<1> QED
  BY <1>2, <1>3, <1>5

LEMMA SendInv ==
  ASSUME IInv, NEW d \in Tills, Send(d)
  PROVE  IInv'
<1>1. PICK c \in Calls :
        /\ waiting[d] = NoOne /\ outbox[d] # <<>> /\ call[c] = Free
        /\ call' = [call EXCEPT ![c] = Call(d, BatchOf(d), 0, "judge", FALSE, 1, "ok")]
        /\ waiting' = [waiting EXCEPT ![d] = c]
        /\ UNCHANGED <<granted, server, outbox, stuck, faults>>
  BY DEF Send
<1>2. TypeOK
  BY DEF IInv
<1>3. /\ BatchOf(d) \in Seq(Ops) /\ Len(BatchOf(d)) \in 1 .. Len(outbox[d])
      /\ \A i \in 1 .. Len(BatchOf(d)) : BatchOf(d)[i] = outbox[d][i]
  BY <1>1, <1>2, CallTyped, BatchFacts
<1>4. Call(d, BatchOf(d), 0, "judge", FALSE, 1, "ok") \in CallType
  BY <1>3, ReplayAssumption DEF Call, CallType, Pcs, Outs
<1>0. UNCHANGED <<granted, applied, flagged, outbox, stuck, faults>>
  BY <1>1 DEF server
<1>5. TypeOK'
  <2>1. call' \in [Calls -> CallType] /\ waiting' \in [Tills -> Calls \cup {NoOne}]
    BY <1>1, <1>2, <1>4, CallTyped
  <2> QED
    BY <1>0, <1>2, <2>1, CallTyped, TypedNext
<1>6. /\ call'[c].till = d /\ call'[c].ops = BatchOf(d) /\ call'[c].n = 0
      /\ call'[c].pc = "judge" /\ call'[c].out = "ok"
  BY <1>1, <1>2, CallTyped DEF Call
<1>7. Len(outbox[d]) \in Nat /\ Len(Queue[d]) \in Nat /\ Len(outbox[d]) <= Len(Queue[d])
  BY <1>2, CallTyped, ReplayAssumption DEF IInv, Rest
<1>8. Grows
  BY <1>0 DEF Grows, Unseen, UnseenNext
<1>9. Window(c)'
  <2> DEFINE w == Len(Queue[d]) - Len(outbox[d])
  <2>1. w \in Nat /\ w + Len(BatchOf(d)) <= Len(Queue[d])
    BY <1>3, <1>7
  <2>2. \A i \in 1 .. Len(BatchOf(d)) : BatchOf(d)[i] = Queue[d][w + i]
    <3> SUFFICES ASSUME NEW i \in 1 .. Len(BatchOf(d)) PROVE BatchOf(d)[i] = Queue[d][w + i]
      OBVIOUS
    <3>1. i \in 1 .. Len(outbox[d]) /\ BatchOf(d)[i] = outbox[d][i]
      BY <1>3, <1>7
    <3> QED
      BY <3>1 DEF IInv, Rest
  <2>3. \A i \in 1 .. w : Settled(d, Queue[d][i])'
    BY <1>0 DEF IInv, Rest, Settled, OnRecord, Unseen, Unread
  <2>4. w + 0 = w
    BY <2>1
  <2> HIDE DEF w
  <2> QED
    BY <1>6, <2>1, <2>2, <2>3, <2>4 DEF Window
<1>10. WellCalled(c)'
  BY <1>3, <1>6, <1>9 DEF WellCalled
<1>11. Called'
  <2>1. {c} \in SUBSET Calls /\ \A b \in {c} : call'[b] = Free \/ WellCalled(b)'
    BY <1>10
  <2>2. \A b \in Calls \ {c} : call'[b] = call[b]
    BY <1>1, <1>2, CallTyped
  <2> QED
    BY <1>8, <2>1, <2>2, CalledKept
<1>12. Awaited'
  <2> SUFFICES ASSUME NEW e \in Tills, waiting'[e] # NoOne
               PROVE  LET k == call'[waiting'[e]] IN
                      /\ k.till = e /\ Len(k.ops) <= Len(outbox[e])
                      /\ \A i \in 1 .. Len(k.ops) : k.ops[i] = outbox[e][i]
    BY <1>0 DEF Awaited
  <2>1. CASE e = d
    <3>1. waiting'[e] = c
      BY <1>1, <1>2, <2>1, CallTyped
    <3> QED
      BY <1>3, <1>6, <1>7, <2>1, <3>1
  <2>2. CASE e # d
    <3>1. waiting'[e] = waiting[e] /\ waiting[e] \in Calls
      BY <1>1, <1>2, <2>2, CallTyped
    <3>2. call[waiting[e]].till = e
      BY <3>1 DEF IInv, Awaited
    <3>3. waiting[e] # c
      BY <1>1, <3>2, FreeFacts, ReplayAssumption
    <3>4. call'[waiting[e]] = call[waiting[e]]
      BY <1>1, <1>2, <3>1, <3>3, CallTyped
    <3> QED
      BY <3>1, <3>4 DEF IInv, Awaited
  <2> QED
    BY <2>1, <2>2
<1> QED
  BY <1>0, <1>5, <1>8, <1>11, <1>12, RestKept, OrderKept DEF IInv

LEMMA TimeOutInv ==
  ASSUME IInv, NEW d \in Tills, TimeOut(d)
  PROVE  IInv'
<1>1. UNCHANGED <<granted, applied, flagged, outbox, stuck, call>>
  BY DEF TimeOut, server
<1>2. TypeOK'
  <2>1. waiting' \in [Tills -> Calls \cup {NoOne}] /\ faults' \in 0 .. MaxFaults
    BY CallTyped, ReplayAssumption DEF IInv, TimeOut
  <2> QED
    BY <1>1, <2>1, CallTyped, TypedNext DEF IInv
<1>3. \A e \in Tills : waiting'[e] = NoOne \/ waiting'[e] = waiting[e]
  BY CallTyped DEF IInv, TimeOut
<1>4. {} \in SUBSET Calls
  OBVIOUS
<1> QED
  BY <1>1, <1>2, <1>3, <1>4, Forgotten DEF IInv

LEMMA JudgeInv ==
  ASSUME IInv, NEW c \in Calls, Judge(c)
  PROVE  IInv'
<1>1. UNCHANGED <<granted, applied, flagged, outbox, stuck, waiting, faults>> /\ Grows
  BY DEF Judge, server, till, Grows, Unseen, UnseenNext
<1>2. call[c] \in CallType /\ call \in [Calls -> CallType] /\ call[c].pc = "judge"
  BY CallTyped DEF IInv, Judge, At
<1>3. CASE granted \/ Op(c) \in Money
  <2>1. call' = [call EXCEPT ![c].pc = "look", ![c].flag = ~granted]
    BY <1>3 DEF Judge
  <2>2. granted \in BOOLEAN
    BY CallTyped DEF IInv
  <2>3. /\ call' \in [Calls -> CallType] /\ \A b \in Calls \ {c} : call'[b] = call[b]
        /\ call'[c].till = call[c].till /\ call'[c].ops = call[c].ops
        /\ call'[c].n = call[c].n /\ call'[c].out = call[c].out /\ call'[c].pc = "look"
    BY <1>2, <2>1, <2>2 DEF CallType, Pcs
  <2>4. WellCalled(c)'
    BY <1>1, <1>2, <2>3, GoneOn DEF Pcs
  <2> QED
    BY <1>1, <2>3, <2>4, Moved, CallTyped, TypedNext DEF IInv
<1>4. CASE ~(granted \/ Op(c) \in Money)
  <2>1. Finish(c, "forbidden") /\ "forbidden" \in Outs
    BY <1>4 DEF Judge, Outs
  <2>2. WellCalled(c)'
    BY <1>1, <1>2, <2>1, Finished
  <2> QED
    BY <1>1, <1>2, <2>1, <2>2, FinishFacts, Moved, CallTyped, TypedNext DEF IInv
<1> QED
  BY <1>3, <1>4

LEMMA LookInv ==
  ASSUME IInv, NEW c \in Calls, Look(c)
  PROVE  IInv'
<1>1. UNCHANGED <<granted, applied, flagged, outbox, stuck, waiting, faults>> /\ Grows
  BY DEF Look, server, till, Grows, Unseen, UnseenNext
<1>2. call[c].pc = "look"
  BY DEF Look, At
<1>3. PICK pc \in {"flag", "commit"} : Goto(c, pc) /\ (pc = "flag" => applied[Op(c)] > 0)
  BY DEF Look, OnRecord
<1>4. /\ call' \in [Calls -> CallType] /\ \A b \in Calls \ {c} : call'[b] = call[b]
      /\ call'[c].till = call[c].till /\ call'[c].ops = call[c].ops
      /\ call'[c].n = call[c].n /\ call'[c].out = call[c].out /\ call'[c].pc = pc
  BY <1>3, GotoFacts DEF IInv, Pcs
<1>5. WellCalled(c)'
  BY <1>1, <1>2, <1>3, <1>4, GoneOn DEF Pcs
<1> QED
  BY <1>1, <1>4, <1>5, Moved, CallTyped, TypedNext DEF IInv

LEMMA TransientInv ==
  ASSUME IInv, NEW c \in Calls, Transient(c)
  PROVE  IInv'
<1>1. UNCHANGED <<granted, applied, flagged, outbox, stuck, waiting>> /\ Grows
  BY DEF Transient, server, till, Grows, Unseen, UnseenNext
<1>2. call[c] \in CallType /\ call \in [Calls -> CallType] /\ call[c].pc = "commit"
  BY CallTyped DEF IInv, Transient, At
<1>3. faults' \in 0 .. MaxFaults
  BY CallTyped, ReplayAssumption DEF IInv, Transient
<1>4. CASE call[c].tries < RetryAttempts
  <2> DEFINE tries == call[c].tries + 1
  <2>1. call' = [call EXCEPT ![c].pc = "judge", ![c].flag = FALSE, ![c].tries = tries]
    BY <1>4 DEF Transient
  <2>2. tries \in 0 .. RetryAttempts
    BY <1>2, <1>4, ReplayAssumption DEF CallType
  <2> HIDE DEF tries
  <2>3. /\ call' \in [Calls -> CallType] /\ \A b \in Calls \ {c} : call'[b] = call[b]
        /\ call'[c].till = call[c].till /\ call'[c].ops = call[c].ops
        /\ call'[c].n = call[c].n /\ call'[c].out = call[c].out /\ call'[c].pc = "judge"
    BY <1>2, <2>1, <2>2 DEF CallType, Pcs
  <2>4. WellCalled(c)'
    BY <1>1, <1>2, <2>3, GoneOn DEF Pcs
  <2> QED
    BY <1>1, <1>3, <2>3, <2>4, Moved, CallTyped, TypedNext DEF IInv
<1>5. CASE ~(call[c].tries < RetryAttempts)
  <2>1. Finish(c, "failed") /\ "failed" \in Outs
    BY <1>5 DEF Transient, Outs
  <2>2. WellCalled(c)'
    BY <1>1, <1>2, <2>1, Finished
  <2> QED
    BY <1>1, <1>2, <1>3, <2>1, <2>2, FinishFacts, Moved, CallTyped, TypedNext DEF IInv
<1> QED
  BY <1>4, <1>5

LEMMA RecordFlagsInv ==
  ASSUME IInv, NEW c \in Calls, RecordFlags(c)
  PROVE  IInv'
<1>1. UNCHANGED <<granted, applied, outbox, stuck, waiting, faults>> /\ Grows
  BY DEF RecordFlags, till, Grows, Unseen, UnseenNext
<1>2. call[c].pc = "flag" /\ Finish(c, "ok") /\ "ok" \in Outs
  BY DEF RecordFlags, At, Outs
<1>3. WellCalled(c) /\ Op(c) \in Ops
  BY <1>2, Busy DEF WellCalled
<1>4. flagged' \subseteq Ops
  BY <1>3, CallTyped DEF IInv, RecordFlags
<1>5. SettledNext(call[c].till, Op(c))
  BY <1>1, <1>2, <1>3 DEF WellCalled, SettledNext, OnRecord, Op
<1>6. WellCalled(c)'
  BY <1>1, <1>2, <1>5, Finished
<1> QED
  BY <1>1, <1>2, <1>4, <1>6, FinishFacts, Moved, CallTyped, TypedNext DEF IInv

LEMMA CrashInv ==
  ASSUME IInv, Crash
  PROVE  IInv'
<1>1. UNCHANGED <<granted, applied, flagged, outbox, stuck>> /\ (\A c \in Calls : call'[c] = Free)
  BY DEF Crash, server
<1>2. TypeOK'
  <2>1. /\ call' \in [Calls -> CallType] /\ waiting' \in [Tills -> Calls \cup {NoOne}]
        /\ faults' \in 0 .. MaxFaults
    BY CallTyped, FreeFacts, ReplayAssumption DEF IInv, Crash
  <2> QED
    BY <1>1, <2>1, CallTyped, TypedNext DEF IInv
<1>3. \A d \in Tills : waiting'[d] = NoOne
  BY DEF Crash
<1>4. Calls \in SUBSET Calls
  OBVIOUS
<1> QED
  BY <1>1, <1>2, <1>3, <1>4, Forgotten DEF IInv

\* A request nobody waits for ends.
LEMMA Unheard ==
  ASSUME IInv, NEW c \in Calls, waiting[call[c].till] # c, call' = [call EXCEPT ![c] = Free],
         UNCHANGED <<granted, applied, flagged, outbox, stuck, waiting, faults>>
  PROVE  IInv'
<1>1. /\ call' \in [Calls -> CallType] /\ call'[c] = Free
      /\ \A b \in Calls \ {c} : call'[b] = call[b]
  BY CallTyped, FreeFacts DEF IInv
<1>2. \A d \in Tills : waiting[d] # c
  <2> SUFFICES ASSUME NEW d \in Tills, waiting[d] = c PROVE FALSE
    OBVIOUS
  <2>1. call[c].till = d
    BY ReplayAssumption DEF IInv, Awaited
  <2> QED
    BY <2>1
<1>3. {c} \in SUBSET Calls
  OBVIOUS
<1> QED
  BY <1>1, <1>2, <1>3, Forgotten, CallTyped, TypedNext DEF IInv

LEMMA DroppedInv ==
  ASSUME IInv, NEW c \in Calls, Dropped(c)
  PROVE  IInv'
  BY Unheard DEF Dropped, server, till

LEMMA RegrantInv ==
  ASSUME IInv, Regrant
  PROVE  IInv'
<1>1. UNCHANGED <<applied, flagged, outbox, stuck, waiting, call, faults>>
  BY DEF Regrant, server, till
<1>2. granted' \in BOOLEAN
  BY DEF Regrant
<1>3. {} \in SUBSET Calls
  OBVIOUS
<1> QED
  BY <1>1, <1>2, <1>3, Forgotten, CallTyped, TypedNext DEF IInv

\* The one step that applies an operation: its key was free, and all that its
\* till queued before it is settled.
LEMMA ApplyInv ==
  ASSUME IInv, NEW c \in Calls, call[c].pc = "commit", KeyIsFree(Op(c)),
         Goto(c, "flag"), applied' = [applied EXCEPT ![Op(c)] = @ + 1],
         UNCHANGED <<granted, flagged, outbox, stuck, waiting, faults>>
  PROVE  IInv'
<1> DEFINE o == Op(c)
           k == call[c]
<1>1. WellCalled(c) /\ o \in Ops /\ k \in CallType
  BY Busy DEF WellCalled
<1>2. applied \in [Ops -> Nat] /\ applied[o] = 0
  BY <1>1, CallTyped DEF IInv, KeyIsFree, OnRecord
<1>3. /\ applied' \in [Ops -> Nat] /\ applied'[o] = 1
      /\ \A p \in Ops \ {o} : applied'[p] = applied[p]
  BY <1>1, <1>2
<1>4. Grows
  BY <1>2, <1>3 DEF Grows, Unseen, UnseenNext
<1>5. /\ call' \in [Calls -> CallType] /\ \A b \in Calls \ {c} : call'[b] = call[b]
      /\ call'[c].till = call[c].till /\ call'[c].ops = call[c].ops
      /\ call'[c].n = call[c].n /\ call'[c].out = call[c].out /\ call'[c].pc = "flag"
  BY GotoFacts DEF IInv, Pcs
<1>6. WellCalled(c)'
  BY <1>3, <1>4, <1>5, GoneOn DEF Pcs
<1>7. Called'
  <2>1. {c} \in SUBSET Calls /\ \A b \in {c} : call'[b] = Free \/ WellCalled(b)'
    BY <1>6
  <2> QED
    BY <1>4, <1>5, <2>1, CalledKept
<1>8. Awaited'
  <2> SUFFICES ASSUME NEW d \in Tills, waiting[d] # NoOne
               PROVE  LET r == call'[waiting[d]] IN
                      /\ r.till = d /\ Len(r.ops) <= Len(outbox[d])
                      /\ \A i \in 1 .. Len(r.ops) : r.ops[i] = outbox[d][i]
    BY DEF Awaited
  <2>1. waiting[d] \in Calls
    BY CallTyped DEF IInv
  <2>2. call'[waiting[d]].till = call[waiting[d]].till /\ call'[waiting[d]].ops = call[waiting[d]].ops
    BY <1>5, <2>1
  <2> QED
    BY <2>2 DEF IInv, Awaited
<1>9. AppliedOnce'
  BY <1>3 DEF IInv, AppliedOnce
<1>10. InOrder'
  <2> SUFFICES ASSUME NEW d \in Tills, NEW i \in DOMAIN Queue[d], NEW j \in DOMAIN Queue[d], i < j,
                      applied'[Queue[d][j]] > 0, \A e \in Tills \ {d} : Queue[d][j] \notin OpsOf(e)
               PROVE  \/ applied'[Queue[d][i]] > 0 \/ Queue[d][i] \in stuck'[d]
                      \/ Unseen(d, Queue[d][i])'
    BY DEF InOrder, OnRecord, OpsOf
  <2>1. Queue[d][i] \in Ops /\ Queue[d][j] \in Ops
    BY ReplayAssumption
  <2>2. CASE Queue[d][j] # o
    <3>1. OnRecord(Queue[d][j])
      BY <2>1, <2>2, <1>3 DEF OnRecord
    <3>2. OnRecord(Queue[d][i]) \/ Queue[d][i] \in stuck[d] \/ Unseen(d, Queue[d][i])
      BY <3>1 DEF IInv, InOrder
    <3> QED
      BY <3>2, <2>1, <1>4 DEF Grows, OnRecord, Unseen, UnseenNext
  <2>3. CASE Queue[d][j] = o
    <3>1. PICK w \in Nat :
            /\ w + Len(k.ops) <= Len(Queue[k.till])
            /\ \A l \in 1 .. Len(k.ops) : k.ops[l] = Queue[k.till][w + l]
            /\ \A l \in 1 .. w + k.n : Settled(k.till, Queue[k.till][l])
      BY <1>1 DEF WellCalled, Window
    <3>2. k.till \in Tills /\ k.n \in Nat /\ k.n < Len(k.ops) /\ Len(k.ops) \in Nat
      BY <1>1 DEF WellCalled, CallType
    <3>3. Len(Queue[k.till]) \in Nat /\ DOMAIN Queue[k.till] = 1 .. Len(Queue[k.till])
      BY <3>2, ReplayAssumption
    <3>4. k.n + 1 \in 1 .. Len(k.ops) /\ w + (k.n + 1) \in DOMAIN Queue[k.till]
      <4>1. k.n + 1 \in 1 .. Len(k.ops)
        BY <3>2
      <4>2. w + (k.n + 1) \in 1 .. Len(Queue[k.till])
        BY <3>1, <3>2, <3>3
      <4> QED
        BY <4>1, <4>2, <3>3
    <3>5. o = Queue[k.till][w + (k.n + 1)]
      BY <3>1, <3>4 DEF Op
    <3>6. o \in OpsOf(k.till)
      BY <3>4, <3>5 DEF OpsOf, ToSet
    <3>7. k.till = d
      BY <2>3, <3>2, <3>6
    <3>8. j = w + (k.n + 1)
      BY <2>3, <3>4, <3>5, <3>7, ReplayAssumption
    <3>9. i \in 1 .. w + k.n
      BY <3>2, <3>3, <3>7, <3>8
    <3>10. Settled(d, Queue[d][i])
      BY <3>1, <3>7, <3>9
    <3> QED
      BY <3>10, <2>1, <1>4 DEF Settled, Grows, OnRecord, Unseen, UnseenNext
  <2> QED
    BY <2>2, <2>3
<1>11. TypeOK'
  BY <1>3, <1>5, CallTyped, TypedNext DEF IInv
<1> QED
  BY <1>4, <1>7, <1>8, <1>9, <1>10, <1>11, RestKept DEF IInv

LEMMA CommitInv ==
  ASSUME IInv, NEW c \in Calls, Commit(c)
  PROVE  IInv'
<1>1. UNCHANGED <<granted, flagged, outbox, stuck, waiting, faults>> /\ call[c].pc = "commit"
  BY DEF Commit, till, At
<1>2. CASE ~KeyIsFree(Op(c)) /\ Op(c) \in Money
  <2>1. Goto(c, "flag") /\ applied' = applied
    BY <1>2 DEF Commit
  <2>2. /\ call' \in [Calls -> CallType] /\ \A b \in Calls \ {c} : call'[b] = call[b]
        /\ call'[c].till = call[c].till /\ call'[c].ops = call[c].ops
        /\ call'[c].n = call[c].n /\ call'[c].out = call[c].out /\ call'[c].pc = "flag"
    BY <2>1, GotoFacts DEF IInv, Pcs
  <2>3. Grows /\ applied'[Op(c)] > 0
    BY <1>1, <1>2, <2>1 DEF Grows, Unseen, UnseenNext, KeyIsFree, OnRecord
  <2>4. WellCalled(c)'
    BY <1>1, <2>2, <2>3, GoneOn DEF Pcs
  <2> QED
    BY <1>1, <2>1, <2>2, <2>4, Moved, CallTyped, TypedNext DEF IInv
<1>3. CASE ~KeyIsFree(Op(c)) /\ Op(c) \notin Money
  <2>1. Finish(c, "applied") /\ applied' = applied /\ "applied" \in Outs
    BY <1>3 DEF Commit, Outs
  <2>2. Grows /\ applied'[Op(c)] > 0
    BY <1>1, <1>3, <2>1 DEF Grows, Unseen, UnseenNext, KeyIsFree, OnRecord
  <2>3. WellCalled(c)'
    BY <1>1, <2>1, <2>2, Finished
  <2> QED
    BY <1>1, <2>1, <2>3, FinishFacts, Moved, CallTyped, TypedNext DEF IInv
<1>4. CASE KeyIsFree(Op(c)) /\ Applicable(Op(c))
  <2>1. Goto(c, "flag") /\ applied' = [applied EXCEPT ![Op(c)] = @ + 1]
    BY <1>4 DEF Commit
  <2> QED
    BY <1>1, <1>4, <2>1, ApplyInv
<1>5. CASE KeyIsFree(Op(c)) /\ ~Applicable(Op(c))
  <2>1. Finish(c, "refused") /\ applied' = applied /\ "refused" \in Outs
    BY <1>5 DEF Commit, Outs
  <2>2. Grows
    BY <1>1, <2>1 DEF Grows, Unseen, UnseenNext
  <2>3. WellCalled(c)'
    BY <1>1, <2>1, <2>2, Finished
  <2> QED
    BY <1>1, <2>1, <2>3, FinishFacts, Moved, CallTyped, TypedNext DEF IInv
<1> QED
  BY <1>2, <1>3, <1>4, <1>5

\* Positions in a queue of q operations of which b are left, and g of those go.
LEMMA Positions ==
  ASSUME NEW q \in Nat, NEW b \in Nat, b <= q, NEW g \in Nat, g <= b, NEW i \in Nat
  PROVE  /\ i \in 1 .. q => i \in 1 .. q - b \/ i - (q - b) \in 1 .. b
         /\ i \in 1 .. q - (b - g) => i \in 1 .. q - b \/ i - (q - b) \in 1 .. g
         /\ q - b + (i - (q - b)) = i
         /\ q - b + (g + i) = q - (b - g) + i
  OBVIOUS

\* A till takes an operation for done only when it is on record, an old one also
\* when it is refused with a conflict that is not listed.
LEMMA DoneIsOnRecord ==
  ASSUME NEW d \in Tills, NEW o \in Ops, NEW out \in Outs, TakenForDone(d, o, out)
  PROVE  out = "applied" \/ Unread(d, o)
  BY DEF TakenForDone, Status, Outs

\* What is left of a queue once its first g operations are let go of.
LEMMA LeftOver ==
  ASSUME NEW s \in Seq(Ops), NEW g \in Nat, g <= Len(s)
  PROVE  /\ SubSeq(s, g + 1, Len(s)) \in Seq(Ops)
         /\ Len(SubSeq(s, g + 1, Len(s))) = Len(s) - g
         /\ \A i \in 1 .. Len(s) - g : SubSeq(s, g + 1, Len(s))[i] = s[g + i]
<1> DEFINE t == SubSeq(s, g + 1, Len(s))
<1>0. Len(s) \in Nat /\ \A i \in g + 1 .. Len(s) : s[i] \in Ops
  OBVIOUS
<1>1. /\ t \in Seq(Ops) /\ Len(t) = IF g + 1 <= Len(s) THEN Len(s) - (g + 1) + 1 ELSE 0
      /\ \A i \in 1 .. Len(s) - (g + 1) + 1 : t[i] = s[g + 1 + i - 1]
  BY <1>0, SubSeqProperties
<1>2. Len(t) = Len(s) - g
  BY <1>0, <1>1
<1>3. \A i \in 1 .. Len(s) - g : i \in 1 .. Len(s) - (g + 1) + 1 /\ g + 1 + i - 1 = g + i
  BY <1>0
<1> QED
  BY <1>1, <1>2, <1>3

\* No operation let go of is among those left, when none is there twice.
LEMMA LetGoOf ==
  ASSUME NEW s \in Seq(Ops), NEW g \in Nat, g <= Len(s),
         \A i, j \in 1 .. Len(s) : s[i] = s[j] => i = j
  PROVE  /\ ToSet(SubSeq(s, g + 1, Len(s))) \subseteq ToSet(s)
         /\ \A i \in 1 .. g : s[i] \notin ToSet(SubSeq(s, g + 1, Len(s)))
<1>1. PICK t \in Seq(Ops) : t = SubSeq(s, g + 1, Len(s))
  BY LeftOver
<1>2. Len(t) = Len(s) - g /\ \A i \in 1 .. Len(s) - g : t[i] = s[g + i]
  BY <1>1, LeftOver
<1>3. Len(s) \in Nat /\ DOMAIN t = 1 .. Len(s) - g /\ DOMAIN s = 1 .. Len(s)
  BY <1>2
<1>4. \A i \in 1 .. Len(s) - g : g + i \in 1 .. Len(s)
  BY <1>3
<1>5. ToSet(t) \subseteq ToSet(s)
  <2> SUFFICES ASSUME NEW x \in ToSet(t) PROVE x \in ToSet(s)
    OBVIOUS
  <2>1. PICK i \in 1 .. Len(s) - g : x = t[i]
    BY <1>3 DEF ToSet
  <2>2. x = s[g + i] /\ g + i \in DOMAIN s
    BY <1>2, <1>3, <1>4, <2>1
  <2> QED
    BY <2>2 DEF ToSet
<1>6. ASSUME NEW i \in 1 .. g, s[i] \in ToSet(t) PROVE FALSE
  <2>1. PICK j \in 1 .. Len(s) - g : s[i] = t[j]
    BY <1>3, <1>6 DEF ToSet
  <2>2. s[i] = s[g + j]
    BY <1>2, <2>1
  <2>3. i \in 1 .. Len(s) /\ g + j \in 1 .. Len(s) /\ i # g + j
    BY <1>3
  <2> QED
    BY <2>2, <2>3
<1> QED
  BY <1>1, <1>5, <1>6

\* The end of a sequence without repetition has none.
LEMMA EndIsApart ==
  ASSUME NEW q \in Seq(Ops), NEW s \in Seq(Ops), Len(s) <= Len(q),
         \A i \in 1 .. Len(s) : s[i] = q[Len(q) - Len(s) + i],
         \A i, j \in DOMAIN q : q[i] = q[j] => i = j
  PROVE  \A i, j \in 1 .. Len(s) : s[i] = s[j] => i = j
<1>1. PICK n, m \in Nat : n = Len(q) /\ m = Len(s)
  OBVIOUS
<1>2. DOMAIN q = 1 .. n /\ m <= n
  BY <1>1
<1> SUFFICES ASSUME NEW i \in 1 .. m, NEW j \in 1 .. m, s[i] = s[j] PROVE i = j
  BY <1>1
<1>3. n - m + i \in 1 .. n /\ n - m + j \in 1 .. n
  BY <1>2
<1>4. q[n - m + i] = q[n - m + j]
  BY <1>1
<1>5. n - m + i = n - m + j
  BY <1>2, <1>3, <1>4
<1> QED
  BY <1>5

\* No operation is queued twice at a till.
LEMMA QueuedOnce ==
  ASSUME IInv, NEW d \in Tills
  PROVE  \A i, j \in 1 .. Len(outbox[d]) : outbox[d][i] = outbox[d][j] => i = j
<1>1. Queue[d] \in Seq(Ops) /\ \A i, j \in DOMAIN Queue[d] : Queue[d][i] = Queue[d][j] => i = j
  BY ReplayAssumption
<1>2. outbox[d] \in Seq(Ops)
  BY CallTyped DEF IInv
<1>3. /\ Len(outbox[d]) <= Len(Queue[d])
      /\ \A i \in 1 .. Len(outbox[d]) :
           outbox[d][i] = Queue[d][Len(Queue[d]) - Len(outbox[d]) + i]
  BY DEF IInv, Rest
<1> QED
  BY <1>1, <1>2, <1>3, EndIsApart

\* The answer a till waits for: it forgets what is settled.
LEMMA HeardInv ==
  ASSUME IInv, NEW c \in Calls, Deliver(c), waiting[call[c].till] = c
  PROVE  IInv'
<1> DEFINE k == call[c]
           d == k.till
           rest == k.n + 1 <= Len(k.ops)
           done == rest /\ TakenForDone(d, Op(c), k.out)
           dead == rest /\ ~done /\ Status(d, Op(c), k.out) < 500
           gone == IF done \/ dead THEN k.n + 1 ELSE k.n
<1>1. k.pc = "answer" /\ WellCalled(c) /\ k \in CallType
  BY Busy DEF Deliver, At
<1>2. /\ d \in Tills /\ k.n \in Nat /\ Len(k.ops) \in Nat /\ k.n <= Len(k.ops)
      /\ Len(outbox[d]) \in Nat /\ Len(Queue[d]) \in Nat /\ outbox[d] \in Seq(Ops)
      /\ d # NoOne /\ c # NoOne
  BY <1>1, CallTyped, ReplayAssumption DEF WellCalled, CallType, IInv
<1>3. /\ outbox' = [outbox EXCEPT ![d] = SubSeq(@, gone + 1, Len(@))]
      /\ stuck' = [stuck EXCEPT ![d] = IF dead THEN @ \cup {Op(c)} ELSE @]
      /\ waiting' = [waiting EXCEPT ![d] = NoOne]
      /\ call' = [call EXCEPT ![c] = Free]
      /\ UNCHANGED <<granted, applied, flagged, faults>>
  BY DEF Deliver, server
<1>4. gone \in Nat /\ gone <= Len(k.ops)
  BY <1>2
<1>5. Len(k.ops) <= Len(outbox[d]) /\ \A i \in 1 .. Len(k.ops) : k.ops[i] = outbox[d][i]
  BY <1>2 DEF IInv, Awaited
<1>6. rest => Op(c) \in Ops /\ k.n < Len(k.ops)
  BY <1>1, <1>2, Busy
<1>7. stuck' \in [Tills -> SUBSET Ops] /\ waiting' \in [Tills -> Calls \cup {NoOne}]
  BY <1>2, <1>3, <1>6, CallTyped DEF IInv
<1>a. PICK g \in Nat : g = gone
  BY <1>4
<1>b. /\ outbox'[d] \in Seq(Ops) /\ Len(outbox'[d]) = Len(outbox[d]) - g
      /\ \A i \in 1 .. Len(outbox'[d]) : outbox'[d][i] = outbox[d][g + i]
      /\ \A e \in Tills \ {d} : outbox'[e] = outbox[e]
  <2>1. g <= Len(outbox[d])
    BY <1>2, <1>4, <1>5, <1>a
  <2>2. outbox \in [Tills -> Seq(Ops)] /\ outbox' = [outbox EXCEPT ![d] = SubSeq(@, g + 1, Len(@))]
    BY <1>3, <1>a, CallTyped DEF IInv
  <2>3. outbox'[d] = SubSeq(outbox[d], g + 1, Len(outbox[d]))
    BY <1>2, <2>2
  <2> HIDE DEF d
  <2> QED
    BY <1>2, <2>1, <2>2, <2>3, LeftOver
<1>c. /\ ToSet(outbox'[d]) \subseteq ToSet(outbox[d])
      /\ \A i \in 1 .. g : outbox[d][i] \notin ToSet(outbox'[d])
  <2>1. g <= Len(outbox[d])
    BY <1>2, <1>4, <1>5, <1>a
  <2>2. outbox \in [Tills -> Seq(Ops)] /\ outbox' = [outbox EXCEPT ![d] = SubSeq(@, g + 1, Len(@))]
    BY <1>3, <1>a, CallTyped DEF IInv
  <2>3. outbox'[d] = SubSeq(outbox[d], g + 1, Len(outbox[d]))
    BY <1>2, <2>2
  <2>4. \A i, j \in 1 .. Len(outbox[d]) : outbox[d][i] = outbox[d][j] => i = j
    BY <1>2, QueuedOnce
  <2> HIDE DEF d
  <2> QED
    BY <1>2, <2>1, <2>3, <2>4, LetGoOf
<1>d. \A i \in 1 .. gone : i \in 1 .. Len(k.ops) /\ k.ops[i] \notin ToSet(outbox'[d])
  <2> SUFFICES ASSUME NEW i \in 1 .. gone
               PROVE  i \in 1 .. Len(k.ops) /\ k.ops[i] \notin ToSet(outbox'[d])
    OBVIOUS
  <2>1. i \in 1 .. Len(k.ops)
    BY <1>2, <1>4
  <2> QED
    BY <2>1, <1>5, <1>a, <1>c
<1>8. Grows
  <2>1. \A e \in Tills : ToSet(outbox'[e]) \subseteq ToSet(outbox[e])
    BY <1>b, <1>c
  <2>2. \A e \in Tills, o \in Ops : Unseen(e, o) => UnseenNext(e, o)
    BY <2>1 DEF Unseen, UnseenNext
  <2>3. \A e \in Tills : stuck[e] \subseteq stuck'[e]
    BY <1>2, <1>3, CallTyped DEF IInv
  <2> QED
    BY <1>3, <2>2, <2>3 DEF Grows
<1>9. dead => Op(c) \in stuck'[d]
  BY <1>2, <1>3, CallTyped DEF IInv
<1>10. \A i \in 1 .. gone : SettledNext(d, k.ops[i])
  <2> SUFFICES ASSUME NEW i \in 1 .. gone PROVE SettledNext(d, k.ops[i])
    OBVIOUS
  <2>1. CASE i <= k.n
    <3>1. PICK w \in Nat :
            /\ w + Len(k.ops) <= Len(Queue[d])
            /\ \A l \in 1 .. Len(k.ops) : k.ops[l] = Queue[d][w + l]
            /\ \A l \in 1 .. w + k.n : Settled(d, Queue[d][l])
      BY <1>1 DEF WellCalled, Window
    <3>2. i \in 1 .. Len(k.ops) /\ w + i \in 1 .. w + k.n
      BY <2>1, <1>2, <1>4
    <3>3. Settled(d, k.ops[i]) /\ k.ops[i] \in Ops
      BY <3>1, <3>2, <1>1 DEF CallType
    <3> QED
      BY <3>3, <1>2, <1>8 DEF Settled, SettledNext, Grows, OnRecord
  <2>2. CASE ~(i <= k.n)
    <3>1. i = k.n + 1 /\ (done \/ dead)
      BY <2>2, <1>2
    <3>2. k.ops[i] = Op(c)
      BY <3>1 DEF Op
    <3>3. CASE dead
      BY <3>2, <3>3, <1>9 DEF SettledNext
    <3>4. CASE done
      <4>1. k.out = "applied" \/ Unread(d, Op(c))
        BY <3>4, <1>1, <1>2, <1>6, DoneIsOnRecord DEF CallType
      <4>2. CASE k.out = "applied"
        <5>1. OnRecord(Op(c))
          BY <4>2, <1>1 DEF WellCalled, Op
        <5> QED
          BY <3>2, <5>1, <1>3 DEF SettledNext, OnRecord
      <4>3. CASE Unread(d, Op(c))
        <5>1. Op(c) \notin ToSet(outbox'[d])
          BY <3>2, <1>d
        <5> QED
          BY <3>2, <4>3, <5>1 DEF SettledNext, UnseenNext
      <4> QED
        BY <4>1, <4>2, <4>3
    <3> QED
      BY <3>1, <3>3, <3>4
  <2> QED
    BY <2>1, <2>2
<1> HIDE DEF gone, rest, done, dead
<1> DEFINE s == outbox[d]
           t == SubSeq(s, gone + 1, Len(s))
<1>11. t \in Seq(Ops) /\ Len(t) = Len(s) - gone /\ \A i \in 1 .. Len(t) : t[i] = s[gone + i]
  <2>1. s \in Seq(Ops) /\ gone <= Len(s)
    BY <1>2, <1>4, <1>5
  <2> HIDE DEF s
  <2> QED
    BY <1>4, <2>1, LeftOver
<1>12. outbox' \in [Tills -> Seq(Ops)] /\ outbox'[d] = t /\ \A e \in Tills \ {d} : outbox'[e] = outbox[e]
  BY <1>2, <1>3, <1>11, CallTyped DEF IInv
<1> HIDE DEF t
<1>13. call' \in [Calls -> CallType] /\ call'[c] = Free /\ \A b \in Calls \ {c} : call'[b] = call[b]
  BY <1>3, FreeFacts, CallTyped DEF IInv
<1>14. TypeOK'
  BY <1>3, <1>7, <1>12, <1>13, CallTyped, TypedNext DEF IInv
<1>15. Called'
  <2>1. {c} \in SUBSET Calls /\ \A b \in {c} : call'[b] = Free \/ WellCalled(b)'
    BY <1>13
  <2> QED
    BY <1>8, <1>13, <2>1, CalledKept
<1>16. Awaited'
  <2> SUFFICES ASSUME NEW e \in Tills, waiting'[e] # NoOne
               PROVE  LET r == call'[waiting'[e]] IN
                      /\ r.till = e /\ Len(r.ops) <= Len(outbox'[e])
                      /\ \A i \in 1 .. Len(r.ops) : r.ops[i] = outbox'[e][i]
    BY DEF Awaited
  <2>1. e # d /\ waiting'[e] = waiting[e] /\ waiting[e] \in Calls
    BY <1>2, <1>3, CallTyped DEF IInv
  <2>2. call[waiting[e]].till = e
    BY <2>1 DEF IInv, Awaited
  <2>3. call'[waiting[e]] = call[waiting[e]] /\ outbox'[e] = outbox[e]
    BY <2>1, <2>2, <1>12, <1>13
  <2> QED
    BY <2>1, <2>3 DEF IInv, Awaited
<1>17. Rest'
  <2> SUFFICES ASSUME NEW e \in Tills
               PROVE  /\ Len(outbox'[e]) <= Len(Queue[e])
                      /\ \A i \in 1 .. Len(outbox'[e]) :
                           outbox'[e][i] = Queue[e][Len(Queue[e]) - Len(outbox'[e]) + i]
                      /\ \A i \in 1 .. Len(Queue[e]) - Len(outbox'[e]) : SettledNext(e, Queue[e][i])
    BY DEF Rest, Settled, SettledNext, OnRecord, Unseen, UnseenNext
  <2> DEFINE q == Queue[e]
  <2>1. Len(q) \in Nat /\ Len(outbox[e]) \in Nat /\ Len(outbox[e]) <= Len(q)
    BY ReplayAssumption, CallTyped DEF IInv, Rest
  <2>2. \A i \in 1 .. Len(outbox[e]) : outbox[e][i] = q[Len(q) - Len(outbox[e]) + i]
    BY DEF IInv, Rest
  <2>3. \A i \in 1 .. Len(q) - Len(outbox[e]) : SettledNext(e, q[i])
    <3> SUFFICES ASSUME NEW i \in 1 .. Len(q) - Len(outbox[e]) PROVE SettledNext(e, q[i])
      OBVIOUS
    <3>1. Settled(e, q[i])
      BY DEF IInv, Rest
    <3>2. q[i] \in Ops
      BY <2>1, QueueInOps
    <3> QED
      BY <3>1, <3>2, <1>8 DEF Settled, SettledNext, Grows, OnRecord
  <2>4. CASE e # d
    BY <2>1, <2>2, <2>3, <2>4, <1>12
  <2>5. CASE e = d
    <3>1. Len(outbox'[e]) = Len(outbox[e]) - gone
      BY <2>5, <1>11, <1>12
    <3>0. gone <= Len(outbox[e])
      BY <2>5, <1>2, <1>4, <1>5
    <3>2. ASSUME NEW i \in 1 .. Len(outbox'[e])
          PROVE  outbox'[e][i] = q[Len(q) - Len(outbox'[e]) + i]
      <4>0. i \in Nat
        BY <3>1, <2>1, <1>4
      <4>1. gone + i \in 1 .. Len(outbox[e])
        BY <3>1, <2>1, <1>4
      <4>2. outbox'[e][i] = outbox[e][gone + i]
        BY <2>5, <1>11, <1>12
      <4>3. outbox[e][gone + i] = q[Len(q) - Len(outbox[e]) + (gone + i)]
        BY <4>1, <2>2
      <4>4. Len(q) - Len(outbox[e]) + (gone + i) = Len(q) - Len(outbox'[e]) + i
        <5> DEFINE lq == Len(q)
                   lb == Len(outbox[e])
        <5>1. lq \in Nat /\ lb \in Nat /\ lb <= lq /\ gone <= lb
          BY <3>0, <2>1
        <5> HIDE DEF lq, lb
        <5>2. lq - lb + (gone + i) = lq - (lb - gone) + i
          BY <5>1, <1>4, <4>0, Positions
        <5> QED
          BY <5>2, <3>1 DEF lq, lb
      <4> QED
        BY <4>2, <4>3, <4>4
    <3>3. ASSUME NEW i \in 1 .. Len(q) - Len(outbox'[e])
          PROVE  SettledNext(e, q[i])
      <4> DEFINE l == i - (Len(q) - Len(outbox[e]))
      <4>1. i \in Nat /\ i \in 1 .. Len(q) - (Len(outbox[e]) - gone)
        BY <3>1
      <4>2. /\ i \in 1 .. Len(q) - Len(outbox[e]) \/ l \in 1 .. gone
            /\ Len(q) - Len(outbox[e]) + l = i
        <5> DEFINE lq == Len(q)
                   lb == Len(outbox[e])
        <5>1. lq \in Nat /\ lb \in Nat /\ lb <= lq /\ gone <= lb /\ i \in 1 .. lq - (lb - gone)
          BY <4>1, <3>0, <2>1
        <5> HIDE DEF lq, lb
        <5>2. (i \in 1 .. lq - lb \/ i - (lq - lb) \in 1 .. gone) /\ lq - lb + (i - (lq - lb)) = i
          BY <5>1, <4>1, <1>4, Positions
        <5> QED
          BY <5>2 DEF lq, lb
      <4> HIDE DEF l
      <4>3. CASE i \in 1 .. Len(q) - Len(outbox[e])
        BY <4>3, <2>3
      <4>4. CASE l \in 1 .. gone
        <5>1. l \in 1 .. Len(outbox[e]) /\ l \in 1 .. Len(k.ops)
          BY <4>4, <3>0, <2>1, <1>2, <1>4
        <5>2. k.ops[l] = q[i]
          BY <5>1, <4>2, <2>2, <2>5, <1>5
        <5> QED
          BY <4>4, <5>2, <2>5, <1>10
      <4> QED
        BY <4>2, <4>3, <4>4
    <3>4. Len(outbox'[e]) <= Len(q)
      BY <3>1, <2>1, <1>4
    <3> QED
      BY <3>2, <3>3, <3>4
  <2> QED
    BY <2>4, <2>5
<1>18. AppliedOnce' /\ InOrder'
  BY <1>3, <1>8, OrderKept
<1> QED
  BY <1>14, <1>15, <1>16, <1>17, <1>18 DEF IInv

LEMMA DeliverInv ==
  ASSUME IInv, NEW c \in Calls, Deliver(c)
  PROVE  IInv'
<1>1. CASE waiting[call[c].till] # c
  BY <1>1, Unheard DEF Deliver, server, till
<1>2. CASE waiting[call[c].till] = c
  BY <1>2, HeardInv
<1> QED
  BY <1>1, <1>2

LEMMA StutterInv ==
  ASSUME IInv, UNCHANGED vars
  PROVE  IInv'
<1>1. UNCHANGED <<granted, applied, flagged, outbox, stuck, waiting, call, faults>>
  BY DEF vars, server, till
<1>2. {} \in SUBSET Calls
  OBVIOUS
<1> QED
  BY <1>1, <1>2, Forgotten, CallTyped, TypedNext DEF IInv

LEMMA NextInv == IInv /\ [Next]_vars => IInv'
<1> SUFFICES ASSUME IInv, [Next]_vars PROVE IInv'
  OBVIOUS
<1>1. CASE Regrant
  BY <1>1, RegrantInv
<1>2. CASE Crash
  BY <1>2, CrashInv
<1>3. ASSUME NEW d \in Tills, Send(d) PROVE IInv'
  BY <1>3, SendInv
<1>4. ASSUME NEW d \in Tills, TimeOut(d) PROVE IInv'
  BY <1>4, TimeOutInv
<1>5. ASSUME NEW c \in Calls, Serve(c) PROVE IInv'
  BY <1>5, JudgeInv, LookInv, CommitInv, RecordFlagsInv, DeliverInv DEF Serve
<1>6. ASSUME NEW c \in Calls, Transient(c) PROVE IInv'
  BY <1>6, TransientInv
<1>7. ASSUME NEW c \in Calls, Dropped(c) PROVE IInv'
  BY <1>7, DroppedInv
<1>8. CASE UNCHANGED vars
  BY <1>8, StutterInv
<1> QED
  BY <1>1, <1>2, <1>3, <1>4, <1>5, <1>6, <1>7, <1>8 DEF Next

\* The inductive invariant holds in every reachable state.
THEOREM ReplayInvariant == Spec => []IInv
<1>1. Init => IInv
  BY InitInv
<1>2. IInv /\ [Next]_vars => IInv'
  BY NextInv
<1> QED
  BY <1>1, <1>2, PTL DEF Spec

-----------------------------------------------------------------------------
(* The results.                                                            *)

\* Whatever the tills send, the server keeps its records and the tills their
\* queues in the types declared.
THEOREM ReplayTypes == Spec => []TypeOK
<1>1. IInv => TypeOK
  BY DEF IInv
<1> QED
  BY <1>1, ReplayInvariant, PTL

\* replay: an operation is applied once, however often its till and its peers
\* send it, whenever a request dies, and whatever is retried.
THEOREM OperationAppliedOnce == Spec => []AppliedOnce
<1>1. IInv => AppliedOnce
  BY DEF IInv
<1> QED
  BY <1>1, ReplayInvariant, PTL

\* replay, for_old_till: what a till no longer has queued is on the server, or
\* on its list of refused operations; an old till may have let go of one whose
\* refusal is a conflict that is not listed.
THEOREM NoOperationLost == Spec => []NothingLost
<1>1. IInv => NothingLost
  <2> SUFFICES ASSUME IInv, NEW d \in Tills, NEW o \in OpsOf(d)
               PROVE  o \in ToSet(outbox[d]) \/ Settled(d, o)
    BY DEF NothingLost, Settled
  <2> DEFINE g == Len(Queue[d]) - Len(outbox[d])
  <2>1. /\ Len(Queue[d]) \in Nat /\ DOMAIN Queue[d] = 1 .. Len(Queue[d])
        /\ Len(outbox[d]) \in Nat /\ DOMAIN outbox[d] = 1 .. Len(outbox[d])
        /\ Len(outbox[d]) <= Len(Queue[d])
    BY ReplayAssumption, CallTyped DEF IInv, Rest
  <2>2. PICK i \in 1 .. Len(Queue[d]) : o = Queue[d][i]
    BY <2>1 DEF OpsOf, ToSet
  <2>3. (i \in 1 .. g \/ i - g \in 1 .. Len(outbox[d])) /\ g + (i - g) = i
    <3> DEFINE lq == Len(Queue[d])
               lb == Len(outbox[d])
    <3>1. lq \in Nat /\ lb \in Nat /\ lb <= lq /\ i \in 1 .. lq
      BY <2>1
    <3> HIDE DEF lq, lb
    <3>2. (i \in 1 .. lq - lb \/ i - (lq - lb) \in 1 .. lb) /\ lq - lb + (i - (lq - lb)) = i
      BY <3>1, Positions
    <3> QED
      BY <3>2 DEF lq, lb
  <2>4. CASE i \in 1 .. g
    BY <2>2, <2>4 DEF IInv, Rest
  <2>5. CASE i - g \in 1 .. Len(outbox[d])
    <3>1. outbox[d][i - g] = Queue[d][g + (i - g)]
      BY <2>5 DEF IInv, Rest
    <3> QED
      BY <2>1, <2>2, <2>3, <2>5, <3>1 DEF ToSet
  <2> QED
    BY <2>3, <2>4, <2>5
<1> QED
  BY <1>1, ReplayInvariant, PTL

\* replay_batch: a till's operations are applied in the order it queued them,
\* but for those refused and those an old till let go of unread, whatever is lost
\* or sent twice.
THEOREM OperationsInOrder == Spec => []InOrder
<1>1. IInv => InOrder
  BY DEF IInv
<1> QED
  BY <1>1, ReplayInvariant, PTL

-----------------------------------------------------------------------------
(* Replay implements ReplayContract.                                       *)

\* What a request has gone past is on record: a till told that its first n
\* operations are done may forget them.
Acknowledged ==
  \A c \in Calls : \A i \in 1 .. call[c].n : OnRecord(call[c].ops[i])

LEMMA AcknowledgedInit == Init => Acknowledged
<1> SUFFICES ASSUME Init, NEW c \in Calls, NEW i \in 1 .. call[c].n
             PROVE  OnRecord(call[c].ops[i])
  BY DEF Acknowledged
<1>1. call[c].n = 0
  BY DEF Init, Free, Call
<1> QED
  BY <1>1

\* Only the landing of an operation changes the records, by one for a free key.
LEMMA RecordSteps ==
  ASSUME Next, applied' # applied
  PROVE  \E c \in Calls : Commit(c) /\ KeyIsFree(Op(c)) /\ Applicable(Op(c))
<1>1. ASSUME NEW d \in Tills, Send(d) \/ TimeOut(d) PROVE applied' = applied
  BY <1>1 DEF Send, TimeOut, server
<1>2. Regrant \/ Crash => applied' = applied
  BY DEF Regrant, Crash, server
<1>3. ASSUME NEW c \in Calls, Judge(c) \/ Look(c) \/ Transient(c) \/ Dropped(c)
      PROVE  applied' = applied
  BY <1>3 DEF Judge, Look, Transient, Dropped, server
<1>4. ASSUME NEW c \in Calls, RecordFlags(c) \/ Deliver(c) PROVE applied' = applied
  BY <1>4 DEF RecordFlags, Deliver, server
<1>5. ASSUME NEW c \in Calls, Commit(c), ~(KeyIsFree(Op(c)) /\ Applicable(Op(c)))
      PROVE  applied' = applied
  BY <1>5 DEF Commit
<1> QED
  BY <1>1, <1>2, <1>3, <1>4, <1>5 DEF Next, Serve

LEMMA RecordsStay ==
  ASSUME IInv, Next
  PROVE  \A o \in Ops : OnRecord(o) => applied'[o] > 0
<1>1. applied \in [Ops -> Nat]
  BY CallTyped DEF IInv
<1>2. CASE applied' = applied
  BY <1>2 DEF OnRecord
<1>3. ASSUME NEW c \in Calls, Commit(c), KeyIsFree(Op(c)), Applicable(Op(c))
      PROVE  \A o \in Ops : OnRecord(o) => applied'[o] > 0
  <2>1. applied' = [applied EXCEPT ![Op(c)] = @ + 1]
    BY <1>3 DEF Commit
  <2> QED
    BY <1>1, <2>1 DEF OnRecord
<1> QED
  BY <1>2, <1>3, RecordSteps

\* A request stays where it is, starts over, or goes one operation on, when
\* that one is recorded.
LEMMA RequestSteps ==
  ASSUME IInv, Next, NEW c \in Calls
  PROVE  \/ call'[c].n = 0
         \/ call'[c].ops = call[c].ops /\ call'[c].n = call[c].n
         \/ /\ call'[c].ops = call[c].ops /\ call'[c].n = call[c].n + 1
            /\ call[c].pc = "flag"
<1>0. call \in [Calls -> CallType] /\ Free.n = 0
  BY CallTyped DEF IInv, Free, Call
<1>1. CASE call' = call
  BY <1>1
<1>2. ASSUME NEW d \in Tills, Send(d)
      PROVE  call'[c] = call[c] \/ call'[c].n = 0
  BY <1>0, <1>2 DEF Send, Call
<1>3. CASE Crash
  BY <1>0, <1>3 DEF Crash
<1>4. ASSUME NEW b \in Calls, Dropped(b) \/ Deliver(b)
      PROVE  call'[c] = call[c] \/ call'[c].n = 0
  BY <1>0, <1>4 DEF Dropped, Deliver
<1>5. ASSUME NEW b \in Calls, NEW pc \in Pcs, Goto(b, pc)
      PROVE  call'[c].ops = call[c].ops /\ call'[c].n = call[c].n
  BY <1>0, <1>5 DEF Goto, CallType
<1>6. ASSUME NEW b \in Calls, NEW out \in Outs, Finish(b, out), out # "ok"
      PROVE  call'[c].ops = call[c].ops /\ call'[c].n = call[c].n
  BY <1>0, <1>6 DEF Finish, AfterOp, CallType
<1>7. ASSUME NEW b \in Calls, RecordFlags(b)
      PROVE  \/ call'[c] = call[c]
             \/ /\ call'[c].ops = call[c].ops /\ call'[c].n = call[c].n + 1
                /\ call[c].pc = "flag"
  <2>1. Finish(b, "ok") /\ call[b].pc = "flag"
    BY <1>7 DEF RecordFlags, At
  <2>2. AfterOp(b, "ok").ops = call[b].ops /\ AfterOp(b, "ok").n = call[b].n + 1
    BY <1>0 DEF AfterOp, CallType
  <2> QED
    BY <1>0, <2>1, <2>2 DEF Finish
<1>8. ASSUME NEW b \in Calls, Judge(b) \/ Transient(b)
      PROVE  call'[c].ops = call[c].ops /\ call'[c].n = call[c].n
  <2>1. CASE Finish(b, "forbidden") \/ Finish(b, "failed")
    BY <2>1, <1>6 DEF Outs
  <2>2. CASE call' = [call EXCEPT ![b].pc = "look", ![b].flag = ~granted]
    BY <1>0, <2>2 DEF CallType
  <2>3. CASE call' = [call EXCEPT ![b].pc = "judge", ![b].flag = FALSE, ![b].tries = @ + 1]
    BY <1>0, <2>3 DEF CallType
  <2> QED
    BY <1>8, <2>1, <2>2, <2>3 DEF Judge, Transient
<1>9. ASSUME NEW b \in Calls, Look(b) \/ Commit(b)
      PROVE  call'[c].ops = call[c].ops /\ call'[c].n = call[c].n
  <2>1. \/ Goto(b, "flag") \/ Goto(b, "commit")
        \/ Finish(b, "applied") \/ Finish(b, "refused")
    BY <1>9 DEF Look, Commit
  <2> QED
    BY <2>1, <1>5, <1>6 DEF Pcs, Outs
<1>10. ASSUME NEW d \in Tills, TimeOut(d) PROVE call' = call
  BY <1>10 DEF TimeOut
<1>11. Regrant => call' = call
  BY DEF Regrant
<1> QED
  BY <1>1, <1>2, <1>3, <1>4, <1>7, <1>8, <1>9, <1>10, <1>11 DEF Next, Serve

LEMMA AcknowledgedStep == IInv /\ Acknowledged /\ [Next]_vars => Acknowledged'
<1> SUFFICES ASSUME IInv, Acknowledged, [Next]_vars, NEW c \in Calls, NEW i \in 1 .. call'[c].n
             PROVE  applied'[call'[c].ops[i]] > 0
  BY DEF Acknowledged, OnRecord
<1>1. CASE UNCHANGED vars
  BY <1>1 DEF vars, server, Acknowledged, OnRecord
<1>2. CASE Next
  <2>0. call[c] \in CallType
    BY CallTyped DEF IInv
  <2>1. call'[c].n # 0
    OBVIOUS
  <2>2. ASSUME i \in 1 .. call[c].n
        PROVE  OnRecord(call[c].ops[i]) /\ call[c].ops[i] \in Ops
    <3>1. call[c].n > 0 /\ call[c] # Free
      BY <2>0, <2>2 DEF CallType, Free, Call
    <3>2. i \in 1 .. Len(call[c].ops)
      BY <2>0, <2>2, <3>1 DEF IInv, Called, WellCalled, CallType
    <3> QED
      BY <2>0, <2>2, <3>2 DEF Acknowledged, CallType
  <2>3. CASE call'[c].ops = call[c].ops /\ call'[c].n = call[c].n
    BY <1>2, <2>2, <2>3, RecordsStay
  <2>4. CASE call'[c].ops = call[c].ops /\ call'[c].n = call[c].n + 1 /\ call[c].pc = "flag"
    <3>1. CASE i \in 1 .. call[c].n
      BY <1>2, <2>2, <2>4, <3>1, RecordsStay
    <3>2. CASE i \notin 1 .. call[c].n
      <4>1. i = call[c].n + 1
        BY <2>0, <2>4, <3>2 DEF CallType
      <4>2. OnRecord(Op(c)) /\ Op(c) \in Ops
        BY <2>4, Busy DEF WellCalled, Op
      <4> QED
        BY <1>2, <2>4, <4>1, <4>2, RecordsStay DEF Op
    <3> QED
      BY <3>1, <3>2
  <2> QED
    BY <1>2, <2>1, <2>3, <2>4, RequestSteps
<1> QED
  BY <1>1, <1>2

LEMMA ContractInit == Init => Contract!Init
  BY DEF Init, Contract!Init

\* What is unseen is so to the contract.
LEMMA ContractUnseen == \A d, o : Contract!Unseen(d, o) <=> Unseen(d, o)
  BY DEF Unseen, Unread, ToSet, Contract!Unseen, Contract!Unread, Contract!ToSet

\* The step that applies an operation is its landing, in its turn.
LEMMA CommitLands ==
  ASSUME IInv, NEW c \in Calls, Commit(c), KeyIsFree(Op(c)), Applicable(Op(c))
  PROVE  \E o \in Ops : Contract!Land(o)
<1> DEFINE o == Op(c)
           k == call[c]
<1>1. WellCalled(c) /\ o \in Ops /\ k \in CallType
  BY Busy DEF Commit, At, WellCalled
<1>2. applied \in [Ops -> Nat] /\ applied[o] = 0
  BY <1>1, CallTyped DEF IInv, KeyIsFree, OnRecord
<1>3. applied' = [applied EXCEPT ![o] = 1] /\ UNCHANGED <<outbox, stuck>>
  BY <1>2 DEF Commit, till
<1>4. Contract!InTurn(k.till, o)
  <2>1. PICK w \in Nat :
          /\ w + Len(k.ops) <= Len(Queue[k.till])
          /\ \A l \in 1 .. Len(k.ops) : k.ops[l] = Queue[k.till][w + l]
          /\ \A l \in 1 .. w + k.n : Settled(k.till, Queue[k.till][l])
    BY <1>1 DEF WellCalled, Window
  <2>2. k.till \in Tills /\ k.n \in Nat /\ k.n < Len(k.ops) /\ Len(k.ops) \in Nat
    BY <1>1 DEF WellCalled, CallType, Commit, At
  <2>3. Len(Queue[k.till]) \in Nat /\ DOMAIN Queue[k.till] = 1 .. Len(Queue[k.till])
    BY <2>2, ReplayAssumption
  <2>4. k.n + 1 \in 1 .. Len(k.ops) /\ w + (k.n + 1) \in DOMAIN Queue[k.till]
    <3>1. k.n + 1 \in 1 .. Len(k.ops)
      BY <2>2
    <3>2. w + (k.n + 1) \in 1 .. Len(Queue[k.till])
      BY <2>1, <2>2, <2>3
    <3> QED
      BY <2>3, <3>1, <3>2
  <2>5. Queue[k.till][w + (k.n + 1)] = o
    BY <2>1, <2>4 DEF Op
  <2>6. \A j \in 1 .. w + (k.n + 1) - 1 : j \in 1 .. w + k.n
    BY <2>2
  <2>7. \A j \in 1 .. w + (k.n + 1) - 1 :
          \/ Contract!HasLanded(Queue[k.till][j]) \/ Queue[k.till][j] \in stuck[k.till]
          \/ Contract!Unseen(k.till, Queue[k.till][j])
    BY <2>1, <2>6, ContractUnseen DEF Settled, OnRecord, Contract!HasLanded
  <2> QED
    BY <2>4, <2>5, <2>7 DEF Contract!InTurn
<1>5. k.till \in Tills
  BY <1>1 DEF WellCalled
<1> HIDE DEF o
<1>6. Contract!Land(o)
  <2>1. ~Contract!HasLanded(o)
    BY <1>2 DEF Contract!HasLanded
  <2>2. /\ \A p \in Needs[o] : Contract!HasLanded(p)
        /\ \A p \in Bars[o] : ~Contract!HasLanded(p)
    BY DEF o, Applicable, OnRecord, Contract!HasLanded
  <2> QED
    BY <1>3, <1>4, <1>5, <2>1, <2>2 DEF Contract!Land
<1> QED
  BY <1>1, <1>6 DEF o

\* The answer a till waits for lets it go of what has landed, and of at most
\* one operation refused, which an old till may take for landed.
LEMMA DeliverLetsGo ==
  ASSUME IInv, Acknowledged, NEW c \in Calls, Deliver(c), waiting[call[c].till] = c
  PROVE  \E d \in Tills : Contract!LetGo(d)
<1> DEFINE k == call[c]
           d == k.till
           rest == k.n + 1 <= Len(k.ops)
           done == rest /\ TakenForDone(d, Op(c), k.out)
           dead == rest /\ ~done /\ Status(d, Op(c), k.out) < 500
           gone == IF done \/ dead THEN k.n + 1 ELSE k.n
<1>1. WellCalled(c) /\ k \in CallType /\ k.pc # "free"
  BY Busy DEF Deliver, At
<1>2. /\ d \in Tills /\ k.n \in Nat /\ Len(k.ops) \in Nat /\ k.n <= Len(k.ops)
      /\ Len(outbox[d]) \in Nat /\ d # NoOne /\ c # NoOne
  BY <1>1, CallTyped, ReplayAssumption DEF WellCalled, CallType, IInv
<1>3. /\ outbox' = [outbox EXCEPT ![d] = SubSeq(@, gone + 1, Len(@))]
      /\ stuck' = [stuck EXCEPT ![d] = IF dead THEN @ \cup {Op(c)} ELSE @]
      /\ applied' = applied
  BY DEF Deliver, server
<1>4. Len(k.ops) <= Len(outbox[d]) /\ \A i \in 1 .. Len(k.ops) : k.ops[i] = outbox[d][i]
  BY <1>2 DEF IInv, Awaited
<1>5. \A i \in 1 .. k.n : Contract!HasLanded(outbox[d][i])
  <2>1. \A i \in 1 .. k.n : i \in 1 .. Len(k.ops) /\ OnRecord(k.ops[i])
    BY <1>2 DEF Acknowledged
  <2> QED
    BY <1>4, <2>1 DEF OnRecord, Contract!HasLanded
<1>6. rest => k.n < Len(outbox[d]) /\ outbox[d][k.n + 1] = Op(c)
  <2>1. rest => k.n + 1 \in 1 .. Len(k.ops)
    BY <1>2
  <2> QED
    BY <1>2, <1>4, <2>1 DEF Op
<1>7. done => OnRecord(Op(c)) \/ Unread(d, Op(c))
  <2>1. rest => Op(c) \in Ops
    BY <1>1, <1>2, Busy
  <2>2. k.out = "applied" => OnRecord(Op(c))
    BY <1>1 DEF WellCalled, Op
  <2> QED
    BY <1>1, <1>2, <2>1, <2>2, DoneIsOnRecord DEF CallType
<1>8. stuck \in [Tills -> SUBSET Ops]
  BY CallTyped DEF IInv
<1>9. CASE dead
  <2>1. gone + 1 = k.n + 2
    BY <1>2, <1>9
  <2>2. outbox' = [outbox EXCEPT ![d] = SubSeq(@, k.n + 2, Len(@))]
    BY <1>3, <2>1
  <2>3. stuck' = [stuck EXCEPT ![d] = @ \cup {outbox[d][k.n + 1]}] /\ k.n < Len(outbox[d])
    BY <1>3, <1>6, <1>9
  <2>4. k.n \in 0 .. Len(outbox[d])
    BY <1>2, <2>3
  <2> HIDE DEF k, d
  <2> QED
    BY <1>2, <1>3, <1>5, <2>2, <2>3, <2>4 DEF Contract!LetGo
<1>10. CASE ~dead /\ (done => OnRecord(Op(c)))
  <2>1. stuck' = stuck
    BY <1>3, <1>8, <1>10
  <2>2. gone \in 0 .. Len(outbox[d])
    BY <1>2, <1>4, <1>6
  <2>3. \A i \in 1 .. gone : Contract!HasLanded(outbox[d][i])
    <3>1. CASE done
      <4>1. Contract!HasLanded(outbox[d][k.n + 1])
        BY <1>6, <1>10, <3>1 DEF OnRecord, Contract!HasLanded
      <4>2. \A i \in 1 .. k.n + 1 : i \in 1 .. k.n \/ i = k.n + 1
        BY <1>2
      <4> QED
        BY <1>5, <3>1, <4>1, <4>2
    <3>2. CASE ~done
      BY <1>5, <1>10, <3>2
    <3> QED
      BY <3>1, <3>2
  <2> HIDE DEF k, d, gone, dead
  <2> QED
    BY <1>2, <1>3, <2>1, <2>2, <2>3 DEF Contract!LetGo
<1>11. CASE done /\ Unread(d, Op(c))
  <2>1. stuck' = stuck
    BY <1>3, <1>8, <1>11
  <2>2. gone + 1 = k.n + 2
    BY <1>2, <1>11
  <2>3. outbox' = [outbox EXCEPT ![d] = SubSeq(@, k.n + 2, Len(@))]
    BY <1>3, <2>2
  <2>4. k.n < Len(outbox[d]) /\ Contract!Unread(d, outbox[d][k.n + 1])
    BY <1>6, <1>11 DEF Unread, Contract!Unread
  <2>5. k.n \in 0 .. Len(outbox[d])
    BY <1>2, <2>4
  <2> HIDE DEF k, d, done
  <2> QED
    BY <1>2, <1>3, <1>5, <2>1, <2>3, <2>4, <2>5 DEF Contract!LetGo
<1> QED
  BY <1>7, <1>9, <1>10, <1>11

LEMMA StepImplements ==
  ASSUME IInv, Acknowledged, [Next]_vars
  PROVE  [Contract!Next]_(Contract!vars)
<1>1. ASSUME NEW c \in Calls, Deliver(c)
      PROVE  [Contract!Next]_(Contract!vars)
  <2>1. CASE waiting[call[c].till] = c
    BY <1>1, <2>1, DeliverLetsGo DEF Contract!Next
  <2>2. CASE waiting[call[c].till] # c
    BY <1>1, <2>2 DEF Deliver, server, till, Contract!vars
  <2> QED
    BY <2>1, <2>2
<1>2. ASSUME NEW c \in Calls, Commit(c)
      PROVE  [Contract!Next]_(Contract!vars)
  <2>1. CASE KeyIsFree(Op(c)) /\ Applicable(Op(c))
    BY <1>2, <2>1, CommitLands DEF Contract!Next
  <2>2. CASE ~(KeyIsFree(Op(c)) /\ Applicable(Op(c)))
    BY <1>2, <2>2 DEF Commit, till, Contract!vars
  <2> QED
    BY <2>1, <2>2
<1>3. ASSUME NEW c \in Calls, Judge(c) \/ Look(c) \/ RecordFlags(c) \/ Transient(c) \/ Dropped(c)
      PROVE  UNCHANGED Contract!vars
  BY <1>3 DEF Judge, Look, RecordFlags, Transient, Dropped, server, till, Contract!vars
<1>4. ASSUME NEW d \in Tills, Send(d) \/ TimeOut(d) PROVE UNCHANGED Contract!vars
  BY <1>4 DEF Send, TimeOut, server, Contract!vars
<1>5. Regrant \/ Crash => UNCHANGED Contract!vars
  BY DEF Regrant, Crash, server, till, Contract!vars
<1>6. CASE UNCHANGED vars
  BY <1>6 DEF vars, server, till, Contract!vars
<1> QED
  BY <1>1, <1>2, <1>3, <1>4, <1>5, <1>6 DEF Next, Serve

\* replay, replay_batch: the protocol of requests, batches, attempts and
\* time-outs implements the contract, step by step.
THEOREM ReplayImplements == Spec => DeliversAsPromised
<1>1. Init => IInv /\ Acknowledged /\ Contract!Init
  BY InitInv, AcknowledgedInit, ContractInit
<1>2. IInv /\ Acknowledged /\ [Next]_vars
        => IInv' /\ Acknowledged' /\ [Contract!Next]_(Contract!vars)
  BY NextInv, AcknowledgedStep, StepImplements
<1> QED
  BY <1>1, <1>2, PTL DEF Spec, DeliversAsPromised, Contract!Spec
=============================================================================
