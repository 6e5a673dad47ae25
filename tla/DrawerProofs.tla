---------------------------- MODULE DrawerProofs ----------------------------
(***************************************************************************)
(* Proofs about Drawer, for every number of tills, sales, movements,       *)
(* refunds and concurrent requests: nothing is left out of a closed        *)
(* drawer, a correction applies once, refunds stay within the sale, and    *)
(* the first close of a till stands.                                       *)
(*                                                                         *)
(* The invariant says what a request knows from the moment it holds its    *)
(* till's lock: the till it read is still as it read it when it commits.   *)
(***************************************************************************)
EXTENDS Drawer, TLAPS

\* A request names what it works on and, to be locked, that thing's till.
WellAsked(r) ==
  \/ r = Idle
  \/ /\ r.op = "sale" /\ r.pc \in {"lock", "commit"} /\ r.who \in {"live", "replay"}
     /\ r.x \in Sales /\ r.till = SaleTill[r.x]
  \/ /\ r.op = "move" /\ r.pc \in {"lock", "commit"}
     /\ r.x \in Moves /\ r.till = MoveTill[r.x]
  \/ /\ r.op = "refund" /\ r.pc \in {"lock", "row", "wait", "commit"}
     /\ r.x \in Refunds /\ r.till = RefundTill[r.x]
     /\ r.who = IF r.x \in Queued THEN "replay" ELSE "live"
  \/ r.op = "void" /\ r.pc = "commit" /\ r.x \in sold /\ r.till = NoTill
  \/ r.op = "delete" /\ r.pc = "commit" /\ r.x \in Tills /\ r.till = NoTill
  \/ r.op \in {"closed", "force_closed"} /\ r.pc \in {"lock", "last", "commit"} /\ r.till \in Tills

Asked == \A w \in Workers : WellAsked(req[w])

\* One request at a time holds a till.
Exclusive ==
  \A v, w \in Workers, t \in Tills : HoldsTill(v, t) /\ HoldsTill(w, t) => v = w

\* What a request read under the lock still holds.
Knows(r) ==
  /\ r.op = "sale" /\ r.pc = "commit" => (r.saw <=> ~StillOpen(r.till))
  /\ r.op = "move" /\ r.pc = "commit" => StillOpen(r.till) /\ MayCorrect(r.x)
  /\ r.op = "refund" /\ r.pc \in {"row", "wait", "commit"} /\ r.x \notin Queued => StillOpen(r.till)
  /\ r.op \in {"closed", "force_closed"} /\ r.pc \in {"last", "commit"} => StillOpen(r.till)

UnderLock == \A w \in Workers : Knows(req[w])

IInv ==
  /\ TypeOK /\ Asked /\ Exclusive /\ UnderLock
  /\ NothingLeftOut /\ RefundsWithinSale /\ CorrectedOnce /\ VoidedOnce

-----------------------------------------------------------------------------
(* The three ways a request moves.                                         *)

LEMMA AskFacts ==
  ASSUME TypeOK, NEW w \in Workers, NEW op \in Ops, NEW pc \in {"idle", "lock", "last", "row", "wait", "commit"},
         NEW x \in AllRows \cup Tills \cup {NoTill}, NEW t \in Tills \cup {NoTill},
         NEW who \in {"live", "replay", "teller", "manager"}, Ask(w, op, pc, x, t, who)
  PROVE  /\ req' \in [Workers -> Requests]
         /\ req'[w] = Job(op, pc, x, t, who, FALSE)
         /\ \A v \in Workers \ {w} : req'[v] = req[v]
  BY DEF TypeOK, Ask, Job, Requests

LEMMA GotoFacts ==
  ASSUME TypeOK, NEW w \in Workers, NEW pc \in {"idle", "lock", "last", "row", "wait", "commit"},
         NEW saw \in BOOLEAN, Goto(w, pc, saw)
  PROVE  /\ req' \in [Workers -> Requests]
         /\ req'[w].op = req[w].op /\ req'[w].x = req[w].x /\ req'[w].till = req[w].till
         /\ req'[w].who = req[w].who /\ req'[w].pc = pc /\ req'[w].saw = saw
         /\ \A v \in Workers \ {w} : req'[v] = req[v]
  BY DEF TypeOK, Goto, Job, Requests

LEMMA AnswerFacts ==
  ASSUME TypeOK, NEW w \in Workers, Answer(w)
  PROVE  /\ req' \in [Workers -> Requests] /\ req'[w] = Idle
         /\ \A v \in Workers \ {w} : req'[v] = req[v]
  BY DEF TypeOK, Answer, Requests, Idle, Job, Ops, AllRows

-----------------------------------------------------------------------------
(* Init.                                                                   *)

LEMMA InvInit == Init => IInv
<1> SUFFICES ASSUME Init PROVE IInv
  OBVIOUS
<1> USE DrawerAssumption DEF Init
<1>1. TypeOK
  BY DEF TypeOK, Statuses, Methods, Requests, Idle, Job, Ops, AllRows
<1>2. Asked /\ Exclusive /\ UnderLock
  BY DEF Asked, WellAsked, Exclusive, HoldsTill, UnderLock, Knows, Idle, Job
<1>3. NothingLeftOut /\ RefundsWithinSale /\ CorrectedOnce /\ VoidedOnce
  BY DEF NothingLeftOut, StillOpen, RefundsWithinSale, CorrectedOnce, VoidedOnce
<1> QED
  BY <1>1, <1>2, <1>3 DEF IInv

-----------------------------------------------------------------------------
(* Steps that change no row.                                               *)

\* Such a step of w keeps the invariant when w's request is sound after it
\* and w takes no lock another request holds.
LEMMA QuietStep ==
  ASSUME IInv, NEW w \in Workers, UNCHANGED <<tillRows, ledger, screen, frozen>>,
         req' \in [Workers -> Requests], \A v \in Workers \ {w} : req'[v] = req[v],
         WellAsked(req[w])', Knows(req[w])',
         \A t \in Tills : HoldsTill(w, t)' => HoldsTill(w, t) \/ TillIsFree(t)
  PROVE  IInv'
<1> USE DEF IInv, tillRows, ledger, frozen
<1>1. TypeOK'
  BY DEF TypeOK
<1>2. Asked'
  <2> SUFFICES ASSUME NEW v \in Workers PROVE WellAsked(req[v])'
    BY DEF Asked
  <2>1. CASE v = w
    BY <2>1
  <2>2. CASE v # w
    <3>1. req'[v] = req[v] /\ WellAsked(req[v])
      BY <2>2 DEF Asked
    <3> QED
      BY <3>1 DEF WellAsked
  <2> QED
    BY <2>1, <2>2
<1>3. Exclusive'
  <2>1. \A v \in Workers \ {w}, t \in Tills : HoldsTill(v, t)' <=> HoldsTill(v, t)
    BY DEF HoldsTill
  <2>2. \A v \in Workers, t \in Tills : HoldsTill(w, t)' /\ HoldsTill(v, t)' => v = w
    <3> SUFFICES ASSUME NEW v \in Workers, NEW t \in Tills, HoldsTill(w, t)', HoldsTill(v, t)', v # w
                 PROVE  FALSE
      OBVIOUS
    <3>1. HoldsTill(v, t)
      BY <2>1
    <3>2. HoldsTill(w, t) \/ TillIsFree(t)
      OBVIOUS
    <3> QED
      BY <3>1, <3>2 DEF Exclusive, TillIsFree
  <2> QED
    BY <2>1, <2>2 DEF Exclusive
<1>4. UnderLock'
  <2> SUFFICES ASSUME NEW v \in Workers PROVE Knows(req[v])'
    BY DEF UnderLock
  <2>1. CASE v = w
    BY <2>1
  <2>2. CASE v # w
    <3>1. req'[v] = req[v] /\ Knows(req[v])
      BY <2>2 DEF UnderLock
    <3> QED
      BY <3>1 DEF Knows, StillOpen, MayCorrect, Corrected
  <2> QED
    BY <2>1, <2>2
<1>5. (NothingLeftOut /\ RefundsWithinSale /\ CorrectedOnce /\ VoidedOnce)'
  BY DEF NothingLeftOut, StillOpen, Taken, RefundsWithinSale, CorrectedOnce, VoidedOnce
<1> QED
  BY <1>1, <1>2, <1>3, <1>4, <1>5

\* A request answered leaves the others' requests sound and lets its locks go.
LEMMA Answered ==
  ASSUME IInv, NEW w \in Workers, Answer(w), sold \subseteq sold'
  PROVE  /\ req' \in [Workers -> Requests] /\ req'[w] = Idle
         /\ \A v \in Workers \ {w} : req'[v] = req[v]
         /\ Asked' /\ Exclusive'
<1> USE DEF IInv
<1>1. req' \in [Workers -> Requests] /\ req'[w] = Idle /\ \A v \in Workers \ {w} : req'[v] = req[v]
  BY AnswerFacts
<1>2. Asked'
  <2> SUFFICES ASSUME NEW v \in Workers PROVE WellAsked(req[v])'
    BY DEF Asked
  <2>1. CASE v = w
    BY <1>1, <2>1 DEF WellAsked
  <2>2. CASE v # w
    <3>1. req'[v] = req[v] /\ WellAsked(req[v])
      BY <1>1, <2>2 DEF Asked
    <3> QED
      BY <3>1 DEF WellAsked
  <2> QED
    BY <2>1, <2>2
<1>3. \A t \in Tills : ~HoldsTill(w, t)'
  BY <1>1 DEF HoldsTill, Idle, Job
<1>4. \A v \in Workers \ {w}, t \in Tills : HoldsTill(v, t)' <=> HoldsTill(v, t)
  BY <1>1 DEF HoldsTill
<1> QED
  BY <1>1, <1>2, <1>3, <1>4 DEF Exclusive

\* What the other requests know survives when no till and no movement changes.
LEMMA StillKnown ==
  ASSUME IInv, NEW w \in Workers, Answer(w), UNCHANGED <<status, moved>>
  PROVE  UnderLock'
<1> USE DEF IInv
<1>1. req'[w] = Idle /\ \A v \in Workers \ {w} : req'[v] = req[v]
  BY AnswerFacts
<1> SUFFICES ASSUME NEW v \in Workers PROVE Knows(req[v])'
  BY DEF UnderLock
<1>2. CASE v = w
  BY <1>1, <1>2 DEF Knows, Idle, Job
<1>3. CASE v # w
  <2>1. req'[v] = req[v] /\ Knows(req[v])
    BY <1>1, <1>3 DEF UnderLock
  <2> QED
    BY <2>1 DEF Knows, StillOpen, MayCorrect, Corrected
<1> QED
  BY <1>2, <1>3

LEMMA AnswerQuietly ==
  ASSUME IInv, NEW w \in Workers, Answer(w), UNCHANGED <<tillRows, ledger, screen, frozen>>
  PROVE  IInv'
<1>1. /\ req' \in [Workers -> Requests] /\ req'[w] = Idle
      /\ \A v \in Workers \ {w} : req'[v] = req[v]
  BY AnswerFacts DEF IInv
<1>2. WellAsked(req[w])' /\ Knows(req[w])' /\ \A t \in Tills : ~HoldsTill(w, t)'
  BY <1>1 DEF WellAsked, Knows, HoldsTill, Idle, Job
<1> QED
  BY <1>1, <1>2, QuietStep

-----------------------------------------------------------------------------
(* Asking: the request names its till and holds nothing.                   *)

LEMMA AskQuietly ==
  ASSUME IInv, NEW w \in Workers, UNCHANGED <<tillRows, ledger, screen, frozen>>,
         NEW op \in Ops, NEW pc \in {"lock", "commit"}, NEW x \in AllRows \cup Tills,
         NEW t \in Tills \cup {NoTill}, NEW who \in {"live", "replay", "teller", "manager"},
         Ask(w, op, pc, x, t, who),
         pc = "commit" => t = NoTill /\ op \in {"void", "delete"},
         WellAsked(Job(op, pc, x, t, who, FALSE))
  PROVE  IInv'
<1> DEFINE j == Job(op, pc, x, t, who, FALSE)
<1>1. /\ req' \in [Workers -> Requests] /\ req'[w] = j
      /\ \A v \in Workers \ {w} : req'[v] = req[v]
  BY DEF IInv, TypeOK, Ask, Job, Requests
<1>2. WellAsked(req[w])'
  BY <1>1 DEF WellAsked, ledger
<1>3. Knows(req[w])' /\ \A u \in Tills : ~HoldsTill(w, u)'
  BY <1>1, DrawerAssumption DEF Knows, HoldsTill, Job
<1> QED
  BY <1>1, <1>2, <1>3, QuietStep

LEMMA AskSaleInv == ASSUME IInv, NEW w \in Workers, AskSale(w) PROVE IInv'
<1>1. PICK s \in Sales \ sold, who \in {"live", "replay"} : Ask(w, "sale", "lock", s, SaleTill[s], who)
  BY DEF AskSale
<1>2. WellAsked(Job("sale", "lock", s, SaleTill[s], who, FALSE))
  BY DEF WellAsked, Job
<1> QED
  <2>1. SaleTill[s] \in Tills \cup {NoTill} /\ s \in AllRows \cup Tills /\ "sale" \in Ops
        /\ who \in {"live", "replay", "teller", "manager"} /\ "lock" \in {"lock", "commit"}
    BY DrawerAssumption DEF Ops, AllRows
  <2>2. UNCHANGED <<tillRows, ledger, screen, frozen>>
    BY DEF AskSale
  <2> QED
    BY <1>1, <1>2, <2>1, <2>2, AskQuietly

LEMMA AskMoveInv == ASSUME IInv, NEW w \in Workers, AskMove(w) PROVE IInv'
<1>1. PICK x \in Moves \ moved : Ask(w, "move", "lock", x, MoveTill[x], "live")
  BY DEF AskMove
<1>2. WellAsked(Job("move", "lock", x, MoveTill[x], "live", FALSE))
  BY DEF WellAsked, Job
<1> QED
  BY <1>1, <1>2, AskQuietly, DrawerAssumption DEF AskMove, Ops, AllRows

LEMMA AskVoidInv == ASSUME IInv, NEW w \in Workers, AskVoid(w) PROVE IInv'
<1>1. PICK s \in sold \ voided, who \in {"teller", "manager", "replay"} :
        Ask(w, "void", "commit", s, NoTill, who)
  BY DEF AskVoid
<1>2. WellAsked(Job("void", "commit", s, NoTill, who, FALSE))
  BY DEF WellAsked, Job
<1> QED
  <2>1. NoTill \in Tills \cup {NoTill} /\ s \in AllRows \cup Tills /\ "void" \in Ops
        /\ who \in {"live", "replay", "teller", "manager"} /\ "commit" \in {"lock", "commit"}
    BY DEF Ops, AllRows, IInv, TypeOK
  <2>2. UNCHANGED <<tillRows, ledger, screen, frozen>> /\ "void" \in {"void", "delete"}
    BY DEF AskVoid
  <2> QED
    BY <1>1, <1>2, <2>1, <2>2, AskQuietly

LEMMA AskRefundInv == ASSUME IInv, NEW w \in Workers, AskRefund(w) PROVE IInv'
<1>1. PICK r \in Refunds \ refunds :
        Ask(w, "refund", "lock", r, RefundTill[r], IF r \in Queued THEN "replay" ELSE "live")
  BY DEF AskRefund
<1> DEFINE who == IF r \in Queued THEN "replay" ELSE "live"
<1>2. WellAsked(Job("refund", "lock", r, RefundTill[r], who, FALSE))
  BY DEF WellAsked, Job
<1> QED
  BY <1>1, <1>2, AskQuietly, DrawerAssumption DEF AskRefund, Ops, AllRows

LEMMA AskCloseInv == ASSUME IInv, NEW w \in Workers, AskClose(w) PROVE IInv'
<1>1. PICK t \in Tills, op \in {"closed", "force_closed"} : Ask(w, op, "lock", t, t, "live")
  BY DEF AskClose
<1>2. WellAsked(Job(op, "lock", t, t, "live", FALSE))
  BY DEF WellAsked, Job
<1> QED
  BY <1>1, <1>2, AskQuietly DEF AskClose, Ops, AllRows

LEMMA AskDeleteInv == ASSUME IInv, NEW w \in Workers, AskDelete(w) PROVE IInv'
<1>1. PICK t \in Tills : Ask(w, "delete", "commit", t, NoTill, "live")
  BY DEF AskDelete
<1>2. WellAsked(Job("delete", "commit", t, NoTill, "live", FALSE))
  BY DEF WellAsked, Job
<1> QED
  BY <1>1, <1>2, AskQuietly DEF AskDelete, Ops, AllRows

-----------------------------------------------------------------------------
(* Locking: what the till says is read once the lock is held.              *)

LEMMA GotoQuietly ==
  ASSUME IInv, NEW w \in Workers, UNCHANGED <<tillRows, ledger, screen, frozen>>,
         NEW pc \in {"last", "row", "wait", "commit"}, NEW saw \in BOOLEAN, Goto(w, pc, saw),
         req[w].pc = "lock" => TillIsFree(req[w].till),
         req[w].pc \in {"lock", "last", "row", "wait", "commit"},
         WellAsked(Job(req[w].op, pc, req[w].x, req[w].till, req[w].who, saw)),
         Knows(Job(req[w].op, pc, req[w].x, req[w].till, req[w].who, saw))
  PROVE  IInv'
<1> DEFINE j == Job(req[w].op, pc, req[w].x, req[w].till, req[w].who, saw)
<1>1. req' \in [Workers -> Requests] /\ \A v \in Workers \ {w} : req'[v] = req[v]
  BY GotoFacts DEF IInv
<1>2. req'[w] = j
  BY DEF Goto, IInv, TypeOK
<1>3. WellAsked(req[w])' /\ Knows(req[w])'
  BY <1>2 DEF WellAsked, Knows, StillOpen, MayCorrect, Corrected, ledger, tillRows
<1>4. \A t \in Tills : HoldsTill(w, t)' => HoldsTill(w, t) \/ TillIsFree(t)
  BY <1>2 DEF HoldsTill, Job
<1> QED
  BY <1>1, <1>3, <1>4, QuietStep

LEMMA LockSaleInv == ASSUME IInv, NEW w \in Workers, LockSale(w) PROVE IInv'
<1> DEFINE r == req[w]
<1>1. At(w, {"sale"}, "lock") /\ TillIsFree(r.till) /\ UNCHANGED <<tillRows, ledger, screen, frozen>>
  BY DEF LockSale
<1>2. CASE Admits(r.who, r.till)
  <2>1. Goto(w, "commit", ~StillOpen(r.till))
    BY <1>2 DEF LockSale
  <2>2. WellAsked(r) /\ r.op = "sale" /\ r.pc = "lock"
    BY <1>1 DEF IInv, Asked, At
  <2> DEFINE saw == ~StillOpen(r.till)
             j == Job(r.op, "commit", r.x, r.till, r.who, saw)
  <2>3. saw \in BOOLEAN /\ (saw <=> ~StillOpen(r.till)) /\ Goto(w, "commit", saw)
    BY <2>1 DEF StillOpen
  <2> HIDE DEF saw
  <2>4. WellAsked(j)
    BY <2>2 DEF WellAsked, Job, Idle
  <2>5. Knows(j)
    BY <2>2, <2>3 DEF Knows, Job
  <2> QED
    BY <1>1, <2>2, <2>3, <2>4, <2>5, GotoQuietly
<1>3. CASE ~Admits(r.who, r.till)
  BY <1>1, <1>3, AnswerQuietly DEF LockSale
<1> QED
  BY <1>2, <1>3

LEMMA LockMoveInv == ASSUME IInv, NEW w \in Workers, LockMove(w) PROVE IInv'
<1> DEFINE r == req[w]
<1>1. At(w, {"move"}, "lock") /\ TillIsFree(r.till) /\ UNCHANGED <<tillRows, ledger, screen, frozen>>
  BY DEF LockMove
<1>2. CASE StillOpen(r.till) /\ MayCorrect(r.x)
  <2>1. Goto(w, "commit", FALSE)
    BY <1>2 DEF LockMove
  <2>2. WellAsked(r) /\ r.op = "move" /\ r.pc = "lock"
    BY <1>1 DEF IInv, Asked, At
  <2> DEFINE j == Job(r.op, "commit", r.x, r.till, r.who, FALSE)
  <2>3. WellAsked(j) /\ Knows(j)
    BY <1>2, <2>2 DEF WellAsked, Knows, Job, Idle
  <2> QED
    BY <1>1, <2>1, <2>2, <2>3, GotoQuietly
<1>3. CASE ~(StillOpen(r.till) /\ MayCorrect(r.x))
  BY <1>1, <1>3, AnswerQuietly DEF LockMove
<1> QED
  BY <1>2, <1>3

LEMMA LockRefundInv == ASSUME IInv, NEW w \in Workers, LockRefund(w) PROVE IInv'
<1> DEFINE r == req[w]
<1>1. At(w, {"refund"}, "lock") /\ TillIsFree(r.till) /\ UNCHANGED <<tillRows, ledger, screen, frozen>>
  BY DEF LockRefund
<1>2. CASE Admits(r.who, r.till)
  <2>1. Goto(w, "row", FALSE)
    BY <1>2 DEF LockRefund
  <2>2. WellAsked(r) /\ r.op = "refund" /\ r.pc = "lock"
    BY <1>1 DEF IInv, Asked, At
  <2> DEFINE j == Job(r.op, "row", r.x, r.till, r.who, FALSE)
  <2>3. WellAsked(j) /\ Knows(j)
    BY <1>2, <2>2 DEF WellAsked, Knows, Job, Idle, Admits
  <2> QED
    BY <1>1, <2>1, <2>2, <2>3, GotoQuietly
<1>3. CASE ~Admits(r.who, r.till)
  BY <1>1, <1>3, AnswerQuietly DEF LockRefund
<1> QED
  BY <1>2, <1>3

LEMMA ReadReturnedInv == ASSUME IInv, NEW w \in Workers, ReadReturned(w) PROVE IInv'
<1> DEFINE r == req[w]
           saw == Affordable(r.x)
<1>1. At(w, {"refund"}, "row") /\ UNCHANGED <<tillRows, ledger, screen, frozen>> /\ Goto(w, "wait", saw)
  BY DEF ReadReturned
<1>2. WellAsked(r) /\ Knows(r) /\ r.op = "refund" /\ r.pc = "row"
  BY <1>1 DEF IInv, Asked, UnderLock, At
<1> DEFINE j == Job(r.op, "wait", r.x, r.till, r.who, saw)
<1>3. WellAsked(j) /\ Knows(j)
  BY <1>2 DEF WellAsked, Knows, Job, Idle
<1>4. saw \in BOOLEAN
  BY DEF Affordable
<1> HIDE DEF saw
<1> QED
  BY <1>1, <1>2, <1>3, <1>4, GotoQuietly

LEMMA LockSaleRowInv == ASSUME IInv, NEW w \in Workers, LockSaleRow(w) PROVE IInv'
<1> DEFINE r == req[w]
<1>1. At(w, {"refund"}, "wait") /\ UNCHANGED <<tillRows, ledger, screen, frozen>>
  BY DEF LockSaleRow
<1>2. CASE r.saw
  <2>1. Goto(w, "commit", FALSE)
    BY <1>2 DEF LockSaleRow
  <2>2. WellAsked(r) /\ Knows(r) /\ r.op = "refund" /\ r.pc = "wait"
    BY <1>1 DEF IInv, Asked, UnderLock, At
  <2> DEFINE j == Job(r.op, "commit", r.x, r.till, r.who, FALSE)
  <2>3. WellAsked(j) /\ Knows(j)
    BY <2>2 DEF WellAsked, Knows, Job, Idle
  <2> QED
    BY <1>1, <2>1, <2>2, <2>3, GotoQuietly
<1>3. CASE ~r.saw
  BY <1>1, <1>3, AnswerQuietly DEF LockSaleRow
<1> QED
  BY <1>2, <1>3

LEMMA LockCloseInv == ASSUME IInv, NEW w \in Workers, LockClose(w) PROVE IInv'
<1> DEFINE r == req[w]
<1>1. At(w, Statuses, "lock") /\ TillIsFree(r.till) /\ UNCHANGED <<tillRows, ledger, screen, frozen>>
  BY DEF LockClose
<1>2. CASE StillOpen(r.till)
  <2>1. Goto(w, "last", FALSE)
    BY <1>2 DEF LockClose
  <2>2. WellAsked(r) /\ r.op \in Statuses /\ r.pc = "lock"
    BY <1>1 DEF IInv, Asked, At
  <2> DEFINE j == Job(r.op, "last", r.x, r.till, r.who, FALSE)
  <2>3. WellAsked(j) /\ Knows(j)
    BY <1>2, <2>2 DEF WellAsked, Knows, Job, Idle, Statuses
  <2> QED
    BY <1>1, <2>1, <2>2, <2>3, GotoQuietly
<1>3. CASE ~StillOpen(r.till)
  BY <1>1, <1>3, AnswerQuietly DEF LockClose
<1> QED
  BY <1>2, <1>3

LEMMA AskLastInv == ASSUME IInv, NEW w \in Workers, AskLast(w) PROVE IInv'
<1> DEFINE r == req[w]
           saw == AnotherOpen(r.till)
<1>1. At(w, Statuses, "last") /\ UNCHANGED <<tillRows, ledger, screen, frozen>> /\ Goto(w, "commit", saw)
  BY DEF AskLast
<1>2. WellAsked(r) /\ Knows(r) /\ r.op \in Statuses /\ r.pc = "last"
  BY <1>1 DEF IInv, Asked, UnderLock, At
<1> DEFINE j == Job(r.op, "commit", r.x, r.till, r.who, saw)
<1>3. WellAsked(j) /\ Knows(j)
  BY <1>2 DEF WellAsked, Knows, Job, Idle, Statuses
<1>4. saw \in BOOLEAN
  BY DEF AnotherOpen
<1> HIDE DEF saw
<1> QED
  BY <1>1, <1>2, <1>3, <1>4, GotoQuietly

-----------------------------------------------------------------------------
(* Committing.                                                             *)

LEMMA RowsType ==
  ASSUME TypeOK, NEW t \in Tills, NEW S \in SUBSET Sales
  PROVE  /\ \A m \in Methods : Rows(t, m, S) \in SUBSET AllRows
         /\ Used(t, S) \in SUBSET Methods
         /\ Totals(t, S) \in [Methods -> SUBSET AllRows]
<1>1. \A m \in Methods : Rows(t, m, S) \in SUBSET AllRows
  BY DEF Rows, AllRows, TypeOK
<1> QED
  BY <1>1 DEF Used, Totals

\* What a sum over the sales S has, when they include those on record.
LEMMA RowsCover ==
  ASSUME NEW t \in Tills, NEW m \in Methods, NEW S, sold \subseteq S
  PROVE  Taken(t, m) \subseteq Rows(t, m, S)
  BY DEF Taken, Rows

LEMMA CommitSaleInv == ASSUME IInv, NEW w \in Workers, CommitSale(w) PROVE IInv'
<1> DEFINE r == req[w]
<1>1. At(w, {"sale"}, "commit") /\ Answer(w) /\ UNCHANGED tillRows
  BY DEF CommitSale
<1>2. CASE r.x \in sold
  BY <1>1, <1>2, AnswerQuietly DEF CommitSale
<1>3. CASE r.x \notin sold
  <2>1. /\ r.x \in Sales /\ r.till = SaleTill[r.x] /\ r.till \in Tills
        /\ r.saw <=> ~StillOpen(r.till)
    BY <1>1, DrawerAssumption DEF IInv, Asked, WellAsked, UnderLock, Knows, At, Idle, Job
  <2>2. /\ sold' = sold \cup {r.x} /\ UNCHANGED <<voided, moved, refunds, returned, restocked>>
        /\ screen' = IF r.who = "live" THEN screen \cup {r.x} ELSE screen
        /\ IF r.saw THEN Recompute(r.till, r.x) ELSE UNCHANGED frozen
    BY <1>3 DEF CommitSale
  <2>3. req' \in [Workers -> Requests] /\ Asked' /\ Exclusive'
    BY <1>1, <2>2, Answered
  <2>4. UnderLock'
    BY <1>1, <2>2, StillKnown DEF tillRows
  <2>5. TypeOK /\ NothingLeftOut /\ RefundsWithinSale /\ CorrectedOnce /\ VoidedOnce
    BY DEF IInv
  <2>6. TypeOK'
    <3>1. \A m \in Methods : Rows(r.till, m, sold \cup {r.x}) \in SUBSET AllRows
      BY <2>1, <2>5, RowsType DEF TypeOK
    <3>2. Used(r.till, sold \cup {r.x}) \in SUBSET Methods
      BY <2>1, <2>5, RowsType DEF TypeOK
    <3>3. Totals(r.till, sold \cup {r.x}) \in [Methods -> SUBSET AllRows]
      BY <2>1, <2>5, RowsType DEF TypeOK
    <3>4. /\ figure' \in [Tills -> SUBSET AllRows] /\ lined' \in [Tills -> SUBSET Methods]
          /\ signed' \in [Tills -> [Methods -> SUBSET AllRows]]
          /\ current' \in [Tills -> [Methods -> SUBSET AllRows]]
      <4>1. CASE r.saw
        <5>1. Rows(r.till, "cash", sold \cup {r.x}) \in SUBSET AllRows
          BY <3>1 DEF Methods
        <5>2. Recompute(r.till, r.x)
          BY <2>2, <4>1
        <5>3. figure' \in [Tills -> SUBSET AllRows]
          BY <2>5, <5>1, <5>2 DEF TypeOK, Recompute
        <5>4. lined' \in [Tills -> SUBSET Methods]
          BY <2>1, <2>5, <3>2, <5>2 DEF TypeOK, Recompute
        <5>5. current' \in [Tills -> [Methods -> SUBSET AllRows]] /\ signed' = signed
          BY <2>5, <3>3, <5>2 DEF TypeOK, Recompute
        <5> QED
          BY <2>5, <5>3, <5>4, <5>5 DEF TypeOK
      <4>2. CASE ~r.saw
        BY <2>2, <2>5, <4>2 DEF TypeOK, frozen
      <4> QED
        BY <4>1, <4>2
    <3> QED
      BY <1>1, <2>1, <2>2, <2>3, <2>5, <3>4 DEF TypeOK, tillRows
  <2>7. NothingLeftOut'
    <3> SUFFICES ASSUME NEW t \in Tills, ~StillOpen(t)'
                 PROVE  /\ Taken(t, "cash")' \subseteq figure'[t]
                        /\ \A m \in Methods : /\ Taken(t, m)' \subseteq current'[t][m]
                                              /\ Taken(t, m)' # {} => m \in lined'[t]
      BY DEF NothingLeftOut
    <3>1. ~StillOpen(t)
      BY <1>1 DEF StillOpen, tillRows
    <3>2. CASE t = r.till
      <4>1. Recompute(t, r.x)
        BY <2>1, <2>2, <3>1, <3>2
      <4>2. \A m \in Methods : Taken(t, m)' \subseteq Rows(t, m, sold \cup {r.x})
        BY <2>2 DEF Taken, Rows
      <4>3. /\ figure'[t] = Rows(t, "cash", sold \cup {r.x})
            /\ current'[t] = Totals(t, sold \cup {r.x})
            /\ Used(t, sold \cup {r.x}) \subseteq lined'[t]
        BY <2>5, <4>1 DEF Recompute, TypeOK
      <4> QED
        BY <4>2, <4>3 DEF Totals, Used, Methods
    <3>3. CASE t # r.till
      <4>1. \A m \in Methods : Taken(t, m)' = Taken(t, m)
        BY <2>1, <2>2, <3>3 DEF Taken
      <4>2. figure'[t] = figure[t] /\ current'[t] = current[t] /\ lined'[t] = lined[t]
        BY <2>2, <2>5, <3>3 DEF Recompute, frozen, TypeOK
      <4> QED
        BY <2>5, <3>1, <4>1, <4>2 DEF NothingLeftOut, Methods
    <3> QED
      BY <3>2, <3>3
  <2>8. RefundsWithinSale' /\ CorrectedOnce'
    BY <2>2, <2>5 DEF RefundsWithinSale, CorrectedOnce
  <2>9. VoidedOnce'
    BY <1>3, <2>2, <2>5 DEF VoidedOnce, TypeOK
  <2> QED
    BY <2>3, <2>4, <2>6, <2>7, <2>8, <2>9 DEF IInv
<1> QED
  BY <1>2, <1>3

LEMMA CommitMoveInv == ASSUME IInv, NEW w \in Workers, CommitMove(w) PROVE IInv'
<1> DEFINE z == req[w].x
<1>1. /\ At(w, {"move"}, "commit") /\ moved' = moved \cup {z} /\ Answer(w)
      /\ UNCHANGED <<tillRows, sold, voided, refunds, returned, restocked, screen, frozen>>
  BY DEF CommitMove
<1>2. z \in Moves /\ req[w].till = MoveTill[z] /\ StillOpen(MoveTill[z]) /\ MayCorrect(z)
  BY <1>1 DEF IInv, Asked, WellAsked, UnderLock, Knows, At, Idle, Job
<1>3. /\ req' \in [Workers -> Requests] /\ req'[w] = Idle /\ Asked' /\ Exclusive'
      /\ \A v \in Workers \ {w} : req'[v] = req[v]
  BY <1>1, Answered
<1>4. TypeOK /\ NothingLeftOut /\ RefundsWithinSale /\ CorrectedOnce /\ VoidedOnce
  BY DEF IInv
<1>5. TypeOK'
  BY <1>1, <1>2, <1>3, <1>4 DEF TypeOK, tillRows, frozen
\* Two movements about to commit are on different tills, so they correct
\* different movements.
<1>6. UnderLock'
  <2> SUFFICES ASSUME NEW v \in Workers PROVE Knows(req[v])'
    BY DEF UnderLock
  <2>1. CASE v = w
    BY <1>3, <2>1 DEF Knows, Idle, Job
  <2>2. CASE v # w
    <3> DEFINE q == req[v]
    <3>1. req'[v] = q /\ Knows(q) /\ WellAsked(q)
      BY <1>3, <2>2 DEF IInv, UnderLock, Asked
    <3>2. \A t \in Tills : StillOpen(t)' <=> StillOpen(t)
      BY <1>1 DEF StillOpen, tillRows
    <3>3. q.op = "move" /\ q.pc = "commit" => MayCorrect(q.x)'
      <4> SUFFICES ASSUME q.op = "move", q.pc = "commit", Corrects[q.x] # NoMove
                   PROVE  MayCorrect(q.x)'
        BY <3>1 DEF MayCorrect
      <4>1. /\ q.x \in Moves /\ q.till = MoveTill[q.x]
            /\ Corrects[q.x] \in moved /\ MoveTill[Corrects[q.x]] = MoveTill[q.x]
            /\ ~Corrected(Corrects[q.x])
        BY <3>1 DEF WellAsked, Knows, MayCorrect, Idle, Job
      <4>2. Corrects[z] # Corrects[q.x]
        <5> SUFFICES ASSUME Corrects[z] = Corrects[q.x] PROVE FALSE
          OBVIOUS
        <5>1. MoveTill[z] = MoveTill[q.x] /\ MoveTill[z] \in Tills
          BY <1>2, <4>1, DrawerAssumption DEF MayCorrect
        <5>2. HoldsTill(w, MoveTill[z]) /\ HoldsTill(v, MoveTill[z])
          BY <1>1, <1>2, <4>1, <5>1 DEF HoldsTill, At
        <5> QED
          BY <2>2, <5>1, <5>2 DEF IInv, Exclusive
      <4> QED
        BY <1>1, <3>1, <4>1, <4>2 DEF MayCorrect, Corrected
    <3> QED
      BY <1>1, <3>1, <3>3 DEF Knows, StillOpen, tillRows
  <2> QED
    BY <2>1, <2>2
<1>7. NothingLeftOut'
  <2> SUFFICES ASSUME NEW t \in Tills, ~StillOpen(t)'
               PROVE  /\ Taken(t, "cash")' \subseteq figure'[t]
                      /\ \A m \in Methods : /\ Taken(t, m)' \subseteq current'[t][m]
                                            /\ Taken(t, m)' # {} => m \in lined'[t]
    BY DEF NothingLeftOut
  <2>1. ~StillOpen(t) /\ t # MoveTill[z]
    BY <1>1, <1>2 DEF StillOpen, tillRows
  <2>2. \A m \in Methods : Taken(t, m)' = Taken(t, m)
    BY <1>1, <2>1 DEF Taken
  <2> QED
    BY <1>1, <1>4, <2>1, <2>2 DEF NothingLeftOut, Methods, frozen
<1>8. RefundsWithinSale' /\ VoidedOnce'
  BY <1>1, <1>4 DEF RefundsWithinSale, VoidedOnce
<1>9. CorrectedOnce'
  BY <1>1, <1>2, <1>4 DEF CorrectedOnce, MayCorrect, Corrected
<1> QED
  BY <1>3, <1>5, <1>6, <1>7, <1>8, <1>9 DEF IInv

LEMMA CommitVoidInv == ASSUME IInv, NEW w \in Workers, CommitVoid(w) PROVE IInv'
<1> DEFINE s == req[w].x
<1>1. /\ At(w, {"void"}, "commit") /\ Answer(w)
      /\ UNCHANGED <<tillRows, sold, moved, refunds, returned, frozen>>
  BY DEF CommitVoid
<1>2. CASE ~Voidable(s)
  <2>1. UNCHANGED <<voided, restocked, screen>>
    BY <1>2 DEF CommitVoid
  <2> QED
    BY <1>1, <2>1, AnswerQuietly DEF ledger
<1>3. CASE Voidable(s)
  <2>1. /\ voided' = voided \cup {s} /\ restocked' = [restocked EXCEPT ![s] = @ + 1]
        /\ screen' = screen \ {s}
    BY <1>3 DEF CommitVoid
  <2>2. s \in sold
    BY <1>1 DEF IInv, Asked, WellAsked, At, Idle, Job
  <2>3. req' \in [Workers -> Requests] /\ Asked' /\ Exclusive'
    BY <1>1, Answered
  <2>4. UnderLock'
    BY <1>1, StillKnown DEF tillRows
  <2>5. TypeOK /\ NothingLeftOut /\ RefundsWithinSale /\ CorrectedOnce /\ VoidedOnce
    BY DEF IInv
  <2>6. TypeOK'
    BY <1>1, <2>1, <2>2, <2>3, <2>5 DEF TypeOK, tillRows, frozen
  <2>7. NothingLeftOut'
    <3> SUFFICES ASSUME NEW t \in Tills, ~StillOpen(t)'
                 PROVE  /\ Taken(t, "cash")' \subseteq figure'[t]
                        /\ \A m \in Methods : /\ Taken(t, m)' \subseteq current'[t][m]
                                              /\ Taken(t, m)' # {} => m \in lined'[t]
      BY DEF NothingLeftOut
    <3>1. ~StillOpen(t)
      BY <1>1 DEF StillOpen, tillRows
    <3>2. \A m \in Methods : Taken(t, m)' \subseteq Taken(t, m)
      BY <1>1, <2>1 DEF Taken
    <3> QED
      BY <1>1, <2>5, <3>1, <3>2 DEF NothingLeftOut, Methods, frozen
  <2>8. RefundsWithinSale' /\ CorrectedOnce'
    BY <1>1, <1>3, <2>1, <2>5 DEF RefundsWithinSale, CorrectedOnce, Voidable
  <2>9. VoidedOnce'
    BY <1>3, <2>1, <2>2, <2>5 DEF VoidedOnce, TypeOK, Voidable
  <2> QED
    BY <2>3, <2>4, <2>6, <2>7, <2>8, <2>9 DEF IInv
<1> QED
  BY <1>2, <1>3

LEMMA CommitRefundInv == ASSUME IInv, NEW w \in Workers, CommitRefund(w) PROVE IInv'
<1> DEFINE r == req[w].x
           s == RefundSale[r]
<1>1. /\ At(w, {"refund"}, "commit") /\ Answer(w)
      /\ UNCHANGED <<tillRows, sold, voided, moved, restocked, screen, frozen>>
  BY DEF CommitRefund
<1>2. CASE s \in voided \/ r \in refunds \/ ~Affordable(r)
  <2>1. UNCHANGED <<refunds, returned>>
    BY <1>2 DEF CommitRefund
  <2> QED
    BY <1>1, <2>1, AnswerQuietly DEF ledger
<1>3. CASE ~(s \in voided \/ r \in refunds \/ ~Affordable(r))
  <2>1. /\ refunds' = refunds \cup {r}
        /\ returned' = [returned EXCEPT ![s] = @ + RefundAmount[r]]
    BY <1>3 DEF CommitRefund
  <2>2. r \in Refunds /\ (r \notin Queued => StillOpen(RefundTill[r]))
    BY <1>1 DEF IInv, Asked, WellAsked, UnderLock, Knows, At, Idle, Job
  <2>3. req' \in [Workers -> Requests] /\ Asked' /\ Exclusive'
    BY <1>1, Answered
  <2>4. UnderLock'
    BY <1>1, StillKnown DEF tillRows
  <2>5. TypeOK /\ NothingLeftOut /\ RefundsWithinSale /\ CorrectedOnce /\ VoidedOnce
    BY DEF IInv
  <2>6. s \in Sales /\ RefundAmount[r] \in Nat /\ returned[s] + RefundAmount[r] <= Total[s]
    BY <1>3, <2>2, DrawerAssumption DEF Affordable
  <2>7. TypeOK'
    <3>1. returned' \in [Sales -> Nat]
      BY <2>1, <2>5, <2>6 DEF TypeOK
    <3> QED
      BY <1>1, <2>1, <2>2, <2>3, <2>5, <3>1 DEF TypeOK, tillRows, frozen
  <2>8. NothingLeftOut'
    <3> SUFFICES ASSUME NEW t \in Tills, ~StillOpen(t)'
                 PROVE  /\ Taken(t, "cash")' \subseteq figure'[t]
                        /\ \A m \in Methods : /\ Taken(t, m)' \subseteq current'[t][m]
                                              /\ Taken(t, m)' # {} => m \in lined'[t]
      BY DEF NothingLeftOut
    <3>1. ~StillOpen(t)
      BY <1>1 DEF StillOpen, tillRows
    <3>2. \A m \in Methods : Taken(t, m)' = Taken(t, m)
      BY <1>1, <2>1, <2>2, <3>1 DEF Taken
    <3> QED
      BY <1>1, <2>5, <3>1, <3>2 DEF NothingLeftOut, Methods, frozen
  <2>9. RefundsWithinSale'
    <3> SUFFICES ASSUME NEW u \in Sales
                 PROVE  returned'[u] <= Total[u] /\ (u \in voided' => returned'[u] = 0)
      BY DEF RefundsWithinSale
    <3>1. CASE u = s
      BY <1>1, <1>3, <2>1, <2>5, <2>6, <3>1 DEF TypeOK
    <3>2. CASE u # s
      BY <1>1, <2>1, <2>5, <3>2 DEF TypeOK, RefundsWithinSale
    <3> QED
      BY <3>1, <3>2
  <2>10. CorrectedOnce' /\ VoidedOnce'
    BY <1>1, <2>5 DEF CorrectedOnce, VoidedOnce
  <2> QED
    BY <2>3, <2>4, <2>7, <2>8, <2>9, <2>10 DEF IInv
<1> QED
  BY <1>2, <1>3

LEMMA CommitCloseInv == ASSUME IInv, NEW w \in Workers, CommitClose(w) PROVE IInv'
<1> DEFINE t == req[w].till
<1>1. /\ At(w, Statuses, "commit") /\ Answer(w) /\ UNCHANGED <<deleted, ledger>>
      /\ status' = [status EXCEPT ![t] = req[w].op] /\ Freeze(t)
      /\ screen' \subseteq screen
  BY DEF CommitClose
<1>2. t \in Tills /\ req[w].op \in {"closed", "force_closed"}
  BY <1>1 DEF IInv, Asked, WellAsked, At, Statuses, Idle, Job
<1>3. /\ req' \in [Workers -> Requests] /\ req'[w] = Idle /\ Asked' /\ Exclusive'
      /\ \A v \in Workers \ {w} : req'[v] = req[v]
  BY <1>1, Answered DEF ledger
<1>4. TypeOK /\ NothingLeftOut /\ RefundsWithinSale /\ CorrectedOnce /\ VoidedOnce
  BY DEF IInv
<1>5. /\ \A m \in Methods : Rows(t, m, sold) \in SUBSET AllRows
      /\ Used(t, sold) \in SUBSET Methods /\ Totals(t, sold) \in [Methods -> SUBSET AllRows]
  <2>1. sold \in SUBSET Sales
    BY <1>4 DEF TypeOK
  <2> QED
    BY <1>2, <1>4, <2>1, RowsType
<1>6. TypeOK'
  <2>1. status' \in [Tills -> Statuses]
    BY <1>1, <1>2, <1>4 DEF TypeOK, Statuses
  <2>2. /\ figure' \in [Tills -> SUBSET AllRows] /\ lined' \in [Tills -> SUBSET Methods]
        /\ signed' \in [Tills -> [Methods -> SUBSET AllRows]]
        /\ current' \in [Tills -> [Methods -> SUBSET AllRows]]
    <3>1. Rows(t, "cash", sold) \in SUBSET AllRows
      BY <1>5 DEF Methods
    <3>2. figure' \in [Tills -> SUBSET AllRows]
      BY <1>1, <1>4, <3>1 DEF TypeOK, Freeze
    <3>3. lined' \in [Tills -> SUBSET Methods]
      BY <1>1, <1>4, <1>5 DEF TypeOK, Freeze
    <3>4. signed' \in [Tills -> [Methods -> SUBSET AllRows]]
      BY <1>1, <1>4, <1>5 DEF TypeOK, Freeze
    <3>5. current' \in [Tills -> [Methods -> SUBSET AllRows]]
      BY <1>1, <1>4, <1>5 DEF TypeOK, Freeze
    <3> QED
      BY <3>2, <3>3, <3>4, <3>5
  <2> QED
    BY <1>1, <1>3, <1>4, <2>1, <2>2 DEF TypeOK, ledger
\* A request that read this till open under its lock would hold the lock too.
<1>7. UnderLock'
  <2> SUFFICES ASSUME NEW v \in Workers PROVE Knows(req[v])'
    BY DEF UnderLock
  <2>1. CASE v = w
    BY <1>3, <2>1 DEF Knows, Idle, Job
  <2>2. CASE v # w
    <3>1. req'[v] = req[v] /\ Knows(req[v])
      BY <1>3, <2>2 DEF IInv, UnderLock
    <3>2. CASE req[v].till = t
      <4>1. HoldsTill(w, t)
        BY <1>1 DEF HoldsTill, At
      <4>2. req[v].pc \notin {"last", "row", "wait", "commit"}
        BY <1>2, <2>2, <3>2, <4>1 DEF IInv, Exclusive, HoldsTill
      <4> QED
        BY <3>1, <4>2 DEF Knows
    <3>3. CASE req[v].till # t
      <4>1. status'[req[v].till] = status[req[v].till] \/ req[v].till \notin Tills
        BY <1>1, <1>4, <3>3 DEF TypeOK
      <4>2. req[v].till \in Tills \/ req[v].op \notin {"sale", "move", "refund", "closed", "force_closed"}
        BY DrawerAssumption DEF IInv, Asked, WellAsked, Idle, Job
      <4> QED
        BY <1>1, <3>1, <4>1, <4>2 DEF Knows, StillOpen, MayCorrect, Corrected, ledger
    <3> QED
      BY <3>2, <3>3
  <2> QED
    BY <2>1, <2>2
<1>8. NothingLeftOut'
  <2> SUFFICES ASSUME NEW u \in Tills, ~StillOpen(u)'
               PROVE  /\ Taken(u, "cash")' \subseteq figure'[u]
                      /\ \A m \in Methods : /\ Taken(u, m)' \subseteq current'[u][m]
                                            /\ Taken(u, m)' # {} => m \in lined'[u]
    BY DEF NothingLeftOut
  <2>1. \A m \in Methods : Taken(u, m)' = Taken(u, m)
    BY <1>1 DEF Taken, ledger
  <2>2. CASE u = t
    <3>1. \A m \in Methods : Taken(t, m) \subseteq Rows(t, m, sold)
      BY <1>2, RowsCover
    <3>2. /\ figure'[t] = Rows(t, "cash", sold) /\ current'[t] = Totals(t, sold)
          /\ lined'[t] = Used(t, sold)
      BY <1>1, <1>2, <1>4 DEF Freeze, TypeOK
    <3> QED
      BY <2>1, <2>2, <3>1, <3>2 DEF Totals, Used, Methods
  <2>3. CASE u # t
    <3>1. ~StillOpen(u)
      BY <1>1, <1>4, <2>3 DEF StillOpen, TypeOK
    <3>2. figure'[u] = figure[u] /\ current'[u] = current[u] /\ lined'[u] = lined[u]
      BY <1>1, <1>4, <2>3 DEF Freeze, TypeOK
    <3> QED
      BY <1>4, <2>1, <3>1, <3>2 DEF NothingLeftOut, Methods
  <2> QED
    BY <2>2, <2>3
<1>9. (RefundsWithinSale /\ CorrectedOnce /\ VoidedOnce)'
  BY <1>1, <1>4 DEF RefundsWithinSale, CorrectedOnce, VoidedOnce, ledger
<1> QED
  BY <1>3, <1>6, <1>7, <1>8, <1>9 DEF IInv

LEMMA CommitDeleteInv == ASSUME IInv, NEW w \in Workers, CommitDelete(w) PROVE IInv'
<1>1. /\ Answer(w) /\ UNCHANGED <<status, ledger, screen, frozen>>
      /\ deleted' = [deleted EXCEPT ![req[w].x] = TRUE]
  BY DEF CommitDelete
<1>2. req' \in [Workers -> Requests] /\ Asked' /\ Exclusive'
  BY <1>1, Answered DEF ledger
<1>3. UnderLock'
  BY <1>1, StillKnown DEF ledger
<1>4. TypeOK'
  BY <1>1, <1>2 DEF IInv, TypeOK, ledger, frozen
<1>5. (NothingLeftOut /\ RefundsWithinSale /\ CorrectedOnce /\ VoidedOnce)'
  BY <1>1 DEF IInv, NothingLeftOut, StillOpen, Taken, RefundsWithinSale, CorrectedOnce,
              VoidedOnce, ledger, frozen
<1> QED
  BY <1>2, <1>3, <1>4, <1>5 DEF IInv

-----------------------------------------------------------------------------
(* Every step.                                                             *)

LEMMA RollbackInv == ASSUME IInv, NEW w \in Workers, Rollback(w) PROVE IInv'
  BY AnswerQuietly DEF Rollback

LEMMA StutterInv == ASSUME IInv, UNCHANGED vars PROVE IInv'
<1> USE DEF vars, tillRows, ledger, frozen
<1>1. (TypeOK /\ Asked /\ Exclusive)'
  BY DEF IInv, TypeOK, Asked, WellAsked, Exclusive, HoldsTill
<1>2. UnderLock'
  BY DEF IInv, UnderLock, Knows, StillOpen, MayCorrect, Corrected
<1>3. (NothingLeftOut /\ RefundsWithinSale /\ CorrectedOnce /\ VoidedOnce)'
  BY DEF IInv, NothingLeftOut, StillOpen, Taken, RefundsWithinSale, CorrectedOnce, VoidedOnce
<1> QED
  BY <1>1, <1>2, <1>3 DEF IInv

LEMMA InvStep == IInv /\ [Next]_vars => IInv'
<1> SUFFICES ASSUME IInv, [Next]_vars PROVE IInv'
  OBVIOUS
<1>1. CASE UNCHANGED vars
  BY <1>1, StutterInv
<1>2. ASSUME NEW w \in Workers, Request(w) PROVE IInv'
  BY <1>2, AskSaleInv, AskMoveInv, AskVoidInv, AskRefundInv, AskCloseInv, AskDeleteInv DEF Request
<1>3. ASSUME NEW w \in Workers, Work(w) PROVE IInv'
  BY <1>3, LockSaleInv, CommitSaleInv, LockMoveInv, CommitMoveInv, CommitVoidInv, LockRefundInv,
     ReadReturnedInv, LockSaleRowInv, CommitRefundInv, LockCloseInv, AskLastInv, CommitCloseInv, CommitDeleteInv
     DEF Work
<1>4. ASSUME NEW w \in Workers, Rollback(w) PROVE IInv'
  BY <1>4, RollbackInv
<1> QED
  BY <1>1, <1>2, <1>3, <1>4 DEF Next

-----------------------------------------------------------------------------
(* What holds in every behaviour.                                          *)

\* The inductive invariant: what a request reads under its till's lock still
\* holds when it commits.
THEOREM DrawerInvariant == Spec => []IInv
  BY InvInit, InvStep, PTL DEF Spec

\* Every sale, movement and online refund of a closed till is in its figures.
THEOREM ClosedDrawerComplete == Spec => []NothingLeftOut
<1>1. IInv => NothingLeftOut
  BY DEF IInv
<1> QED
  BY <1>1, DrawerInvariant, PTL

\* Every variable keeps its type.
THEOREM DrawerTypes == Spec => []TypeOK
<1>1. IInv => TypeOK
  BY DEF IInv
<1> QED
  BY <1>1, DrawerInvariant, PTL

\* Refunds never pass the sale they give back, from whatever tills.
THEOREM RefundsBounded == Spec => []RefundsWithinSale
<1>1. IInv => RefundsWithinSale
  BY DEF IInv
<1> QED
  BY <1>1, DrawerInvariant, PTL

\* No movement is undone twice, nor from another till.
THEOREM MovesCorrectedOnce == Spec => []CorrectedOnce
<1>1. IInv => CorrectedOnce
  BY DEF IInv
<1> QED
  BY <1>1, DrawerInvariant, PTL

\* A void puts its stock back once, however often it is sent.
THEOREM SalesVoidedOnce == Spec => []VoidedOnce
<1>1. IInv => VoidedOnce
  BY DEF IInv
<1> QED
  BY <1>1, DrawerInvariant, PTL

LEMMA CloseStandsStep ==
  ASSUME IInv, [Next]_vars, NEW t \in Tills, ~StillOpen(t)
  PROVE  status'[t] = status[t] /\ signed'[t] = signed[t] /\ lined[t] \subseteq lined'[t]
<1> USE DEF tillRows, frozen
<1>1. CASE UNCHANGED <<tillRows, frozen>>
  BY <1>1
<1>2. ASSUME NEW w \in Workers, CommitSale(w), ~UNCHANGED <<tillRows, frozen>>
      PROVE  status'[t] = status[t] /\ signed'[t] = signed[t] /\ lined[t] \subseteq lined'[t]
  <2>1. Recompute(req[w].till, req[w].x) /\ UNCHANGED tillRows
    BY <1>2 DEF CommitSale
  <2> QED
    BY <2>1 DEF Recompute, IInv, TypeOK
<1>3. ASSUME NEW w \in Workers, CommitClose(w)
      PROVE  status'[t] = status[t] /\ signed'[t] = signed[t] /\ lined[t] \subseteq lined'[t]
  <2>1. StillOpen(req[w].till)
    BY <1>3 DEF CommitClose, IInv, Asked, WellAsked, UnderLock, Knows, At, Statuses, Idle, Job
  <2> QED
    BY <1>3, <2>1 DEF CommitClose, Freeze, IInv, TypeOK
<1>4. ASSUME NEW w \in Workers, CommitDelete(w) PROVE UNCHANGED <<status, frozen>>
  BY <1>4 DEF CommitDelete
<1>5. ASSUME NEW w \in Workers, Request(w) \/ Rollback(w) PROVE UNCHANGED <<tillRows, frozen>>
  BY <1>5 DEF Request, AskSale, AskMove, AskVoid, AskRefund, AskClose, AskDelete, Rollback
<1>6. ASSUME NEW w \in Workers, Work(w), ~CommitSale(w), ~CommitClose(w), ~CommitDelete(w)
      PROVE  UNCHANGED <<tillRows, frozen>>
  BY <1>6 DEF Work, LockSale, LockMove, CommitMove, CommitVoid, LockRefund, ReadReturned, LockSaleRow,
              CommitRefund, LockClose, AskLast
<1> QED
  BY <1>1, <1>2, <1>3, <1>4, <1>5, <1>6 DEF Next, vars

\* The first close of a till stands, whoever closes it again.
THEOREM TheFirstCloseStands == Spec => FirstCloseStands
<1>1. IInv /\ [Next]_vars => [\A t \in Tills : ~StillOpen(t) => /\ status'[t] = status[t]
                                                                /\ signed'[t] = signed[t]
                                                                /\ lined[t] \subseteq lined'[t]]_vars
  BY CloseStandsStep
<1> QED
  BY <1>1, DrawerInvariant, PTL DEF Spec, FirstCloseStands

-----------------------------------------------------------------------------
(* Drawer implements DrawerContract.                                       *)

\* What a request read before its transaction and nothing since can undo.
Lasting ==
  /\ \A w \in Workers : /\ req[w].op = "refund" => RefundSale[req[w].x] \in sold
                        /\ req[w].op = "delete" => ~StillOpen(req[w].x)
  /\ \A t \in Tills : deleted[t] => ~StillOpen(t)

LEMMA LastingInit == Init => Lasting
  BY DEF Init, Lasting, Idle, Job

\* A request keeps what it is about, or is answered, or has just been asked.
LEMMA RequestSteps ==
  ASSUME IInv, Next, NEW w \in Workers
  PROVE  \/ req'[w].op = req[w].op /\ req'[w].x = req[w].x
         \/ req'[w].op \notin {"refund", "delete"}
         \/ req'[w].op = "refund" /\ RefundSale[req'[w].x] \in sold
         \/ req'[w].op = "delete" /\ ~StillOpen(req'[w].x)
<1>0. req \in [Workers -> Requests]
  BY DEF IInv, TypeOK
<1> PICK v \in Workers : Request(v) \/ Work(v) \/ Rollback(v)
  BY DEF Next
<1>1. CASE w # v
  <2>1. /\ \A op, pc, x, t, who : Ask(v, op, pc, x, t, who) => req'[w] = req[w]
        /\ \A pc, saw : Goto(v, pc, saw) => req'[w] = req[w]
        /\ Answer(v) => req'[w] = req[w]
    BY <1>0, <1>1 DEF Ask, Goto, Answer
  <2>2. CASE Request(v)
    BY <2>1, <2>2 DEF Request, AskSale, AskMove, AskVoid, AskRefund, AskClose, AskDelete
  <2>3. CASE Work(v)
    BY <2>1, <2>3 DEF Work, LockSale, CommitSale, LockMove, CommitMove, CommitVoid, LockRefund,
                      ReadReturned, LockSaleRow, CommitRefund, LockClose, AskLast, CommitClose,
                      CommitDelete
  <2> QED
    BY <2>1, <2>2, <2>3 DEF Rollback
<1>2. CASE w = v
  <2>1. /\ \A op, pc, x, t, who : Ask(v, op, pc, x, t, who) => req'[w].op = op /\ req'[w].x = x
        /\ \A pc, saw : Goto(v, pc, saw) => req'[w].op = req[w].op /\ req'[w].x = req[w].x
        /\ Answer(v) => req'[w].op = "none"
    BY <1>0, <1>2 DEF Ask, Goto, Answer, Job, Idle
  <2>2. CASE Request(v)
    <3>1. CASE AskSale(v) \/ AskMove(v) \/ AskVoid(v) \/ AskClose(v)
      BY <2>1, <3>1 DEF AskSale, AskMove, AskVoid, AskClose
    <3>2. CASE AskRefund(v)
      BY <2>1, <3>2 DEF AskRefund
    <3>3. CASE AskDelete(v)
      BY <2>1, <3>3 DEF AskDelete
    <3> QED
      BY <2>2, <3>1, <3>2, <3>3 DEF Request
  <2>3. CASE Work(v)
    BY <2>1, <2>3 DEF Work, LockSale, CommitSale, LockMove, CommitMove, CommitVoid, LockRefund,
                      ReadReturned, LockSaleRow, CommitRefund, LockClose, AskLast, CommitClose,
                      CommitDelete
  <2> QED
    BY <2>1, <2>2, <2>3 DEF Rollback
<1> QED
  BY <1>1, <1>2

\* Sales stay on record, closed tills closed, and only a till read as closed
\* is deleted.
LEMMA ForGood ==
  ASSUME IInv, Lasting, Next
  PROVE  /\ sold \subseteq sold'
         /\ \A t \in Tills : ~StillOpen(t) => status'[t] # "open"
         /\ \A t \in Tills : deleted'[t] => deleted[t] \/ ~StillOpen(t)
<1> USE DEF tillRows, ledger
<1>0. deleted \in [Tills -> BOOLEAN]
  BY DEF IInv, TypeOK
<1>1. \A t \in Tills : ~StillOpen(t) => status'[t] # "open"
  BY CloseStandsStep DEF StillOpen
<1> PICK w \in Workers : Request(w) \/ Work(w) \/ Rollback(w)
  BY DEF Next
<1>2. CASE Request(w) \/ Rollback(w)
  BY <1>1, <1>2 DEF Request, AskSale, AskMove, AskVoid, AskRefund, AskClose, AskDelete, Rollback
<1>3. CASE CommitDelete(w)
  <2>1. req[w].x \in Tills /\ ~StillOpen(req[w].x)
    BY <1>3 DEF CommitDelete, At, Lasting, IInv, Asked, WellAsked, Idle, Job
  <2> QED
    BY <1>0, <1>1, <1>3, <2>1 DEF CommitDelete
<1>4. CASE Work(w) /\ ~CommitDelete(w)
  <2>1. sold \subseteq sold' /\ UNCHANGED deleted
    BY <1>4 DEF Work, LockSale, CommitSale, LockMove, CommitMove, CommitVoid, LockRefund,
                ReadReturned, LockSaleRow, CommitRefund, LockClose, AskLast, CommitClose
  <2> QED
    BY <1>1, <2>1
<1> QED
  BY <1>2, <1>3, <1>4

LEMMA LastingStep == IInv /\ Lasting /\ [Next]_vars => Lasting'
<1> SUFFICES ASSUME IInv, Lasting, [Next]_vars PROVE Lasting'
  OBVIOUS
<1>1. CASE UNCHANGED vars
  BY <1>1 DEF vars, tillRows, ledger, Lasting, StillOpen
<1>2. CASE Next
  <2>1. \A t \in Tills : deleted'[t] => status'[t] # "open"
    BY <1>2, ForGood DEF Lasting
  <2>2. ASSUME NEW w \in Workers
        PROVE  /\ req'[w].op = "refund" => RefundSale[req'[w].x] \in sold'
               /\ req'[w].op = "delete" => status'[req'[w].x] # "open"
    <3>1. /\ req'[w].op = "refund" => RefundSale[req'[w].x] \in sold
          /\ req'[w].op = "delete" => ~StillOpen(req'[w].x)
      BY <1>2, RequestSteps DEF Lasting
    <3>2. req'[w].op = "delete" => req'[w].x \in Tills
      <4>1. WellAsked(req[w])'
        BY InvStep DEF IInv, Asked
      <4> QED
        BY <4>1 DEF WellAsked, Idle, Job
    <3>3. sold \subseteq sold' /\ \A t \in Tills : ~StillOpen(t) => status'[t] # "open"
      BY <1>2, ForGood
    <3>4. ASSUME req'[w].op = "delete" PROVE status'[req'[w].x] # "open"
      BY <3>1, <3>2, <3>3, <3>4
    <3> QED
      BY <3>1, <3>3, <3>4
  <2> QED
    BY <2>1, <2>2 DEF Lasting, StillOpen
<1> QED
  BY <1>1, <1>2

LEMMA ContractInit == Init => Contract!Init
  BY DEF Init, Contract!Init, Methods

\* Counted with the sales S on record: the contract's rows are Drawer's.
LEMMA DueIsRows ==
  ASSUME NEW t \in Tills, NEW S, sold' = S, UNCHANGED <<voided, moved, refunds>>
  PROVE  /\ \A m \in Methods : Contract!Due(t, m)' = Rows(t, m, S)
         /\ Contract!Totals(t)' = Totals(t, S)
<1>1. ASSUME NEW m \in Methods PROVE Contract!Due(t, m)' = Rows(t, m, S)
  BY DEF Contract!Due, Rows
<1>2. Contract!Totals(t)' = [m \in Methods |-> Contract!Due(t, m)']
  BY DEF Contract!Totals, Methods
<1> QED
  BY <1>1, <1>2 DEF Totals

LEMMA SaleImplements ==
  ASSUME IInv, NEW w \in Workers, CommitSale(w)
  PROVE  [Contract!Next]_(Contract!vars)
<1> PICK s, t : s = req[w].x /\ t = req[w].till
  OBVIOUS
<1>1. At(w, {"sale"}, "commit") /\ UNCHANGED tillRows
  BY DEF CommitSale
<1>2. s \in Sales /\ t = SaleTill[s] /\ t \in Tills /\ (req[w].saw <=> ~StillOpen(t))
  BY <1>1, DrawerAssumption DEF IInv, Asked, WellAsked, UnderLock, Knows, At, Idle, Job
<1>3. CASE s \in sold
  BY <1>1, <1>3 DEF CommitSale, tillRows, ledger, frozen, Contract!vars
<1>4. CASE s \notin sold
  <2>1. /\ sold' = sold \cup {s} /\ UNCHANGED <<voided, moved, refunds, returned>>
        /\ IF req[w].saw THEN Recompute(t, s) ELSE UNCHANGED frozen
    BY <1>4 DEF CommitSale
  <2>2. CASE StillOpen(t)
    BY <1>1, <1>2, <1>4, <2>1, <2>2
       DEF StillOpen, tillRows, frozen, Contract!Open, Contract!Sell, Contract!Next
  <2>3. CASE ~StillOpen(t)
    <3>1. /\ figure' = [figure EXCEPT ![t] = Rows(t, "cash", sold \cup {s})]
          /\ current' = [current EXCEPT ![t] = Totals(t, sold \cup {s})]
          /\ UNCHANGED signed
      BY <1>2, <2>1, <2>3 DEF Recompute
    <3>2. /\ Contract!Due(t, "cash")' = Rows(t, "cash", sold \cup {s})
          /\ Contract!Totals(t)' = Totals(t, sold \cup {s})
      BY <1>2, <2>1, DueIsRows DEF Methods
    <3>3. Contract!Count(t)
      BY <3>1, <3>2 DEF Contract!Count
    <3>4. Contract!Sell(s)
      BY <1>1, <1>2, <1>4, <2>1, <2>3, <3>1, <3>3 DEF StillOpen, tillRows, Contract!Open, Contract!Sell
    <3> QED
      BY <1>2, <3>4 DEF Contract!Next
  <2> QED
    BY <2>2, <2>3
<1> QED
  BY <1>3, <1>4

LEMMA MoveImplements ==
  ASSUME IInv, Lasting, NEW w \in Workers, CommitMove(w)
  PROVE  [Contract!Next]_(Contract!vars)
<1> PICK x : x = req[w].x
  OBVIOUS
<1>1. /\ At(w, {"move"}, "commit") /\ moved' = moved \cup {x}
      /\ UNCHANGED <<tillRows, sold, voided, refunds, returned, frozen>>
  BY DEF CommitMove
<1>2. x \in Moves /\ StillOpen(MoveTill[x]) /\ MayCorrect(x)
  BY <1>1 DEF IInv, Asked, WellAsked, UnderLock, Knows, At, Idle, Job
<1>3. ~deleted[MoveTill[x]]
  BY <1>2, DrawerAssumption DEF Lasting
<1>4. Contract!Move(x)
  BY <1>1, <1>2, <1>3
     DEF StillOpen, MayCorrect, Corrected, tillRows, frozen, Contract!Open, Contract!Move
<1> QED
  BY <1>2, <1>4 DEF Contract!Next

LEMMA VoidImplements ==
  ASSUME IInv, NEW w \in Workers, CommitVoid(w)
  PROVE  [Contract!Next]_(Contract!vars)
<1> PICK s : s = req[w].x
  OBVIOUS
<1>1. At(w, {"void"}, "commit") /\ UNCHANGED <<tillRows, sold, moved, refunds, returned, frozen>>
  BY DEF CommitVoid
<1>2. s \in sold /\ s \in Sales
  BY <1>1 DEF IInv, TypeOK, Asked, WellAsked, At, Idle, Job
<1>3. CASE Voidable(s)
  <2>1. Contract!Void(s)
    BY <1>1, <1>2, <1>3 DEF CommitVoid, Voidable, tillRows, frozen, Contract!Void
  <2> QED
    BY <1>2, <2>1 DEF Contract!Next
<1>4. CASE ~Voidable(s)
  BY <1>1, <1>4 DEF CommitVoid, tillRows, frozen, Contract!vars
<1> QED
  BY <1>3, <1>4

LEMMA RefundImplements ==
  ASSUME IInv, Lasting, NEW w \in Workers, CommitRefund(w)
  PROVE  [Contract!Next]_(Contract!vars)
<1> PICK r : r = req[w].x
  OBVIOUS
<1>1. At(w, {"refund"}, "commit") /\ UNCHANGED <<tillRows, sold, voided, moved, frozen>>
  BY DEF CommitRefund
<1>2. r \in Refunds /\ RefundSale[r] \in sold /\ (r \notin Queued => StillOpen(RefundTill[r]))
  BY <1>1 DEF IInv, Asked, WellAsked, UnderLock, Knows, Lasting, At, Idle, Job
<1>3. CASE RefundSale[r] \in voided \/ r \in refunds \/ ~Affordable(r)
  BY <1>1, <1>3 DEF CommitRefund, tillRows, frozen, Contract!vars
<1>4. CASE ~(RefundSale[r] \in voided \/ r \in refunds \/ ~Affordable(r))
  <2>1. Contract!Return(r)
    BY <1>1, <1>2, <1>4
       DEF CommitRefund, Affordable, StillOpen, tillRows, frozen, Contract!Open, Contract!Return
  <2> QED
    BY <1>2, <2>1 DEF Contract!Next
<1> QED
  BY <1>3, <1>4

LEMMA CloseImplements ==
  ASSUME IInv, NEW w \in Workers, CommitClose(w)
  PROVE  [Contract!Next]_(Contract!vars)
<1> PICK t, how : t = req[w].till /\ how = req[w].op
  OBVIOUS
<1>1. /\ At(w, Statuses, "commit") /\ UNCHANGED <<deleted, ledger>>
      /\ status' = [status EXCEPT ![t] = how] /\ Freeze(t)
  BY DEF CommitClose
<1>2. t \in Tills /\ how \in {"closed", "force_closed"} /\ StillOpen(t)
  BY <1>1 DEF IInv, Asked, WellAsked, UnderLock, Knows, At, Statuses, Idle, Job
<1>3. /\ figure' = [figure EXCEPT ![t] = Rows(t, "cash", sold)]
      /\ signed' = [signed EXCEPT ![t] = Totals(t, sold)]
      /\ current' = [current EXCEPT ![t] = Totals(t, sold)]
  BY <1>1 DEF Freeze
<1>4. Contract!Due(t, "cash")' = Rows(t, "cash", sold) /\ Contract!Totals(t)' = Totals(t, sold)
  <2>1. sold' = sold /\ UNCHANGED <<voided, moved, refunds>>
    BY <1>1 DEF ledger
  <2> QED
    BY <1>2, <2>1, DueIsRows DEF Methods
<1>5. Contract!Count(t)
  BY <1>3, <1>4 DEF Contract!Count
<1>6. Contract!Close(t)
  BY <1>1, <1>2, <1>3, <1>4, <1>5 DEF StillOpen, ledger, Contract!Open, Contract!Close
<1> QED
  BY <1>2, <1>6 DEF Contract!Next

LEMMA DeleteImplements ==
  ASSUME IInv, Lasting, NEW w \in Workers, CommitDelete(w)
  PROVE  [Contract!Next]_(Contract!vars)
<1> PICK t : t = req[w].x
  OBVIOUS
<1>1. t \in Tills /\ ~StillOpen(t)
  BY DEF CommitDelete, At, Lasting, IInv, Asked, WellAsked, Idle, Job
<1>2. Contract!Delete(t)
  BY <1>1 DEF CommitDelete, StillOpen, ledger, frozen, Contract!Open, Contract!Delete
<1> QED
  BY <1>1, <1>2 DEF Contract!Next

LEMMA StepImplements ==
  ASSUME IInv, Lasting, [Next]_vars
  PROVE  [Contract!Next]_(Contract!vars)
<1> USE DEF tillRows, ledger, frozen, Contract!vars
<1>1. CASE UNCHANGED vars
  BY <1>1 DEF vars
<1>2. ASSUME NEW w \in Workers, Request(w) \/ Rollback(w) PROVE UNCHANGED Contract!vars
  BY <1>2 DEF Request, AskSale, AskMove, AskVoid, AskRefund, AskClose, AskDelete, Rollback
<1>3. ASSUME NEW w \in Workers,
             \/ LockSale(w) \/ LockMove(w) \/ LockRefund(w) \/ ReadReturned(w) \/ LockSaleRow(w)
             \/ LockClose(w) \/ AskLast(w)
      PROVE  UNCHANGED Contract!vars
  BY <1>3 DEF LockSale, LockMove, LockRefund, ReadReturned, LockSaleRow, LockClose, AskLast
<1> QED
  BY <1>1, <1>2, <1>3, SaleImplements, MoveImplements, VoidImplements, RefundImplements,
     CloseImplements, DeleteImplements DEF Next, Work

\* The concurrent requests of a branch's tills behave as if each took effect
\* in one step, on tills and sales that are then as it needs them.
THEOREM RequestsAreAtomic == Spec => ActsAtomically
<1>1. Init => IInv /\ Lasting /\ Contract!Init
  BY InvInit, LastingInit, ContractInit
<1>2. IInv /\ Lasting /\ [Next]_vars => IInv' /\ Lasting' /\ [Contract!Next]_(Contract!vars)
  BY InvStep, LastingStep, StepImplements
<1> QED
  BY <1>1, <1>2, PTL DEF Spec, ActsAtomically, Contract!Spec
=============================================================================
