------------------------------- MODULE Drawer -------------------------------
(***************************************************************************)
(* The money of the tills of one branch: sales, drawer movements, voids,   *)
(* refunds, closes and deletes, run by concurrent requests.                *)
(*                                                                         *)
(* Each request first reads what it needs outside any transaction, then    *)
(* works in one.  A sale, a movement, a refund and a close take their      *)
(* till's advisory lock, read the till again and hold the lock to the      *)
(* commit; a refund also locks the sale's row.  A void and a delete lock   *)
(* no till.  Closing freezes the drawer's expected cash and one total per  *)
(* payment method; a sale rung offline may still land on a closed till and *)
(* moves the frozen figure.  An idempotency key fixes a request's body, so *)
(* a sale, a movement or a refund is named by its key and a retry is       *)
(* another request for the same name.  The branch routes its kitchen to    *)
(* the till: nobody bumps, the last close clears the screen.               *)
(***************************************************************************)
EXTENDS Naturals, FiniteSets

CONSTANTS
  Workers,       \* requests in progress at once
  Tills,         \* tills of the branch, all open at the start
  Sales,         \* sales, by idempotency key
  Moves,         \* drawer movements, by client_ref
  Refunds,       \* refunds, by client_ref
  SaleTill, SaleMethod, Total,     \* a sale's till, tender and amount
  MoveTill, Corrects,              \* a movement's till and what it corrects
  RefundTill, RefundSale, RefundMethod, RefundAmount,
  Queued,        \* refunds issued offline: they arrive by replay only
  NoTill,        \* a request that locks no till
  NoMove         \* a movement that corrects nothing

Methods  == {"cash", "card"}
Statuses == {"open", "closed", "force_closed"}

ASSUME DrawerAssumption ==
  /\ SaleTill \in [Sales -> Tills] /\ SaleMethod \in [Sales -> Methods]
  /\ Total \in [Sales -> Nat]
  /\ MoveTill \in [Moves -> Tills] /\ Corrects \in [Moves -> Moves \cup {NoMove}]
  /\ RefundTill \in [Refunds -> Tills] /\ RefundSale \in [Refunds -> Sales]
  /\ RefundMethod \in [Refunds -> Methods] /\ RefundAmount \in [Refunds -> Nat \ {0}]
  /\ Queued \subseteq Refunds /\ NoTill \notin Tills /\ NoMove \notin Moves

VARIABLES
  status, deleted,         \* the till rows
  sold, voided,            \* the sales recorded, and those voided since
  moved,                   \* the drawer movements recorded
  refunds, returned,       \* the refunds recorded; what each sale gave back
  restocked,               \* times a sale's stock was put back by a void
  screen,                  \* sales whose kitchen ticket is still up
  figure,                  \* closing_cash_system, as the rows it adds up
  lined, signed, current,  \* reconciliation lines, and their two totals
  req                      \* each request in progress

tillRows == <<status, deleted>>
ledger   == <<sold, voided, moved, refunds, returned, restocked>>
frozen   == <<figure, lined, signed, current>>
vars     == <<tillRows, ledger, screen, frozen, req>>

Job(op, pc, x, t, who, saw) ==
  [op |-> op, pc |-> pc, x |-> x, till |-> t, who |-> who, saw |-> saw]

Idle == Job("none", "idle", NoTill, NoTill, "live", FALSE)

-----------------------------------------------------------------------------
(* Requests and locks.                                                     *)

Ask(w, op, pc, x, t, who) ==
  /\ req[w] = Idle
  /\ req' = [req EXCEPT ![w] = Job(op, pc, x, t, who, FALSE)]

At(w, ops, pc) == req[w].op \in ops /\ req[w].pc = pc

Goto(w, pc, saw) ==
  LET r == req[w] IN req' = [req EXCEPT ![w] = Job(r.op, pc, r.x, r.till, r.who, saw)]

Answer(w) == req' = [req EXCEPT ![w] = Idle]

\* pg_advisory_xact_lock lasts as long as the transaction.
HoldsTill(w, t) == req[w].till = t /\ req[w].pc \in {"last", "row", "wait", "commit"}

TillIsFree(t) == \A v \in Workers : ~HoldsTill(v, t)

\* SELECT ... FOR UPDATE on the sale a refund names.
HoldsSale(w, s) == At(w, {"refund"}, "commit") /\ RefundSale[req[w].x] = s

SaleIsFree(s) == \A v \in Workers : ~HoldsSale(v, s)

StillOpen(t) == status[t] = "open"

\* A live request needs an open till, a replayed one any.
Admits(who, t) == who = "replay" \/ StillOpen(t)

-----------------------------------------------------------------------------
(* The figures.                                                            *)

\* The rows behind till t's total for method m, money in less money out, with
\* the sales in S on record.
Rows(t, m, S) ==
  {s \in S \ voided : SaleTill[s] = t /\ SaleMethod[s] = m}
    \cup {r \in refunds : RefundTill[r] = t /\ RefundMethod[r] = m}
    \cup {x \in moved : m = "cash" /\ MoveTill[x] = t}

\* The methods with a line; the cash line is always there.
Used(t, S) == {m \in Methods : m = "cash" \/ Rows(t, m, S) # {}}

Totals(t, S) == [m \in Methods |-> Rows(t, m, S)]

Freeze(t) ==
  /\ figure' = [figure EXCEPT ![t] = Rows(t, "cash", sold)]
  /\ lined' = [lined EXCEPT ![t] = Used(t, sold)]
  /\ signed' = [signed EXCEPT ![t] = Totals(t, sold)]
  /\ current' = [current EXCEPT ![t] = Totals(t, sold)]

\* The late sale s moves the figure and the current totals; a total already
\* signed stays.
Recompute(t, s) ==
  /\ figure' = [figure EXCEPT ![t] = Rows(t, "cash", sold \cup {s})]
  /\ lined' = [lined EXCEPT ![t] = @ \cup Used(t, sold \cup {s})]
  /\ current' = [current EXCEPT ![t] = Totals(t, sold \cup {s})]
  /\ UNCHANGED signed

-----------------------------------------------------------------------------
(* Sales.                                                                  *)

AskSale(w) ==
  /\ \E s \in Sales \ sold, who \in {"live", "replay"} :
       Admits(who, SaleTill[s]) /\ Ask(w, "sale", "lock", s, SaleTill[s], who)
  /\ UNCHANGED <<tillRows, ledger, screen, frozen>>

LockSale(w) ==
  /\ At(w, {"sale"}, "lock")
  /\ LET r == req[w] IN
     /\ TillIsFree(r.till)
     /\ IF Admits(r.who, r.till) THEN Goto(w, "commit", ~StillOpen(r.till)) ELSE Answer(w)
  /\ UNCHANGED <<tillRows, ledger, screen, frozen>>

\* The same key again is the sale already recorded.  Only a live sale fires
\* to the kitchen.
CommitSale(w) ==
  /\ At(w, {"sale"}, "commit")
  /\ LET r == req[w] IN
     IF r.x \in sold THEN UNCHANGED <<ledger, screen, frozen>>
     ELSE /\ sold' = sold \cup {r.x}
          /\ UNCHANGED <<voided, moved, refunds, returned, restocked>>
          /\ screen' = IF r.who = "live" THEN screen \cup {r.x} ELSE screen
          /\ IF r.saw THEN Recompute(r.till, r.x) ELSE UNCHANGED frozen
  /\ Answer(w)
  /\ UNCHANGED tillRows

-----------------------------------------------------------------------------
(* Drawer movements.                                                       *)

AskMove(w) ==
  /\ \E x \in Moves \ moved : /\ ~deleted[MoveTill[x]]
                              /\ Ask(w, "move", "lock", x, MoveTill[x], "live")
  /\ UNCHANGED <<tillRows, ledger, screen, frozen>>

Corrected(c) == \E x \in moved : Corrects[x] = c

\* Faulty: a movement may be corrected again.
MayCorrectAgain(x) ==
  Corrects[x] = NoMove \/ (Corrects[x] \in moved /\ MoveTill[Corrects[x]] = MoveTill[x])

\* A correction undoes one movement of its own till, once.
MayCorrect(x) ==
  \/ Corrects[x] = NoMove
  \/ /\ Corrects[x] \in moved
     /\ MoveTill[Corrects[x]] = MoveTill[x]
     /\ ~Corrected(Corrects[x])

\* Faulty: the till is not read again under the lock.
LockMoveUnread(w) ==
  /\ At(w, {"move"}, "lock")
  /\ TillIsFree(req[w].till)
  /\ IF MayCorrect(req[w].x) THEN Goto(w, "commit", FALSE) ELSE Answer(w)
  /\ UNCHANGED <<tillRows, ledger, screen, frozen>>

\* Even a replayed movement is refused once its till has closed.
LockMove(w) ==
  /\ At(w, {"move"}, "lock")
  /\ LET r == req[w] IN
     /\ TillIsFree(r.till)
     /\ IF StillOpen(r.till) /\ MayCorrect(r.x) THEN Goto(w, "commit", FALSE) ELSE Answer(w)
  /\ UNCHANGED <<tillRows, ledger, screen, frozen>>

CommitMove(w) ==
  /\ At(w, {"move"}, "commit")
  /\ moved' = moved \cup {req[w].x}
  /\ Answer(w)
  /\ UNCHANGED <<tillRows, sold, voided, refunds, returned, restocked, screen, frozen>>

-----------------------------------------------------------------------------
(* Voids.  A teller needs the sale's till open; a manager and a replay do  *)
(* not.                                                                    *)

\* Faulty: a sale nobody recorded can be voided.
AskVoidUnknown(w) ==
  /\ \E s \in Sales \ voided : returned[s] = 0 /\ Ask(w, "void", "commit", s, NoTill, "manager")
  /\ UNCHANGED <<tillRows, ledger, screen, frozen>>

AskVoid(w) ==
  /\ \E s \in sold \ voided, who \in {"teller", "manager", "replay"} :
       /\ who = "teller" => StillOpen(SaleTill[s])
       /\ returned[s] = 0
       /\ Ask(w, "void", "commit", s, NoTill, who)
  /\ UNCHANGED <<tillRows, ledger, screen, frozen>>

\* Faulty: the update also matches a sale voided already.
VoidableTwice(s) == returned[s] = 0

\* The update matches a sale not voided yet; the trigger refuses one that
\* has given money back.
Voidable(s) == s \notin voided /\ returned[s] = 0

CommitVoid(w) ==
  /\ At(w, {"void"}, "commit")
  /\ LET s == req[w].x IN
     /\ SaleIsFree(s)
     /\ IF Voidable(s)
        THEN /\ voided' = voided \cup {s}
             /\ restocked' = [restocked EXCEPT ![s] = @ + 1]
             /\ screen' = screen \ {s}
        ELSE UNCHANGED <<voided, restocked, screen>>
  /\ Answer(w)
  /\ UNCHANGED <<tillRows, sold, moved, refunds, returned, frozen>>

-----------------------------------------------------------------------------
(* Refunds.                                                                *)

AskRefund(w) ==
  /\ \E r \in Refunds \ refunds :
       LET who == IF r \in Queued THEN "replay" ELSE "live" IN
       /\ RefundSale[r] \in sold \ voided
       /\ Admits(who, RefundTill[r])
       /\ Ask(w, "refund", "lock", r, RefundTill[r], who)
  /\ UNCHANGED <<tillRows, ledger, screen, frozen>>

\* Faulty: a refund of a closed till waits instead of being refused.
LockRefundWaits(w) ==
  /\ At(w, {"refund"}, "lock")
  /\ TillIsFree(req[w].till)
  /\ Admits(req[w].who, req[w].till) /\ Goto(w, "row", FALSE)
  /\ UNCHANGED <<tillRows, ledger, screen, frozen>>

LockRefund(w) ==
  /\ At(w, {"refund"}, "lock")
  /\ LET r == req[w] IN
     /\ TillIsFree(r.till)
     /\ IF Admits(r.who, r.till) THEN Goto(w, "row", FALSE) ELSE Answer(w)
  /\ UNCHANGED <<tillRows, ledger, screen, frozen>>

\* Faulty: an overshoot passes as long as something is left.
AffordableInPart(r) == returned[RefundSale[r]] < Total[RefundSale[r]]

Affordable(r) == returned[RefundSale[r]] + RefundAmount[r] <= Total[RefundSale[r]]

\* The sum is a subquery of the SELECT ... FOR UPDATE: it reads the snapshot
\* that statement began with, also when the row is granted much later.
ReadReturned(w) ==
  /\ At(w, {"refund"}, "row")
  /\ Goto(w, "wait", Affordable(req[w].x))
  /\ UNCHANGED <<tillRows, ledger, screen, frozen>>

LockSaleRow(w) ==
  /\ At(w, {"refund"}, "wait")
  /\ SaleIsFree(RefundSale[req[w].x])
  /\ IF req[w].saw THEN Goto(w, "commit", FALSE) ELSE Answer(w)
  /\ UNCHANGED <<tillRows, ledger, screen, frozen>>

\* The insert trigger adds up again and refuses a sale voided since the first
\* read; the unique key refuses a refund recorded since then.
CommitRefund(w) ==
  /\ At(w, {"refund"}, "commit")
  /\ LET r == req[w].x IN
     IF RefundSale[r] \in voided \/ r \in refunds \/ ~Affordable(r)
     THEN UNCHANGED <<refunds, returned>>
     ELSE /\ refunds' = refunds \cup {r}
          /\ returned' = [returned EXCEPT ![RefundSale[r]] = @ + RefundAmount[r]]
  /\ Answer(w)
  /\ UNCHANGED <<tillRows, sold, voided, moved, restocked, screen, frozen>>

-----------------------------------------------------------------------------
(* Closing, by its teller or by force.                                     *)

AskClose(w) ==
  /\ \E t \in Tills, op \in {"closed", "force_closed"} :
       StillOpen(t) /\ Ask(w, op, "lock", t, t, "live")
  /\ UNCHANGED <<tillRows, ledger, screen, frozen>>

\* Faulty: the till is not read again under the lock.
LockCloseUnread(w) ==
  /\ At(w, Statuses, "lock")
  /\ TillIsFree(req[w].till)
  /\ Goto(w, "last", FALSE)
  /\ UNCHANGED <<tillRows, ledger, screen, frozen>>

LockClose(w) ==
  /\ At(w, Statuses, "lock")
  /\ TillIsFree(req[w].till)
  /\ IF StillOpen(req[w].till) THEN Goto(w, "last", FALSE) ELSE Answer(w)
  /\ UNCHANGED <<tillRows, ledger, screen, frozen>>

\* Another till's close counts once it has committed.
AnotherOpen(t) == \E u \in Tills \ {t} : StillOpen(u)

AskLast(w) ==
  /\ At(w, Statuses, "last")
  /\ Goto(w, "commit", AnotherOpen(req[w].till))
  /\ UNCHANGED <<tillRows, ledger, screen, frozen>>

\* The last till to close takes the unbumped kitchen tickets off the screen.
CommitClose(w) ==
  /\ At(w, Statuses, "commit")
  /\ LET r == req[w] IN
     /\ status' = [status EXCEPT ![r.till] = r.op]
     /\ Freeze(r.till)
     /\ screen' = IF r.saw THEN screen ELSE {}
  /\ Answer(w)
  /\ UNCHANGED <<deleted, ledger>>

-----------------------------------------------------------------------------
(* Deleting a till: the checks and the update are separate statements.     *)

HasSales(t) == \E s \in sold \ voided : SaleTill[s] = t

AskDelete(w) ==
  /\ \E t \in Tills : /\ ~deleted[t] /\ ~StillOpen(t) /\ ~HasSales(t)
                      /\ Ask(w, "delete", "commit", t, NoTill, "live")
  /\ UNCHANGED <<tillRows, ledger, screen, frozen>>

CommitDelete(w) ==
  /\ At(w, {"delete"}, "commit")
  /\ deleted' = [deleted EXCEPT ![req[w].x] = TRUE]
  /\ Answer(w)
  /\ UNCHANGED <<status, ledger, screen, frozen>>

-----------------------------------------------------------------------------

\* A request that dies, or whose input a close refuses, rolls back: it held
\* locks and wrote nothing.
Rollback(w) ==
  /\ req[w] # Idle
  /\ Answer(w)
  /\ UNCHANGED <<tillRows, ledger, screen, frozen>>

Init ==
  /\ status = [t \in Tills |-> "open"] /\ deleted = [t \in Tills |-> FALSE]
  /\ sold = {} /\ voided = {} /\ moved = {} /\ refunds = {}
  /\ returned = [s \in Sales |-> 0] /\ restocked = [s \in Sales |-> 0]
  /\ screen = {}
  /\ figure = [t \in Tills |-> {}] /\ lined = [t \in Tills |-> {}]
  /\ signed = [t \in Tills |-> [m \in Methods |-> {}]]
  /\ current = [t \in Tills |-> [m \in Methods |-> {}]]
  /\ req = [w \in Workers |-> Idle]

Request(w) ==
  AskSale(w) \/ AskMove(w) \/ AskVoid(w) \/ AskRefund(w) \/ AskClose(w) \/ AskDelete(w)

Work(w) ==
  \/ LockSale(w) \/ CommitSale(w)
  \/ LockMove(w) \/ CommitMove(w)
  \/ CommitVoid(w)
  \/ LockRefund(w) \/ ReadReturned(w) \/ LockSaleRow(w) \/ CommitRefund(w)
  \/ LockClose(w) \/ AskLast(w) \/ CommitClose(w)
  \/ CommitDelete(w)

Next == \E w \in Workers : Request(w) \/ Work(w) \/ Rollback(w)

Spec == Init /\ [][Next]_vars

\* Lock waiters queue first come first served, so a request whose lock keeps
\* becoming free gets it.
Fairness == \A w \in Workers : SF_vars(Work(w))

FairSpec == Spec /\ Fairness

-----------------------------------------------------------------------------
(* Properties.                                                             *)

Ops == {"none", "sale", "move", "void", "refund", "delete", "closed", "force_closed"}
AllRows == Sales \cup Moves \cup Refunds

Requests ==
  [op : Ops, pc : {"idle", "lock", "last", "row", "wait", "commit"},
   x : AllRows \cup Tills \cup {NoTill}, till : Tills \cup {NoTill},
   who : {"live", "replay", "teller", "manager"}, saw : BOOLEAN]

\* The variables keep their types.
TypeOK ==
  /\ status \in [Tills -> Statuses] /\ deleted \in [Tills -> BOOLEAN]
  /\ sold \subseteq Sales /\ voided \subseteq sold
  /\ moved \subseteq Moves /\ refunds \subseteq Refunds
  /\ returned \in [Sales -> Nat] /\ restocked \in [Sales -> Nat]
  /\ screen \subseteq Sales
  /\ figure \in [Tills -> SUBSET AllRows] /\ lined \in [Tills -> SUBSET Methods]
  /\ signed \in [Tills -> [Methods -> SUBSET AllRows]]
  /\ current \in [Tills -> [Methods -> SUBSET AllRows]]
  /\ req \in [Workers -> Requests]

\* The rows a live request or a sale put on till t under method m.
Taken(t, m) ==
  {s \in sold \ voided : SaleTill[s] = t /\ SaleMethod[s] = m}
    \cup {x \in moved : m = "cash" /\ MoveTill[x] = t}
    \cup {r \in refunds \ Queued : RefundTill[r] = t /\ RefundMethod[r] = m}

\* Nothing is silently left out of a closed drawer: every sale, rung online
\* or late, every movement and every refund issued online is in the closing
\* figure and on its method's line.
NothingLeftOut ==
  \A t \in Tills : ~StillOpen(t) =>
    /\ Taken(t, "cash") \subseteq figure[t]
    /\ \A m \in Methods : /\ Taken(t, m) \subseteq current[t][m]
                          /\ Taken(t, m) # {} => m \in lined[t]

\* The refunds of a sale, issued from whatever tills, never pass what the
\* customer was charged, and a voided sale gave nothing back.
RefundsWithinSale ==
  \A s \in Sales : returned[s] <= Total[s] /\ (s \in voided => returned[s] = 0)

\* A movement is undone at most once, by a correction on its own till.
CorrectedOnce ==
  \A x, y \in moved : Corrects[x] # NoMove =>
    /\ Corrects[x] \in moved /\ MoveTill[Corrects[x]] = MoveTill[x]
    /\ Corrects[y] = Corrects[x] => x = y

\* A voided sale's stock was put back once and its ticket left the kitchen;
\* a sale that stands gave no stock back.
VoidedOnce ==
  \A s \in Sales : /\ restocked[s] = IF s \in voided THEN 1 ELSE 0
                   /\ s \in voided => s \notin screen

\* The first close of a till stands: a second one, by force or not, changes
\* neither its status nor the totals its closer signed.
FirstCloseStands ==
  [][\A t \in Tills : ~StillOpen(t) => /\ status'[t] = status[t]
                                       /\ signed'[t] = signed[t]
                                       /\ lined[t] \subseteq lined'[t]]_vars

\* What the branch is promised, without locks, reads and retries (see
\* DrawerContract).
Contract == INSTANCE DrawerContract WITH books <- current

\* The requests behave as if each were one atomic step: what the handlers of a sale,
\* a movement, a refund, a void, a close or a delete asked of the till and the sale
\* (create_order_once, add_cash_movement_inner, create_refund_inner, ...), some of it
\* before they held a lock, still holds when they commit.
ActsAtomically == Contract!Spec

\* Every request is answered: the till and sale locks never wait on each other.
EveryRequestAnswered == \A w \in Workers : req[w] # Idle ~> req[w] = Idle
=============================================================================
