--------------------------- MODULE DrawerContract ---------------------------
(***************************************************************************)
(* The money of a branch's tills when every request is one atomic step:    *)
(* no lock, no read before a transaction, no retry.  What a request asks   *)
(* of its till and its sale is true at the moment it takes effect.         *)
(* Drawer is shown to implement this contract.                             *)
(***************************************************************************)
EXTENDS Naturals

CONSTANTS Tills, Sales, Moves, Refunds,
          SaleTill, SaleMethod, Total, MoveTill, Corrects,
          RefundTill, RefundSale, RefundMethod, RefundAmount, Queued, NoMove

VARIABLES status, deleted,               \* each till
          sold, voided, moved, refunds,  \* what has been recorded
          returned,                      \* what each sale gave back
          figure, books,                 \* a closed till's expected cash, and
                                         \* the rows of each method's total
          signed                         \* the totals its closer signed

vars == <<status, deleted, sold, voided, moved, refunds, returned, figure, books, signed>>

Open(t) == status[t] = "open"

Due(t, m) ==
  {s \in sold : s \notin voided /\ SaleTill[s] = t /\ SaleMethod[s] = m}
    \cup {x \in moved : m = "cash" /\ MoveTill[x] = t}
    \cup {r \in refunds : RefundTill[r] = t /\ RefundMethod[r] = m}

Totals(t) == [m \in {"cash", "card"} |-> Due(t, m)]

\* The books of t are what is on record once the step is taken.
Count(t) ==
  /\ books' = [books EXCEPT ![t] = Totals(t)']
  /\ figure' = [figure EXCEPT ![t] = Due(t, "cash")']

Init ==
  /\ status = [t \in Tills |-> "open"] /\ deleted = [t \in Tills |-> FALSE]
  /\ sold = {} /\ voided = {} /\ moved = {} /\ refunds = {}
  /\ returned = [s \in Sales |-> 0]
  /\ figure = [t \in Tills |-> {}]
  /\ books = [t \in Tills |-> [m \in {"cash", "card"} |-> {}]]
  /\ signed = books

\* A sale that reaches a closed till is counted there.
Sell(s) ==
  /\ s \notin sold
  /\ sold' = sold \cup {s}
  /\ IF Open(SaleTill[s]) THEN UNCHANGED <<figure, books>> ELSE Count(SaleTill[s])
  /\ UNCHANGED <<status, deleted, voided, moved, refunds, returned, signed>>

\* A movement lands on an open till, and undoes one of that till not undone yet.
Move(x) ==
  /\ Open(MoveTill[x]) /\ ~deleted[MoveTill[x]]
  /\ \/ Corrects[x] = NoMove
     \/ /\ Corrects[x] \in moved /\ MoveTill[Corrects[x]] = MoveTill[x]
        /\ \A y \in moved : Corrects[y] # Corrects[x]
  /\ moved' = moved \cup {x}
  /\ UNCHANGED <<status, deleted, sold, voided, refunds, returned, figure, books, signed>>

\* A sale voided gave nothing back.
Void(s) ==
  /\ s \in sold \ voided /\ returned[s] = 0
  /\ voided' = voided \cup {s}
  /\ UNCHANGED <<status, deleted, sold, moved, refunds, returned, figure, books, signed>>

\* Money comes back within a sale that stands, from a till that is open, or
\* was when the refund was queued.
Return(r) ==
  LET s == RefundSale[r] IN
  /\ r \notin refunds /\ s \in sold \ voided
  /\ Open(RefundTill[r]) \/ r \in Queued
  /\ returned[s] + RefundAmount[r] <= Total[s]
  /\ refunds' = refunds \cup {r}
  /\ returned' = [returned EXCEPT ![s] = @ + RefundAmount[r]]
  /\ UNCHANGED <<status, deleted, sold, voided, moved, figure, books, signed>>

\* A close counts what is on record, for good.
Close(t) ==
  /\ Open(t)
  /\ \E how \in {"closed", "force_closed"} : status' = [status EXCEPT ![t] = how]
  /\ Count(t)
  /\ signed' = [signed EXCEPT ![t] = Totals(t)']
  /\ UNCHANGED <<deleted, sold, voided, moved, refunds, returned>>

Delete(t) ==
  /\ ~Open(t)
  /\ deleted' = [deleted EXCEPT ![t] = TRUE]
  /\ UNCHANGED <<status, sold, voided, moved, refunds, returned, figure, books, signed>>

Next == \/ \E s \in Sales : Sell(s) \/ Void(s)
        \/ \E x \in Moves : Move(x)
        \/ \E r \in Refunds : Return(r)
        \/ \E t \in Tills : Close(t) \/ Delete(t)

Spec == Init /\ [][Next]_vars
=============================================================================
