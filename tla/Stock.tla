------------------------------- MODULE Stock -------------------------------
(***************************************************************************)
(* The stock ledger of a branch and what writes it: sales and their voids, *)
(* wastes, supplier returns, transfers, stocktakes, purchase orders.       *)
(*                                                                         *)
(* A movement takes its balance's row lock until it commits.  A request on *)
(* a document reads the document's status before its transaction (Ask);    *)
(* some lock the document and look again, and some do not.                 *)
(***************************************************************************)
EXTENDS Integers

CONSTANTS
  Users,
  Bins,                \* balances: an ingredient at a branch
  Transfers, From, To,
  Counts, InScope,     \* stocktakes, and the bins each counts
  Orders, Into, Ordered, \* purchase orders, the bin and quantity of each one's line
  Outs, OutOf,         \* sales, wastes and returns to a supplier, of one unit
  Sales,               \* those that may be voided
  Checked,             \* a branch's wastes, and returns: refused when there is not enough
  Opening,             \* what each bin starts with
  MaxQty,              \* bound on the quantity of a line
  MaxCount,            \* bound on what is counted on a shelf
  None

Docs == Transfers \cup Counts \cup Orders \cup Outs

ASSUME StockAssumption ==
  /\ From \in [Transfers -> Bins] /\ To \in [Transfers -> Bins]
  /\ \A t \in Transfers : From[t] # To[t]
  /\ InScope \in [Counts -> SUBSET Bins]
  /\ Into \in [Orders -> Bins] /\ Ordered \in [Orders -> Nat \ {0}]
  /\ OutOf \in [Outs -> Bins] /\ Sales \subseteq Outs \ Checked /\ Checked \subseteq Outs
  /\ Opening \in [Bins -> Nat] /\ MaxQty \in Nat \ {0}
  /\ MaxCount \in Nat
  /\ None \notin Int \cup Docs
  /\ Transfers \cap (Counts \cup Orders \cup Outs) = {}
  /\ Counts \cap (Orders \cup Outs) = {} /\ Orders \cap Outs = {}

VARIABLES
  status,              \* each document's
  onHand,              \* branch_stock.on_hand
  moved,               \* inventory_movements: what each document moved, by bin
  average,             \* the deliveries that a bin's cost averages
  qty,                 \* qty_sent of each transfer
  counted,             \* counted_qty of each stocktake's items
  req                  \* the request each user has in progress

stock == <<onHand, moved>>
vars  == <<status, stock, average, qty, counted, req>>

Quantities == 1 .. MaxQty

\* Faulty: a negative count is taken.
AnyNumber == (-1) .. MaxCount \cup {None}

Counted == 0 .. MaxCount \cup {None}

Uncounted  == [b \in Bins |-> None]

ShelfOf(d) == IF d \in Transfers THEN From[d] ELSE OutOf[d]

Idle == [doc |-> None, act |-> "none", was |-> "none", pc |-> "idle",
         counts |-> Uncounted, book |-> Uncounted, mix |-> {}]

-----------------------------------------------------------------------------
(* What a request may do, and the locks it holds.                          *)

TransferSteps ==
  [requested  |-> {"edit", "accept", "decline", "cancel"},
   draft      |-> {"edit", "dispatch", "cancel"},
   dispatched |-> {"receive", "cancel"},
   received   |-> {}, cancelled |-> {}]

CountSteps ==
  [in_progress |-> {"count", "finalize", "cancel"}, finalized |-> {}, cancelled |-> {}]

OrderSteps ==
  [draft    |-> {"submit", "receive", "cancel"}, ordered |-> {"receive", "cancel"},
   partially_received |-> {"receive"}, received |-> {}, cancelled |-> {"cancel"}]

Steps(d) ==
  CASE d \in Transfers -> TransferSteps[status[d]]
    [] d \in Counts    -> CountSteps[status[d]]
    [] d \in Orders    -> OrderSteps[status[d]]

InTransaction(u) == req[u].pc \in {"landing", "booking", "sending"}

DocLocked(d) == \E u \in Users : InTransaction(u) /\ req[u].doc = d

\* Faulty: the book stock is read without FOR UPDATE.
NoRowLocked(b) == FALSE

\* Faulty: only a stocktake reads a balance FOR UPDATE.
OnlyCountsLock(b) == \E u \in Users : req[u].pc = "booking" /\ req[u].book[b] # None

\* A balance read to be judged, or to be counted against, is locked until its
\* transaction commits.
RowLocked(b) == \E u \in Users : req[u].book[b] # None

Ask(u, d, a) ==
  /\ req[u] = Idle /\ a \in Steps(d)
  /\ req' = [req EXCEPT ![u] = [Idle EXCEPT !.doc = d, !.act = a, !.was = status[d], !.pc = "asked"]]
  /\ UNCHANGED <<status, stock, average, qty, counted>>

\* Refused, rolled back or cut off: a request that changes nothing.
Fail(u) ==
  /\ req[u] # Idle
  /\ req' = [req EXCEPT ![u] = Idle]
  /\ UNCHANGED <<status, stock, average, qty, counted>>

\* User u's request to do a has its transaction.
Turn(u, a) == req[u].pc = "asked" /\ req[u].act = a /\ ~DocLocked(req[u].doc)

\* Faulty: the status read before the transaction is believed.
AnyStatus(u) == TRUE

\* The document is locked and nobody has moved it on.
AsItWas(u) == status[req[u].doc] = req[u].was

Done(u, to) ==
  /\ req' = [req EXCEPT ![u] = Idle]
  /\ status' = [status EXCEPT ![req[u].doc] = to]

\* The ledger's trigger moves the balance with every movement.
Post(d, b, q) ==
  /\ onHand' = [onHand EXCEPT ![b] = @ + q]
  /\ moved' = [moved EXCEPT ![d][b] = @ + q]

-----------------------------------------------------------------------------
(* Transfers.                                                              *)

Transfer(u, a) == Turn(u, a) /\ req[u].doc \in Transfers /\ AsItWas(u)

EditTransfer(u) ==
  \E q \in Quantities :
    /\ Transfer(u, "edit")
    /\ qty' = [qty EXCEPT ![req[u].doc] = q]
    /\ Done(u, req[u].was)
    /\ UNCHANGED <<stock, average, counted>>

\* The source may send another quantity than was asked for.
AcceptTransfer(u) ==
  \E q \in Quantities :
    /\ Transfer(u, "accept")
    /\ qty' = [qty EXCEPT ![req[u].doc] = q]
    /\ Done(u, "draft")
    /\ UNCHANGED <<stock, average, counted>>

\* The balance is locked and looked at; the goods leave in a later statement.
LookToDispatch(u) ==
  LET b == From[req[u].doc] IN
  /\ Transfer(u, "dispatch") /\ ~RowLocked(b)
  /\ req' = [req EXCEPT ![u].pc = "sending", ![u].book[b] = onHand[b]]
  /\ UNCHANGED <<status, stock, average, qty, counted>>

\* q units leave the shelf that was looked at, when they were there.
TakeOff(u, q, to) ==
  LET b == ShelfOf(req[u].doc) IN
  /\ req[u].pc = "sending" /\ req[u].book[b] >= q
  /\ Post(req[u].doc, b, -q)
  /\ Done(u, to)
  /\ UNCHANGED <<average, qty, counted>>

DispatchTransfer(u) ==
  req[u].doc \in Transfers /\ TakeOff(u, qty[req[u].doc], "dispatched")

\* Declined by the source, or cancelled before anything was sent.
DropTransfer(u) ==
  /\ Transfer(u, "decline") \/ (Transfer(u, "cancel") /\ req[u].was # "dispatched")
  /\ Done(u, "cancelled")
  /\ UNCHANGED <<stock, average, qty, counted>>

-----------------------------------------------------------------------------
(* What lands is averaged into the bin's cost: the cost and the balance    *)
(* are read in one statement, with no lock, and written in the next.       *)

\* Where a request's goods land.
Landing(u) ==
  LET d == req[u].doc IN
  CASE d \in Orders                               -> Into[d]
    [] d \in Transfers /\ req[u].act = "receive"  -> To[d]
    [] OTHER                                      -> From[d]

Lands(u) ==
  \/ Transfer(u, "receive") \/ (Transfer(u, "cancel") /\ req[u].was = "dispatched")
  \/ Turn(u, "receive") /\ req[u].doc \in Orders /\ "receive" \in Steps(req[u].doc)

ReadCost(u) ==
  /\ Lands(u)
  /\ LET b == Landing(u)
         d == req[u].doc IN
     req' = [req EXCEPT ![u].pc = "landing",
                        ![u].mix = IF onHand[b] > 0 THEN average[b] \cup {d} ELSE {d}]
  /\ UNCHANGED <<status, stock, average, qty, counted>>

\* q units land, at most what may.
Land(u, q, to) ==
  LET b == Landing(u) IN
  /\ req[u].pc = "landing" /\ ~RowLocked(b)
  /\ Post(req[u].doc, b, q)
  /\ average' = [average EXCEPT ![b] = req[u].mix]
  /\ Done(u, to)
  /\ UNCHANGED <<qty, counted>>

\* A line may arrive short, or over with a note; or not at all.
ReceiveTransfer(u) ==
  /\ req[u].doc \in Transfers /\ req[u].act = "receive"
  /\ \/ \E q \in Quantities : Land(u, q, "received")
     \/ req[u].pc = "landing" /\ Done(u, "received") /\ UNCHANGED <<stock, average, qty, counted>>

\* What was in transit goes back.
RecallTransfer(u) ==
  /\ req[u].doc \in Transfers /\ req[u].act = "cancel"
  /\ Land(u, qty[req[u].doc], "cancelled")

\* Faulty: each delivery is held against the whole line.
WholeLine(o) == Ordered[o]

Remaining(o) == Ordered[o] - moved[o][Into[o]]

ReceiveOrder(u) ==
  LET o == req[u].doc IN
  /\ o \in Orders
  /\ \E q \in 1 .. Remaining(o) :
       Land(u, q, IF moved[o][Into[o]] + q >= Ordered[o] THEN "received" ELSE "partially_received")

\* Neither looks at the status again.
SubmitOrder(u) ==
  /\ Turn(u, "submit") /\ Done(u, "ordered")
  /\ UNCHANGED <<stock, average, qty, counted>>

CancelOrder(u) ==
  /\ Turn(u, "cancel") /\ req[u].doc \in Orders /\ Done(u, "cancelled")
  /\ UNCHANGED <<stock, average, qty, counted>>

-----------------------------------------------------------------------------
(* Stocktakes.                                                             *)

\* The status is not looked at again, and the stocktake is not locked.
EnterCount(u) ==
  \E b \in Bins, n \in Counted :
    /\ req[u].pc = "asked" /\ req[u].act = "count" /\ b \in InScope[req[u].doc]
    /\ counted' = [counted EXCEPT ![req[u].doc][b] = n]
    /\ req' = [req EXCEPT ![u] = Idle]
    /\ UNCHANGED <<status, stock, average, qty>>

BeginFinalize(u) ==
  /\ Turn(u, "finalize") /\ "finalize" \in Steps(req[u].doc)
  /\ req' = [req EXCEPT ![u].pc = "booking", ![u].counts = counted[req[u].doc]]
  /\ UNCHANGED <<status, stock, average, qty, counted>>

ReadBook(u, b) ==
  /\ req[u].pc = "booking" /\ req[u].counts[b] # None /\ req[u].book[b] = None
  /\ ~RowLocked(b)
  /\ req' = [req EXCEPT ![u].book[b] = onHand[b]]
  /\ UNCHANGED <<status, stock, average, qty, counted>>

\* The difference between the count and the book goes to the ledger.
PostCount(u) ==
  LET s == req[u].doc
      diff == [b \in Bins |->
        IF req[u].counts[b] = None THEN 0 ELSE req[u].counts[b] - req[u].book[b]] IN
  /\ req[u].pc = "booking"
  /\ \A b \in Bins : req[u].counts[b] # None => req[u].book[b] # None
  /\ onHand' = [b \in Bins |-> onHand[b] + diff[b]]
  /\ moved' = [moved EXCEPT ![s] = [b \in Bins |-> @[b] + diff[b]]]
  /\ Done(u, "finalized")
  /\ UNCHANGED <<average, qty, counted>>

\* The status is not looked at again.
CancelCount(u) ==
  /\ Turn(u, "cancel") /\ req[u].doc \in Counts /\ Done(u, "cancelled")
  /\ UNCHANGED <<stock, average, qty, counted>>

-----------------------------------------------------------------------------
(* Sales, wastes and returns.                                              *)

\* A sale, or a waste of POST /inventory/waste whoever records it, looks at no
\* balance; its key lets it be recorded once.
TakeOut(o) ==
  /\ o \notin Checked /\ status[o] = "open" /\ ~RowLocked(OutOf[o])
  /\ Post(o, OutOf[o], -1)
  /\ status' = [status EXCEPT ![o] = "posted"]
  /\ UNCHANGED <<average, qty, counted, req>>

\* A waste of the branch's own page, or a return to the supplier: the balance is
\* locked and looked at, as for a dispatch.
LookToTake(u, o) ==
  LET b == OutOf[o] IN
  /\ req[u] = Idle /\ status[o] = "open" /\ ~DocLocked(o) /\ ~RowLocked(b)
  /\ req' = [req EXCEPT ![u] = [Idle EXCEPT !.doc = o, !.act = "take", !.was = "open",
                                            !.pc = "sending", !.book[b] = onHand[b]]]
  /\ UNCHANGED <<status, stock, average, qty, counted>>

TakeChecked(u) == req[u].doc \in Checked /\ TakeOff(u, 1, "posted")

Void(o) ==
  /\ o \in Sales /\ status[o] = "posted" /\ ~RowLocked(OutOf[o])
  /\ Post(o, OutOf[o], 1)
  /\ status' = [status EXCEPT ![o] = "voided"]
  /\ UNCHANGED <<average, qty, counted, req>>

-----------------------------------------------------------------------------

\* A transfer starts as a request of its destination or a draft of its source.
Init ==
  /\ status \in [Docs -> {"requested", "draft", "in_progress", "open"}]
  /\ \A d \in Docs :
       status[d] \in CASE d \in Transfers -> {"requested", "draft"}
                       [] d \in Counts    -> {"in_progress"}
                       [] d \in Orders    -> {"draft"}
                       [] OTHER           -> {"open"}
  /\ onHand = Opening /\ moved = [d \in Docs |-> [b \in Bins |-> 0]]
  /\ average = [b \in Bins |-> {}]
  /\ qty = [t \in Transfers |-> 1]
  /\ counted = [s \in Counts |-> Uncounted]
  /\ req = [u \in Users |-> Idle]

TransferStep(u) ==
  \/ EditTransfer(u) \/ AcceptTransfer(u) \/ DropTransfer(u)
  \/ LookToDispatch(u) \/ DispatchTransfer(u)

Checking(u) == (\E o \in Checked : LookToTake(u, o)) \/ TakeChecked(u)

Arrival(u) == ReadCost(u) \/ ReceiveTransfer(u) \/ RecallTransfer(u) \/ ReceiveOrder(u)

CountStep(u) ==
  EnterCount(u) \/ BeginFinalize(u) \/ (\E b \in Bins : ReadBook(u, b)) \/ PostCount(u) \/ CancelCount(u)

Next ==
  \/ \E u \in Users : \/ \E d \in Docs \ Outs : \E a \in Steps(d) : Ask(u, d, a)
                      \/ TransferStep(u) \/ Arrival(u) \/ SubmitOrder(u) \/ CancelOrder(u)
                      \/ CountStep(u) \/ Checking(u) \/ Fail(u)
  \/ \E o \in Outs : TakeOut(o) \/ Void(o)

Spec == Init /\ [][Next]_vars

-----------------------------------------------------------------------------
(* Properties.                                                             *)

Statuses == {"requested", "draft", "dispatched", "received", "cancelled", "in_progress",
             "finalized", "ordered", "partially_received", "open", "posted", "voided"}

Acts == {"edit", "accept", "decline", "dispatch", "receive", "cancel", "count", "finalize", "submit",
         "take"}

\* The variables keep their types.
TypeOK ==
  /\ status \in [Docs -> Statuses]
  /\ onHand \in [Bins -> Int] /\ moved \in [Docs -> [Bins -> Int]]
  /\ average \in [Bins -> SUBSET Docs]
  /\ qty \in [Transfers -> Quantities]
  /\ counted \in [Counts -> [Bins -> Nat \cup {None}]]
  /\ req \in [Users -> [doc : Docs \cup {None}, act : Acts \cup {"none"},
                        was : Statuses \cup {"none"},
                        pc : {"idle", "asked", "landing", "booking", "sending"},
                        counts : [Bins -> Nat \cup {None}], book : [Bins -> Int \cup {None}],
                        mix : SUBSET Docs]]

Moves(d, b) == moved[d][b] # 0

\* A transfer's stock is in one place: nothing has moved before it is sent or after
\* it is called off, and what left the source is what it says, however the two
\* sides' requests race.
TransferBalances ==
  \A t \in Transfers :
    /\ \A b \in Bins \ {From[t], To[t]} : ~Moves(t, b)
    /\ moved[t][From[t]] = IF status[t] \in {"dispatched", "received"} THEN -qty[t] ELSE 0
    /\ Moves(t, To[t]) => status[t] = "received"

\* A purchase order never brings in more than was ordered, and is closed as received
\* only when all of it came.
ReceivedWithinOrder ==
  \A o \in Orders :
    /\ moved[o][Into[o]] \in 0 .. Ordered[o]
    /\ status[o] = "received" => moved[o][Into[o]] = Ordered[o]

\* A stocktake leaves on the shelf what was counted, whatever was sold, sent or
\* received while it was being finalized.
CountStands ==
  [][\A u \in Users : PostCount(u) =>
       \A b \in Bins : req[u].counts[b] # None => onHand'[b] = req[u].counts[b]]_vars

\* What is looked for on the shelf is still there when it is taken: a dispatch, a
\* return or a branch's waste never takes a bin below zero, whatever is sold between
\* its look and its post. Only a sale or a POST /inventory/waste, which look at
\* nothing, does.
OnlyUncheckedOverdraw ==
  [][\A b \in Bins : onHand'[b] < onHand[b] /\ onHand'[b] < 0 =>
       \E o \in Outs \ Checked : status'[o] # status[o]]_vars

\* "new = (prior_on_hand * current_cost + received_qty * received_cost) / ...": the
\* cost of a bin that only deliveries have touched averages them all.
AverageCoversAll ==
  \A b \in Bins :
    Opening[b] = 0 /\ (\A d \in Docs \ Orders : ~Moves(d, b)) =>
      average[b] = {o \in Orders : Moves(o, b)}
=============================================================================
