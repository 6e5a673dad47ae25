---------------------------- MODULE StockProofs ----------------------------
(***************************************************************************)
(* Proofs about Stock, for every number of users, bins and documents: what *)
(* transfers, purchase orders and stocktakes leave on the shelves, and who *)
(* may take a shelf below zero.                                            *)
(***************************************************************************)
EXTENDS Stock, TLAPS

TransferStatuses == {"requested", "draft", "dispatched", "received", "cancelled"}
CountStatuses == {"in_progress", "finalized", "cancelled"}
OrderStatuses == {"draft", "ordered", "partially_received", "received", "cancelled"}

\* A document has a status of its kind.
Fits ==
  /\ \A t \in Transfers : status[t] \in TransferStatuses
  /\ \A s \in Counts : status[s] \in CountStatuses
  /\ \A o \in Orders : status[o] \in OrderStatuses
  /\ \A o \in Outs : status[o] \in {"open", "posted", "voided"}

\* What a request on a transfer may do, by the status it has read.
TransferAct(was, act) ==
  /\ was \in TransferStatuses
  /\ act \in {"edit", "accept", "decline", "dispatch", "receive", "cancel"}
  /\ act = "edit" => was \in {"requested", "draft"}
  /\ act \in {"accept", "decline"} => was = "requested"
  /\ act = "dispatch" => was = "draft"
  /\ act = "receive" => was = "dispatched"
  /\ act = "cancel" => was \in {"requested", "draft", "dispatched"}

\* A request does what its kind of document allows, a transfer whose goods are
\* landing is still on its way, and one whose goods are leaving still a draft.
WellAsked(u) ==
  LET r == req[u] IN
  /\ r.doc \in Docs \ (Outs \ Checked) /\ r.pc \in {"asked", "landing", "booking", "sending"}
  /\ r.doc \in Outs => r.pc = "sending"
  /\ r.pc = "sending" => /\ r.doc \in Transfers \cup Checked /\ r.book[ShelfOf(r.doc)] # None
                         /\ r.doc \in Transfers => status[r.doc] = "draft"
  /\ r.doc \in Transfers => TransferAct(r.was, r.act)
  /\ r.doc \in Counts => r.act \in {"count", "finalize", "cancel"}
  /\ r.doc \in Orders => r.act \in {"submit", "receive", "cancel"}
  /\ r.pc = "landing" /\ r.doc \in Transfers => r.was = "dispatched" /\ status[r.doc] = "dispatched"
  /\ r.pc = "landing" /\ r.doc \in Orders => r.act = "receive"
  /\ r.pc = "landing" => r.doc \notin Counts
  /\ r.pc = "booking" => r.doc \in Counts

Asked == \A u \in Users : req[u] = Idle \/ WellAsked(u)

\* One transaction at a time holds a document.
Exclusive ==
  \A u, v \in Users : InTransaction(u) /\ InTransaction(v) /\ req[u].doc = req[v].doc => u = v

\* A balance that was read under its lock is still that, and no other has read it.
Booked ==
  \A u \in Users : \A b \in Bins : req[u].book[b] # None =>
    /\ req[u].pc \in {"booking", "sending"} /\ req[u].book[b] = onHand[b]
    /\ \A v \in Users \ {u} : req[v].book[b] = None

IInv == TypeOK /\ Fits /\ Asked /\ Exclusive /\ Booked /\ TransferBalances /\ ReceivedWithinOrder

ReqType == [doc : Docs \cup {None}, act : Acts \cup {"none"},
            was : Statuses \cup {"none"},
            pc : {"idle", "asked", "landing", "booking", "sending"},
            counts : [Bins -> Nat \cup {None}], book : [Bins -> Int \cup {None}],
            mix : SUBSET Docs]

LEMMA Typed ==
  ASSUME TypeOK
  PROVE  /\ status \in [Docs -> Statuses] /\ onHand \in [Bins -> Int]
         /\ moved \in [Docs -> [Bins -> Int]] /\ average \in [Bins -> SUBSET Docs]
         /\ qty \in [Transfers -> Quantities] /\ counted \in [Counts -> [Bins -> Nat \cup {None}]]
         /\ req \in [Users -> ReqType]
  BY DEF TypeOK, ReqType

LEMMA TypedNext ==
  ASSUME status' \in [Docs -> Statuses], onHand' \in [Bins -> Int],
         moved' \in [Docs -> [Bins -> Int]], average' \in [Bins -> SUBSET Docs],
         qty' \in [Transfers -> Quantities], counted' \in [Counts -> [Bins -> Nat \cup {None}]],
         req' \in [Users -> ReqType]
  PROVE  TypeOK'
  BY DEF TypeOK, ReqType

LEMMA IdleFacts ==
  /\ Idle \in ReqType /\ Idle.pc = "idle" /\ Idle.doc = None
  /\ \A b \in Bins : Idle.book[b] = None
  BY DEF Idle, ReqType, Uncounted

LEMMA Disjoint ==
  ASSUME NEW d \in Docs
  PROVE  /\ d \in Transfers => d \notin Counts /\ d \notin Orders /\ d \notin Outs
         /\ d \in Counts => d \notin Orders /\ d \notin Outs
         /\ d \in Orders => d \notin Outs
         /\ d # None
  BY StockAssumption DEF Docs

-----------------------------------------------------------------------------
(* How a request moves, and what the others see of it.                     *)

OnlyMine(u) == \A v \in Users \ {u} : req'[v] = req[v]

\* Nobody else holds document d.
HeldByNoOther(u, d) == \A v \in Users \ {u} : ~(InTransaction(v) /\ req[v].doc = d)

\* Others' requests stay sound when only a document none of them holds is moved on.
LEMMA OthersAsked ==
  ASSUME IInv, NEW u \in Users, OnlyMine(u), NEW x, HeldByNoOther(u, x),
         \A d \in Docs \ {x} : status'[d] = status[d],
         req'[u] = Idle \/ WellAsked(u)'
  PROVE  Asked'
<1> SUFFICES ASSUME NEW v \in Users \ {u}, req'[v] # Idle PROVE WellAsked(v)'
  BY DEF Asked
<1>1. req'[v] = req[v] /\ WellAsked(v)
  BY DEF IInv, Asked, OnlyMine, Idle
<1>2. /\ req[v].pc = "landing" /\ req[v].doc \in Transfers => status'[req[v].doc] = "dispatched"
      /\ req[v].pc = "sending" /\ req[v].doc \in Transfers => status'[req[v].doc] = "draft"
  BY <1>1 DEF WellAsked, HeldByNoOther, InTransaction
<1> QED
  BY <1>1, <1>2 DEF WellAsked

LEMMA OthersExclusive ==
  ASSUME IInv, NEW u \in Users, OnlyMine(u),
         req'[u].pc \in {"landing", "booking", "sending"} => HeldByNoOther(u, req'[u].doc)
  PROVE  Exclusive'
<1> SUFFICES ASSUME NEW v \in Users, NEW w \in Users, v # w,
                    InTransaction(v)', InTransaction(w)', req'[v].doc = req'[w].doc
             PROVE  FALSE
  BY DEF Exclusive
<1>1. CASE v # u /\ w # u
  BY <1>1 DEF OnlyMine, InTransaction, IInv, Exclusive
<1>2. CASE v = u
  BY <1>2 DEF OnlyMine, InTransaction, HeldByNoOther
<1>3. CASE w = u
  BY <1>3 DEF OnlyMine, InTransaction, HeldByNoOther
<1> QED
  BY <1>1, <1>2, <1>3

\* The balances others have read stay when what u moves is locked by none of them.
LEMMA OthersBooked ==
  ASSUME IInv, NEW u \in Users, OnlyMine(u), \A b \in Bins : req'[u].book[b] = None,
         \A b \in Bins : (\E v \in Users \ {u} : req[v].book[b] # None) => onHand'[b] = onHand[b]
  PROVE  Booked'
<1> SUFFICES ASSUME NEW v \in Users, NEW b \in Bins, req'[v].book[b] # None
             PROVE  /\ req'[v].pc \in {"booking", "sending"} /\ req'[v].book[b] = onHand'[b]
                    /\ \A w \in Users \ {v} : req'[w].book[b] = None
  BY DEF Booked
<1>1. v \in Users \ {u} /\ req'[v] = req[v]
  BY DEF OnlyMine
<1>2. /\ req[v].pc \in {"booking", "sending"} /\ req[v].book[b] = onHand[b]
      /\ \A w \in Users \ {v} : req[w].book[b] = None
  BY <1>1 DEF IInv, Booked
<1> QED
  BY <1>1, <1>2 DEF OnlyMine

LEMMA TurnHolds ==
  ASSUME NEW u \in Users, NEW a, Turn(u, a)
  PROVE  HeldByNoOther(u, req[u].doc)
  BY DEF Turn, DocLocked, HeldByNoOther

LEMMA TransactionHolds ==
  ASSUME IInv, NEW u \in Users, InTransaction(u)
  PROVE  HeldByNoOther(u, req[u].doc)
  BY DEF IInv, Exclusive, HeldByNoOther

LEMMA Busy ==
  ASSUME IInv, NEW u \in Users, req[u].pc # "idle"
  PROVE  /\ WellAsked(u) /\ req[u].doc \in Docs /\ req[u].doc # None /\ req[u] \in ReqType
         /\ req[u].pc # "sending" => req[u].doc \in Docs \ Outs
<1>1. WellAsked(u) /\ req[u] \in ReqType
  BY IdleFacts, Typed DEF IInv, Asked
<1> QED
  BY <1>1, Disjoint DEF WellAsked

\* A request ends and moves its document on.
LEMMA DoneKeeps ==
  ASSUME IInv, NEW u \in Users, req[u].pc # "idle", NEW to \in Statuses, Done(u, to),
         HeldByNoOther(u, req[u].doc),
         req[u].doc \in Transfers => to \in TransferStatuses,
         req[u].doc \in Counts => to \in CountStatuses,
         req[u].doc \in Orders => to \in OrderStatuses,
         req[u].doc \in Outs => to = "posted"
  PROVE  /\ status' \in [Docs -> Statuses] /\ req' \in [Users -> ReqType]
         /\ status'[req[u].doc] = to /\ \A d \in Docs \ {req[u].doc} : status'[d] = status[d]
         /\ OnlyMine(u) /\ req'[u] = Idle
         /\ Fits' /\ Asked' /\ Exclusive'
<1>1. req[u].doc \in Docs
  BY Busy
<1>2. /\ status \in [Docs -> Statuses] /\ req \in [Users -> ReqType]
  BY Typed DEF IInv
<1>3. /\ status' \in [Docs -> Statuses] /\ req' \in [Users -> ReqType]
      /\ status'[req[u].doc] = to /\ \A d \in Docs \ {req[u].doc} : status'[d] = status[d]
      /\ OnlyMine(u) /\ req'[u] = Idle
  BY <1>1, <1>2, IdleFacts DEF Done, OnlyMine
<1>4. Fits'
  BY <1>1, <1>3 DEF IInv, Fits, Docs
<1>5. Asked'
  BY <1>3, OthersAsked
<1>6. Exclusive'
  BY <1>3, IdleFacts, OthersExclusive
<1> QED
  BY <1>3, <1>4, <1>5, <1>6

\* A request that only goes on: the stock and the documents stay.
LEMMA OnlyRequest ==
  ASSUME IInv, NEW u \in Users, OnlyMine(u), req' \in [Users -> ReqType],
         UNCHANGED <<status, onHand, moved, average, qty>>,
         counted' \in [Counts -> [Bins -> Nat \cup {None}]],
         req'[u] = Idle \/ WellAsked(u)',
         req'[u].pc \in {"landing", "booking", "sending"} => HeldByNoOther(u, req'[u].doc),
         Booked'
  PROVE  IInv'
<1>1. TypeOK'
  BY Typed, TypedNext DEF IInv
<1>2. Fits' /\ TransferBalances' /\ ReceivedWithinOrder'
  BY DEF IInv, Fits, TransferBalances, ReceivedWithinOrder, Moves
<1>3. Asked'
  <2>1. HeldByNoOther(u, None)
    <3> SUFFICES ASSUME NEW v \in Users, InTransaction(v), req[v].doc = None PROVE FALSE
      BY DEF HeldByNoOther
    <3> QED
      BY Busy DEF InTransaction
  <2> QED
    BY <2>1, OthersAsked
<1>4. Exclusive'
  BY OthersExclusive
<1> QED
  BY <1>1, <1>2, <1>3, <1>4 DEF IInv

LEMMA PostFacts ==
  ASSUME TypeOK, NEW d \in Docs, NEW b \in Bins, NEW q \in Int, Post(d, b, q)
  PROVE  /\ onHand' \in [Bins -> Int] /\ onHand'[b] = onHand[b] + q
         /\ \A c \in Bins \ {b} : onHand'[c] = onHand[c]
         /\ moved' \in [Docs -> [Bins -> Int]] /\ moved'[d][b] = moved[d][b] + q
         /\ \A c \in Bins \ {b} : moved'[d][c] = moved[d][c]
         /\ \A e \in Docs \ {d} : moved'[e] = moved[e]
<1>1. onHand \in [Bins -> Int] /\ moved \in [Docs -> [Bins -> Int]]
  BY Typed
<1>2. onHand[b] + q \in Int /\ moved[d][b] + q \in Int
  BY <1>1
<1> QED
  BY <1>1, <1>2 DEF Post

-----------------------------------------------------------------------------
(* The invariant, step by step.                                            *)

LEMMA InitInv == Init => IInv
<1> SUFFICES ASSUME Init PROVE IInv
  OBVIOUS
<1>1. /\ \A t \in Transfers : status[t] \in {"requested", "draft"}
      /\ \A s \in Counts : status[s] \in {"in_progress"}
      /\ \A o \in Orders : status[o] \in {"draft"}
      /\ \A o \in Outs : status[o] \in {"open"}
  <2> SUFFICES ASSUME NEW d \in Docs
               PROVE  /\ d \in Transfers => status[d] \in {"requested", "draft"}
                      /\ d \in Counts => status[d] \in {"in_progress"}
                      /\ d \in Orders => status[d] \in {"draft"}
                      /\ d \in Outs => status[d] \in {"open"}
    BY DEF Docs
  <2>1. status[d] \in CASE d \in Transfers -> {"requested", "draft"}
                        [] d \in Counts    -> {"in_progress"}
                        [] d \in Orders    -> {"draft"}
                        [] OTHER           -> {"open"}
    BY DEF Init
  <2> QED
    BY <2>1, Disjoint
<1>2. TypeOK
  <2>1. status \in [Docs -> Statuses]
    BY DEF Init, Statuses
  <2>2. 1 \in Quantities
    BY StockAssumption DEF Quantities
  <2> QED
    BY <2>1, <2>2, StockAssumption, IdleFacts DEF TypeOK, ReqType, Init, Uncounted
<1>3. Fits
  BY <1>1 DEF Fits, TransferStatuses, CountStatuses, OrderStatuses
<1>4. Asked /\ Exclusive /\ Booked
  BY IdleFacts DEF Init, Asked, Exclusive, InTransaction, Booked
<1>5. \A d \in Docs, b \in Bins : moved[d][b] = 0
  BY DEF Init
<1>6. TransferBalances
  BY <1>1, <1>5, StockAssumption DEF TransferBalances, Moves, Docs
<1>7. ReceivedWithinOrder
  BY <1>1, <1>5, StockAssumption DEF ReceivedWithinOrder, Docs
<1> QED
  BY <1>2, <1>3, <1>4, <1>6, <1>7 DEF IInv

\* The steps offered are those of the document's kind and status.
LEMMA StepFacts ==
  ASSUME Fits, NEW d \in Docs \ Outs, NEW a \in Steps(d)
  PROVE  /\ a \in Acts
         /\ d \in Transfers => TransferAct(status[d], a)
         /\ d \in Counts => a \in {"count", "finalize", "cancel"}
         /\ d \in Orders => a \in {"submit", "receive", "cancel"}
<1>1. CASE d \in Transfers
  <2>1. Steps(d) = TransferSteps[status[d]] /\ status[d] \in TransferStatuses
    BY <1>1, Disjoint DEF Steps, Fits
  <2> QED
    BY <1>1, <2>1, Disjoint DEF TransferStatuses, TransferSteps, TransferAct, Acts
<1>2. CASE d \in Counts
  <2>1. Steps(d) = CountSteps[status[d]] /\ status[d] \in CountStatuses
    BY <1>2, Disjoint DEF Steps, Fits
  <2> QED
    BY <1>2, <2>1, Disjoint DEF CountStatuses, CountSteps, Acts
<1>3. CASE d \in Orders
  <2>1. Steps(d) = OrderSteps[status[d]] /\ status[d] \in OrderStatuses
    BY <1>3, Disjoint DEF Steps, Fits
  <2> QED
    BY <1>3, <2>1, Disjoint DEF OrderStatuses, OrderSteps, Acts
<1> QED
  BY <1>1, <1>2, <1>3 DEF Docs

LEMMA AskInv ==
  ASSUME IInv, NEW u \in Users, NEW d \in Docs \ Outs, NEW a \in Steps(d), Ask(u, d, a)
  PROVE  IInv'
<1> DEFINE r == [Idle EXCEPT !.doc = d, !.act = a, !.was = status[d], !.pc = "asked"]
<1>1. /\ a \in Acts /\ status[d] \in Statuses
      /\ d \in Transfers => TransferAct(status[d], a)
      /\ d \in Counts => a \in {"count", "finalize", "cancel"}
      /\ d \in Orders => a \in {"submit", "receive", "cancel"}
  BY StepFacts, Typed DEF IInv
<1>2. /\ r \in ReqType /\ r.doc = d /\ r.act = a /\ r.was = status[d] /\ r.pc = "asked"
      /\ \A b \in Bins : r.book[b] = None
  BY <1>1 DEF ReqType, Idle, Uncounted
<1>3. req' = [req EXCEPT ![u] = r] /\ UNCHANGED <<status, onHand, moved, average, qty, counted>>
  BY DEF Ask, stock
<1> HIDE DEF r
<1>4. req' \in [Users -> ReqType] /\ req'[u] = r /\ OnlyMine(u)
  BY <1>2, <1>3, Typed DEF IInv, OnlyMine
<1>5. WellAsked(u)'
  BY <1>1, <1>2, <1>4 DEF WellAsked
<1>6. Booked'
  BY <1>2, <1>3, <1>4, OthersBooked
<1> QED
  BY <1>2, <1>3, <1>4, <1>5, <1>6, OnlyRequest, Typed DEF IInv

LEMMA FailInv ==
  ASSUME IInv, NEW u \in Users, Fail(u)
  PROVE  IInv'
<1>1. UNCHANGED <<status, onHand, moved, average, qty, counted>>
  BY DEF Fail, stock
<1>2. req' \in [Users -> ReqType] /\ req'[u] = Idle /\ OnlyMine(u)
  BY IdleFacts, Typed DEF IInv, OnlyMine, Fail
<1>3. Booked'
  BY <1>1, <1>2, IdleFacts, OthersBooked
<1> QED
  BY <1>1, <1>2, <1>3, IdleFacts, OnlyRequest, Typed DEF IInv

\* A transfer or an order that changes its status and nothing on the shelves.
LEMMA OnPaper ==
  ASSUME IInv, NEW u \in Users, NEW a, Turn(u, a), NEW to \in Statuses, Done(u, to),
         UNCHANGED <<onHand, moved, average, counted>>, qty' \in [Transfers -> Quantities],
         req[u].doc \in Transfers =>
           to \in TransferStatuses \ {"dispatched", "received"} /\ status[req[u].doc] \in {"requested", "draft"},
         req[u].doc \in Counts => to \in CountStatuses,
         req[u].doc \in Orders => to \in OrderStatuses \ {"received"},
         \A t \in Transfers \ {req[u].doc} : qty'[t] = qty[t]
  PROVE  IInv'
<1>1. req[u].pc = "asked" /\ HeldByNoOther(u, req[u].doc)
  BY TurnHolds DEF Turn
<1>2. req[u].doc \in Docs \ Outs
  BY <1>1, Busy
<1>3. /\ status' \in [Docs -> Statuses] /\ req' \in [Users -> ReqType]
      /\ status'[req[u].doc] = to /\ \A d \in Docs \ {req[u].doc} : status'[d] = status[d]
      /\ OnlyMine(u) /\ req'[u] = Idle
      /\ Fits' /\ Asked' /\ Exclusive'
  BY <1>1, <1>2, DoneKeeps
<1>4. TypeOK'
  BY <1>3, Typed, TypedNext DEF IInv
<1>5. Booked'
  BY <1>3, IdleFacts, OthersBooked
<1>6. TransferBalances'
  <2> SUFFICES ASSUME NEW t \in Transfers
               PROVE  /\ \A b \in Bins \ {From[t], To[t]} : ~Moves(t, b)'
                      /\ moved[t][From[t]] = IF status'[t] \in {"dispatched", "received"} THEN -qty'[t] ELSE 0
                      /\ Moves(t, To[t])' => status'[t] = "received"
    BY DEF TransferBalances
  <2>1. /\ \A b \in Bins \ {From[t], To[t]} : ~Moves(t, b)
        /\ moved[t][From[t]] = IF status[t] \in {"dispatched", "received"} THEN -qty[t] ELSE 0
        /\ Moves(t, To[t]) => status[t] = "received"
    BY DEF IInv, TransferBalances
  <2>2. CASE t = req[u].doc
    BY <2>1, <2>2, <1>3 DEF Moves
  <2>3. CASE t # req[u].doc
    BY <2>1, <2>3, <1>3 DEF Moves, Docs
  <2> QED
    BY <2>2, <2>3
<1>7. ReceivedWithinOrder'
  BY <1>3 DEF IInv, ReceivedWithinOrder, Docs
<1> QED
  BY <1>3, <1>4, <1>5, <1>6, <1>7 DEF IInv

LEMMA TransferFacts ==
  ASSUME IInv, NEW u \in Users, NEW a, Transfer(u, a)
  PROVE  /\ req[u].doc \in Transfers /\ req[u].doc \in Docs /\ req[u].pc = "asked" /\ req[u].act = a
         /\ status[req[u].doc] = req[u].was /\ TransferAct(req[u].was, a) /\ Turn(u, a)
  BY Busy DEF Transfer, Turn, AsItWas, WellAsked, Docs

LEMMA TransferOnPaper ==
  ASSUME IInv, NEW u \in Users, EditTransfer(u) \/ AcceptTransfer(u) \/ DropTransfer(u)
  PROVE  IInv'
<1>1. CASE EditTransfer(u)
  <2>1. PICK q \in Quantities :
          /\ Transfer(u, "edit") /\ qty' = [qty EXCEPT ![req[u].doc] = q]
          /\ Done(u, req[u].was) /\ UNCHANGED <<stock, average, counted>>
    BY <1>1 DEF EditTransfer
  <2>2. req[u].was \in {"requested", "draft"} /\ req[u].doc \in Transfers /\ req[u].doc \in Docs
        /\ status[req[u].doc] = req[u].was /\ Turn(u, "edit")
    BY <2>1, TransferFacts DEF TransferAct
  <2>3. qty' \in [Transfers -> Quantities] /\ \A t \in Transfers \ {req[u].doc} : qty'[t] = qty[t]
    BY <2>1, <2>2, Typed DEF IInv
  <2> QED
    BY <2>1, <2>2, <2>3, OnPaper, Disjoint DEF stock, Statuses, TransferStatuses
<1>2. CASE AcceptTransfer(u)
  <2>1. PICK q \in Quantities :
          /\ Transfer(u, "accept") /\ qty' = [qty EXCEPT ![req[u].doc] = q]
          /\ Done(u, "draft") /\ UNCHANGED <<stock, average, counted>>
    BY <1>2 DEF AcceptTransfer
  <2>2. req[u].was = "requested" /\ req[u].doc \in Transfers /\ req[u].doc \in Docs
        /\ status[req[u].doc] = req[u].was /\ Turn(u, "accept")
    BY <2>1, TransferFacts DEF TransferAct
  <2>3. qty' \in [Transfers -> Quantities] /\ \A t \in Transfers \ {req[u].doc} : qty'[t] = qty[t]
    BY <2>1, <2>2, Typed DEF IInv
  <2> QED
    BY <2>1, <2>2, <2>3, OnPaper, Disjoint DEF stock, Statuses, TransferStatuses
<1>3. CASE DropTransfer(u)
  <2>1. /\ Done(u, "cancelled") /\ UNCHANGED <<stock, average, qty, counted>>
        /\ Transfer(u, "decline") \/ (Transfer(u, "cancel") /\ req[u].was # "dispatched")
    BY <1>3 DEF DropTransfer
  <2>2. PICK a \in {"decline", "cancel"} : Transfer(u, a) /\ (a = "cancel" => req[u].was # "dispatched")
    BY <2>1
  <2>3. req[u].was \in {"requested", "draft"} /\ req[u].doc \in Transfers /\ req[u].doc \in Docs
        /\ status[req[u].doc] = req[u].was /\ Turn(u, a)
    BY <2>2, TransferFacts DEF TransferAct
  <2>4. qty' \in [Transfers -> Quantities] /\ \A t \in Transfers : qty'[t] = qty[t]
    BY <2>1, Typed DEF IInv
  <2> QED
    BY <2>1, <2>3, <2>4, OnPaper, Disjoint DEF stock, Statuses, TransferStatuses
<1> QED
  BY <1>1, <1>2, <1>3

LEMMA OrderOnPaper ==
  ASSUME IInv, NEW u \in Users, SubmitOrder(u) \/ CancelOrder(u) \/ CancelCount(u)
  PROVE  IInv'
<1>1. qty \in [Transfers -> Quantities]
  BY Typed DEF IInv
<1>2. CASE SubmitOrder(u)
  <2>1. Turn(u, "submit") /\ Done(u, "ordered") /\ UNCHANGED <<stock, average, qty, counted>>
    BY <1>2 DEF SubmitOrder
  <2>2. req[u].doc \in Orders /\ req[u].doc \in Docs
    BY <2>1, Busy DEF Turn, WellAsked, TransferAct, Docs
  <2> QED
    BY <1>1, <2>1, <2>2, OnPaper, Disjoint DEF stock, Statuses, OrderStatuses
<1>3. CASE CancelOrder(u)
  <2>1. /\ Turn(u, "cancel") /\ Done(u, "cancelled") /\ UNCHANGED <<stock, average, qty, counted>>
        /\ req[u].doc \in Orders /\ req[u].doc \in Docs
    BY <1>3 DEF CancelOrder, Docs
  <2> QED
    BY <1>1, <2>1, OnPaper, Disjoint DEF stock, Statuses, OrderStatuses
<1>4. CASE CancelCount(u)
  <2>1. /\ Turn(u, "cancel") /\ Done(u, "cancelled") /\ UNCHANGED <<stock, average, qty, counted>>
        /\ req[u].doc \in Counts /\ req[u].doc \in Docs
    BY <1>4 DEF CancelCount, Docs
  <2> QED
    BY <1>1, <2>1, OnPaper, Disjoint DEF stock, Statuses, CountStatuses
<1> QED
  BY <1>2, <1>3, <1>4

\* A request that moves q units of its document in bin b and ends.
LEMMA DonePost ==
  ASSUME IInv, NEW u \in Users, req[u].pc # "idle", NEW to \in Statuses, Done(u, to),
         HeldByNoOther(u, req[u].doc),
         req[u].doc \in Transfers => to \in TransferStatuses,
         req[u].doc \in Counts => to \in CountStatuses,
         req[u].doc \in Orders => to \in OrderStatuses,
         req[u].doc \in Outs => to = "posted",
         NEW b \in Bins, NEW q \in Int, Post(req[u].doc, b, q),
         \A v \in Users \ {u} : req[v].book[b] = None,
         average' \in [Bins -> SUBSET Docs], UNCHANGED <<qty, counted>>
  PROVE  TypeOK' /\ Fits' /\ Asked' /\ Exclusive' /\ Booked'
<1>1. req[u].doc \in Docs
  BY Busy
<1>2. /\ onHand' \in [Bins -> Int] /\ moved' \in [Docs -> [Bins -> Int]]
      /\ \A c \in Bins \ {b} : onHand'[c] = onHand[c]
  BY <1>1, PostFacts DEF IInv
<1>3. /\ status' \in [Docs -> Statuses] /\ req' \in [Users -> ReqType]
      /\ OnlyMine(u) /\ req'[u] = Idle
      /\ Fits' /\ Asked' /\ Exclusive'
  BY DoneKeeps
<1>4. TypeOK'
  BY <1>2, <1>3, Typed, TypedNext DEF IInv
<1>5. Booked'
  BY <1>2, <1>3, IdleFacts, OthersBooked
<1> QED
  BY <1>3, <1>4, <1>5

Balanced(t) ==
  /\ \A b \in Bins \ {From[t], To[t]} : ~Moves(t, b)
  /\ moved[t][From[t]] = IF status[t] \in {"dispatched", "received"} THEN -qty[t] ELSE 0
  /\ Moves(t, To[t]) => status[t] = "received"

Within(o) ==
  /\ moved[o][Into[o]] \in 0 .. Ordered[o]
  /\ status[o] = "received" => moved[o][Into[o]] = Ordered[o]

LEMMA BalanceKept ==
  ASSUME IInv, NEW t \in Transfers, status'[t] = status[t], moved'[t] = moved[t], qty'[t] = qty[t]
  PROVE  Balanced(t)'
  BY DEF IInv, TransferBalances, Balanced, Moves

LEMMA WithinKept ==
  ASSUME IInv, NEW o \in Orders, status'[o] = status[o], moved'[o] = moved[o]
  PROVE  Within(o)'
  BY DEF IInv, ReceivedWithinOrder, Within

LEMMA BalancedNext ==
  ASSUME NEW t \in Transfers, \A c \in Bins \ {From[t], To[t]} : moved'[t][c] = 0,
         moved'[t][From[t]] = IF status'[t] \in {"dispatched", "received"} THEN -qty'[t] ELSE 0,
         moved'[t][To[t]] = 0 \/ status'[t] = "received"
  PROVE  Balanced(t)'
  BY DEF Balanced, Moves

\* Only document x has moved: the others' balances stand.
LEMMA OthersBalance ==
  ASSUME IInv, NEW x \in Docs, qty' = qty,
         \A d \in Docs \ {x} : status'[d] = status[d] /\ moved'[d] = moved[d],
         x \in Transfers => Balanced(x)', x \in Orders => Within(x)'
  PROVE  TransferBalances' /\ ReceivedWithinOrder'
<1>1. ASSUME NEW t \in Transfers PROVE Balanced(t)'
  BY BalanceKept DEF Docs
<1>2. ASSUME NEW o \in Orders PROVE Within(o)'
  BY WithinKept DEF Docs
<1> QED
  BY <1>1, <1>2 DEF TransferBalances, ReceivedWithinOrder, Balanced, Within, Moves

\* A request locks the balance of its document's shelf and looks at it.
LEMMA LookInv ==
  ASSUME IInv, NEW u \in Users, NEW d \in Transfers \cup Checked, NEW b \in Bins, b = ShelfOf(d),
         NEW r \in ReqType, r.doc = d, r.pc = "sending", r.book[b] = onHand[b],
         \A c \in Bins \ {b} : r.book[c] = None,
         req' = [req EXCEPT ![u] = r], ~RowLocked(b), HeldByNoOther(u, d),
         d \in Transfers => TransferAct(r.was, r.act) /\ status[d] = "draft",
         UNCHANGED <<status, onHand, moved, average, qty, counted>>
  PROVE  IInv'
<1>1. req' \in [Users -> ReqType] /\ req'[u] = r /\ OnlyMine(u)
  BY Typed DEF IInv, OnlyMine
<1>2. d \in Docs \ (Outs \ Checked) /\ d \notin Counts /\ d \notin Orders /\ onHand[b] # None
  BY StockAssumption, Disjoint, Typed DEF IInv, Docs
<1>3. WellAsked(u)'
  BY <1>1, <1>2 DEF WellAsked, ShelfOf
<1>4. Booked'
  <2> SUFFICES ASSUME NEW v \in Users, NEW c \in Bins, req'[v].book[c] # None
               PROVE  /\ req'[v].pc \in {"booking", "sending"} /\ req'[v].book[c] = onHand[c]
                      /\ \A w \in Users \ {v} : req'[w].book[c] = None
    BY DEF Booked
  <2>1. \A w \in Users : req[w].book[b] = None
    BY DEF RowLocked
  <2>2. CASE v = u
    BY <1>1, <2>1, <2>2 DEF OnlyMine
  <2>3. CASE v # u
    <3>1. req'[v] = req[v] /\ c # b
      BY <1>1, <2>1, <2>3 DEF OnlyMine
    <3>2. /\ req[v].pc \in {"booking", "sending"} /\ req[v].book[c] = onHand[c]
          /\ \A w \in Users \ {v} : req[w].book[c] = None
      BY <3>1 DEF IInv, Booked
    <3> QED
      BY <1>1, <3>1, <3>2 DEF OnlyMine
  <2> QED
    BY <2>2, <2>3
<1> QED
  BY <1>1, <1>3, <1>4, OnlyRequest, Typed DEF IInv

LEMMA LookToDispatchInv ==
  ASSUME IInv, NEW u \in Users, LookToDispatch(u)
  PROVE  IInv'
<1>0. Transfer(u, "dispatch")
  BY DEF LookToDispatch
<1>1. PICK t \in Transfers : t = req[u].doc
  BY <1>0, TransferFacts
<1>2. PICK b \in Bins : b = From[t]
  BY StockAssumption
<1>3. /\ ~RowLocked(b) /\ req' = [req EXCEPT ![u].pc = "sending", ![u].book[b] = onHand[b]]
      /\ UNCHANGED <<status, onHand, moved, average, qty, counted>>
  BY <1>1, <1>2 DEF LookToDispatch, stock
<1>4. /\ req[u].pc = "asked" /\ req[u].was = "draft" /\ status[t] = "draft"
      /\ TransferAct(req[u].was, req[u].act) /\ Turn(u, "dispatch")
  BY <1>0, <1>1, TransferFacts DEF TransferAct
<1>5. req[u] \in ReqType /\ onHand[b] \in Int /\ \A c \in Bins : req[u].book[c] = None
  BY <1>4, Busy, Typed DEF IInv, Booked
<1> DEFINE book == [req[u].book EXCEPT ![b] = onHand[b]]
<1>6. book \in [Bins -> Int \cup {None}] /\ book[b] = onHand[b] /\ \A c \in Bins \ {b} : book[c] = None
  BY <1>5 DEF ReqType
<1> DEFINE r == [req[u] EXCEPT !.pc = "sending", !.book = book]
<1>7. req' = [req EXCEPT ![u] = r]
  BY <1>3
<1> HIDE DEF book
<1>8. r \in ReqType /\ r.doc = t /\ r.pc = "sending" /\ r.book = book /\ r.was = req[u].was /\ r.act = req[u].act
  BY <1>1, <1>5, <1>6 DEF ReqType
<1> HIDE DEF r
<1>9. HeldByNoOther(u, t) /\ b = ShelfOf(t)
  BY <1>1, <1>2, <1>4, TurnHolds DEF ShelfOf
<1> QED
  BY <1>3, <1>4, <1>6, <1>7, <1>8, <1>9, LookInv

LEMMA LookToTakeInv ==
  ASSUME IInv, NEW u \in Users, NEW o \in Checked, LookToTake(u, o)
  PROVE  IInv'
<1>1. o \in Outs /\ o \in Docs /\ o \notin Transfers
  BY StockAssumption, Disjoint DEF Docs
<1>2. PICK b \in Bins : b = OutOf[o]
  BY <1>1, StockAssumption
<1> DEFINE book == [Uncounted EXCEPT ![b] = onHand[b]]
           r == [Idle EXCEPT !.doc = o, !.act = "take", !.was = "open", !.pc = "sending", !.book = book]
<1>3. onHand[b] \in Int
  BY Typed DEF IInv
<1>4. book \in [Bins -> Int \cup {None}] /\ book[b] = onHand[b] /\ \A c \in Bins \ {b} : book[c] = None
  BY <1>3 DEF Uncounted
<1>5. /\ ~RowLocked(b) /\ ~DocLocked(o) /\ req' = [req EXCEPT ![u] = r]
      /\ UNCHANGED <<status, onHand, moved, average, qty, counted>>
  BY <1>2 DEF LookToTake, stock, Idle
<1> HIDE DEF book
<1>6. r \in ReqType /\ r.doc = o /\ r.pc = "sending" /\ r.book = book
  BY <1>1, <1>4 DEF ReqType, Idle, Uncounted, Acts, Statuses
<1> HIDE DEF r
<1>7. HeldByNoOther(u, o) /\ b = ShelfOf(o)
  BY <1>1, <1>2, <1>5 DEF ShelfOf, HeldByNoOther, DocLocked
<1> QED
  BY <1>1, <1>4, <1>5, <1>6, <1>7, LookInv

\* What was looked for is on the shelf, and nobody else has its balance locked.
LEMMA TakeOffFacts ==
  ASSUME IInv, NEW u \in Users, NEW d \in Docs, d = req[u].doc, NEW b \in Bins, b = ShelfOf(d),
         NEW q \in Nat, NEW to, TakeOff(u, q, to)
  PROVE  /\ req[u].pc = "sending" /\ HeldByNoOther(u, d) /\ WellAsked(u)
         /\ Post(d, b, -q) /\ Done(u, to) /\ UNCHANGED <<average, qty, counted>>
         /\ onHand[b] >= q /\ \A v \in Users \ {u} : req[v].book[b] = None
<1>1. /\ req[u].pc = "sending" /\ req[u].book[b] >= q
      /\ Post(d, b, -q) /\ Done(u, to) /\ UNCHANGED <<average, qty, counted>>
  BY DEF TakeOff
<1>2. WellAsked(u) /\ HeldByNoOther(u, d)
  BY <1>1, Busy, TransactionHolds DEF InTransaction
<1>3. req[u].book[b] # None
  BY <1>1, <1>2 DEF WellAsked
<1>4. req[u].book[b] = onHand[b] /\ \A v \in Users \ {u} : req[v].book[b] = None
  BY <1>3 DEF IInv, Booked
<1> QED
  BY <1>1, <1>2, <1>4

LEMMA DispatchInv ==
  ASSUME IInv, NEW u \in Users, DispatchTransfer(u)
  PROVE  IInv'
<1>0. PICK t \in Transfers : t = req[u].doc
  BY DEF DispatchTransfer
<1>a. t \in Docs /\ t \notin Counts /\ t \notin Orders /\ t \notin Outs
  BY Disjoint DEF Docs
<1>b. PICK n \in Nat \ {0} : n = qty[t]
  BY Typed DEF IInv, Quantities
<1>3. From[t] \in Bins /\ To[t] \in Bins /\ From[t] # To[t] /\ ShelfOf(t) = From[t] /\ -n \in Int
  BY StockAssumption DEF ShelfOf
<1>c. TakeOff(u, n, "dispatched")
  BY <1>0, <1>b DEF DispatchTransfer
<1>1. /\ req[u].pc = "sending" /\ HeldByNoOther(u, t) /\ WellAsked(u)
      /\ Post(t, From[t], -n) /\ Done(u, "dispatched") /\ UNCHANGED <<average, qty, counted>>
      /\ \A v \in Users \ {u} : req[v].book[From[t]] = None
  BY <1>0, <1>a, <1>3, <1>c, TakeOffFacts
<1>2. status[t] = "draft"
  BY <1>0, <1>1 DEF WellAsked
<1>6. TypeOK' /\ Fits' /\ Asked' /\ Exclusive' /\ Booked'
  BY <1>0, <1>1, <1>3, <1>a, DonePost, Typed DEF IInv, Statuses, TransferStatuses
<1>7. /\ moved'[t][From[t]] = moved[t][From[t]] + (-n)
      /\ \A c \in Bins \ {From[t]} : moved'[t][c] = moved[t][c]
      /\ \A e \in Docs \ {t} : moved'[e] = moved[e]
  BY <1>1, <1>3, <1>a, PostFacts DEF IInv
<1>8. status'[t] = "dispatched" /\ \A d \in Docs \ {t} : status'[d] = status[d]
  BY <1>0, <1>1, <1>a, Typed DEF IInv, Done
<1>9. Balanced(t)'
  <2>1. /\ \A b \in Bins \ {From[t], To[t]} : ~Moves(t, b)
        /\ moved[t][From[t]] = 0 /\ ~Moves(t, To[t])
    BY <1>2 DEF IInv, TransferBalances
  <2>2. moved'[t][From[t]] = -n
    BY <2>1, <1>7
  <2>3. moved'[t][To[t]] = 0 /\ \A b \in Bins \ {From[t], To[t]} : moved'[t][b] = 0
    BY <2>1, <1>3, <1>7 DEF Moves
  <2>4. -qty'[t] = -n
    BY <1>1, <1>b
  <2> QED
    BY <1>8, <2>2, <2>3, <2>4, BalancedNext
<1> QED
  BY <1>1, <1>a, <1>6, <1>7, <1>8, <1>9, OthersBalance DEF IInv

LEMMA TakeCheckedInv ==
  ASSUME IInv, NEW u \in Users, TakeChecked(u)
  PROVE  IInv'
<1>1. PICK o \in Checked : o = req[u].doc
  BY DEF TakeChecked
<1>2. o \in Docs /\ o \notin Counts /\ o \notin Orders /\ o \notin Transfers
  BY StockAssumption, Disjoint DEF Docs
<1>3. PICK b \in Bins : b = ShelfOf(o)
  BY <1>2, StockAssumption DEF ShelfOf
<1>4. TakeOff(u, 1, "posted") /\ 1 \in Nat /\ -1 \in Int
  BY DEF TakeChecked
<1>5. /\ req[u].pc = "sending" /\ HeldByNoOther(u, o)
      /\ Post(o, b, -1) /\ Done(u, "posted") /\ UNCHANGED <<average, qty, counted>>
      /\ \A v \in Users \ {u} : req[v].book[b] = None
  BY <1>1, <1>2, <1>3, <1>4, TakeOffFacts
<1>6. TypeOK' /\ Fits' /\ Asked' /\ Exclusive' /\ Booked'
  BY <1>1, <1>2, <1>4, <1>5, DonePost, Typed DEF IInv, Statuses
<1>7. \A e \in Docs \ {o} : moved'[e] = moved[e]
  BY <1>2, <1>4, <1>5, PostFacts DEF IInv
<1>8. \A d \in Docs \ {o} : status'[d] = status[d]
  BY <1>1, <1>2, <1>5, Typed DEF IInv, Done
<1> QED
  BY <1>2, <1>5, <1>6, <1>7, <1>8, OthersBalance DEF IInv

LEMMA ReadCostInv ==
  ASSUME IInv, NEW u \in Users, ReadCost(u)
  PROVE  IInv'
<1>1. PICK a : /\ Turn(u, a) /\ a \in {"receive", "cancel"} /\ req[u].doc \in Transfers \cup Orders
               /\ req[u].doc \in Transfers => Transfer(u, a) /\ (a = "cancel" => req[u].was = "dispatched")
               /\ req[u].doc \in Orders => a = "receive"
  <2>1. Lands(u)
    BY DEF ReadCost
  <2>2. ASSUME NEW a, Transfer(u, a) PROVE Turn(u, a) /\ req[u].doc \in Transfers /\ req[u].doc \notin Orders
    BY <2>2, TransferFacts, Disjoint
  <2>3. CASE Transfer(u, "receive")
    BY <2>2, <2>3
  <2>4. CASE Transfer(u, "cancel") /\ req[u].was = "dispatched"
    BY <2>2, <2>4
  <2>5. CASE Turn(u, "receive") /\ req[u].doc \in Orders
    BY <2>5, Disjoint DEF Docs
  <2> QED
    BY <2>1, <2>3, <2>4, <2>5 DEF Lands
<1>2. req[u].pc = "asked" /\ req[u].act = a
  BY <1>1 DEF Turn
<1>3. WellAsked(u) /\ req[u].doc \in Docs \ Outs /\ req[u] \in ReqType
  BY <1>2, Busy
<1> DEFINE b == Landing(u)
           d == req[u].doc
           mix == IF onHand[b] > 0 THEN average[b] \cup {d} ELSE {d}
<1>4. b \in Bins
  <2>1. d \in Orders => b = Into[d]
    BY <1>3, Disjoint DEF Landing
  <2>2. d \in Transfers => b = To[d] \/ b = From[d]
    BY <1>3, Disjoint DEF Landing
  <2> QED
    BY <1>1, <2>1, <2>2, StockAssumption
<1>5. mix \in SUBSET Docs
  BY <1>3, <1>4, Typed DEF IInv
<1>6. /\ req' = [req EXCEPT ![u].pc = "landing", ![u].mix = mix]
      /\ UNCHANGED <<status, onHand, moved, average, qty, counted>>
  BY DEF ReadCost, stock
<1> HIDE DEF mix
<1>7. /\ req' \in [Users -> ReqType] /\ OnlyMine(u)
      /\ req'[u].doc = req[u].doc /\ req'[u].act = req[u].act /\ req'[u].was = req[u].was
      /\ req'[u].pc = "landing" /\ req'[u].book = req[u].book
  BY <1>3, <1>5, <1>6, Typed DEF IInv, ReqType, OnlyMine
<1>8. WellAsked(u)'
  <2>1. d \in Transfers => req[u].was = "dispatched" /\ status[d] = "dispatched"
    BY <1>1, TransferFacts DEF TransferAct
  <2>2. d \notin Counts
    BY <1>1, <1>3, Disjoint
  <2>3. d \in Orders => req[u].act = "receive"
    BY <1>1, <1>2
  <2> QED
    BY <1>3, <1>6, <1>7, <2>1, <2>2, <2>3 DEF WellAsked
<1>9. HeldByNoOther(u, req[u].doc)
  BY <1>1, TurnHolds
<1>10. Booked'
  <2>1. \A c \in Bins : req[u].book[c] = None
    BY <1>2 DEF IInv, Booked
  <2> QED
    BY <1>6, <1>7, <2>1, OthersBooked
<1> QED
  BY <1>6, <1>7, <1>8, <1>9, <1>10, OnlyRequest, Typed DEF IInv

LEMMA LandFacts ==
  ASSUME IInv, NEW u \in Users, req[u].pc = "landing"
  PROVE  /\ WellAsked(u) /\ req[u].doc \in Docs \ Outs /\ req[u].doc \notin Counts
         /\ HeldByNoOther(u, req[u].doc)
         /\ req[u].doc \in Transfers =>
              status[req[u].doc] = "dispatched" /\ (req[u].act # "receive" => req[u].act = "cancel")
  BY Busy, TransactionHolds DEF InTransaction, WellAsked, TransferAct

\* Goods of a transfer land, at its destination or back at its source.
LEMMA LandTransfer ==
  ASSUME IInv, NEW u \in Users, NEW t \in Transfers, t = req[u].doc,
         NEW b \in {From[t], To[t]}, b = Landing(u),
         NEW q \in Nat \ {0}, NEW to \in {"received", "cancelled"}, Land(u, q, to),
         b = To[t] => to = "received", b = From[t] => to = "cancelled" /\ q = qty[t]
  PROVE  IInv'
<1>1. /\ req[u].pc = "landing" /\ ~RowLocked(b) /\ Post(t, b, q) /\ Done(u, to)
      /\ average' = [average EXCEPT ![b] = req[u].mix] /\ UNCHANGED <<qty, counted>>
  BY DEF Land
<1>2. /\ t \in Docs /\ t \notin Counts /\ t \notin Orders /\ t \notin Outs /\ HeldByNoOther(u, t)
      /\ status[t] = "dispatched" /\ req[u] \in ReqType
  BY <1>1, LandFacts, Busy, Disjoint
<1>3. From[t] \in Bins /\ To[t] \in Bins /\ From[t] # To[t] /\ b \in Bins /\ q \in Int
  BY StockAssumption
<1>4. average' \in [Bins -> SUBSET Docs]
  BY <1>1, <1>2, <1>3, Typed DEF IInv, ReqType
<1>5. TypeOK' /\ Fits' /\ Asked' /\ Exclusive' /\ Booked'
  BY <1>1, <1>2, <1>3, <1>4, DonePost DEF Statuses, TransferStatuses, RowLocked
<1>6. /\ moved'[t][b] = moved[t][b] + q
      /\ \A c \in Bins \ {b} : moved'[t][c] = moved[t][c]
      /\ \A e \in Docs \ {t} : moved'[e] = moved[e]
  BY <1>1, <1>2, <1>3, PostFacts DEF IInv
<1>7. status'[t] = to /\ \A d \in Docs \ {t} : status'[d] = status[d]
  BY <1>1, <1>2, Typed DEF IInv, Done
<1>8. /\ \A c \in Bins \ {From[t], To[t]} : ~Moves(t, c)
      /\ moved[t][From[t]] = -qty[t] /\ ~Moves(t, To[t])
  BY <1>2 DEF IInv, TransferBalances
<1>9. qty[t] \in Nat
  BY Typed DEF IInv, Quantities
<1>a. \A c \in Bins \ {From[t], To[t]} : moved'[t][c] = 0
  BY <1>6, <1>8 DEF Moves
<1>10. Balanced(t)'
  <2>1. CASE b = To[t]
    <3>1. to = "received" /\ moved'[t][From[t]] = -qty[t]
      BY <1>3, <1>6, <1>8, <2>1
    <3> QED
      BY <1>1, <1>7, <1>a, <3>1, BalancedNext
  <2>2. CASE b = From[t]
    <3>1. to = "cancelled" /\ moved'[t][From[t]] = 0
      BY <1>6, <1>8, <1>9, <2>2
    <3>2. moved'[t][To[t]] = 0
      BY <1>3, <1>6, <1>8, <2>2 DEF Moves
    <3> QED
      BY <1>7, <1>a, <3>1, <3>2, BalancedNext
  <2> QED
    BY <2>1, <2>2
<1> QED
  BY <1>1, <1>2, <1>5, <1>6, <1>7, <1>10, OthersBalance DEF IInv

LEMMA ReceiveInv ==
  ASSUME IInv, NEW u \in Users, ReceiveTransfer(u)
  PROVE  IInv'
<1>1. PICK t \in Transfers : t = req[u].doc
  BY DEF ReceiveTransfer
<1>2. t \in Docs /\ req[u].act = "receive" /\ t \notin Orders /\ t \notin Outs
  BY <1>1, Disjoint DEF ReceiveTransfer, Docs
<1>3. CASE \E q \in Quantities : Land(u, q, "received")
  <2>1. PICK q \in Quantities : Land(u, q, "received")
    BY <1>3
  <2>2. Landing(u) = To[t]
    BY <1>1, <1>2 DEF Landing
  <2>3. q \in Nat \ {0} /\ To[t] # From[t]
    BY StockAssumption DEF Quantities
  <2> QED
    BY <1>1, <2>1, <2>2, <2>3, LandTransfer
<1>4. CASE req[u].pc = "landing" /\ Done(u, "received") /\ UNCHANGED <<stock, average, qty, counted>>
  <2>1. HeldByNoOther(u, t) /\ status[t] = "dispatched" /\ t \notin Counts
    BY <1>1, <1>4, LandFacts
  <2>2. UNCHANGED <<onHand, moved, average, qty, counted>>
    BY <1>4 DEF stock
  <2>3. /\ status' \in [Docs -> Statuses] /\ req' \in [Users -> ReqType]
        /\ status'[t] = "received" /\ \A d \in Docs \ {t} : status'[d] = status[d]
        /\ OnlyMine(u) /\ req'[u] = Idle
        /\ Fits' /\ Asked' /\ Exclusive'
    BY <1>1, <1>2, <1>4, <2>1, DoneKeeps DEF Statuses, TransferStatuses
  <2>4. TypeOK'
    BY <2>2, <2>3, Typed, TypedNext DEF IInv
  <2>5. Booked'
    BY <2>2, <2>3, IdleFacts, OthersBooked
  <2>6. Balanced(t)'
    BY <2>1, <2>2, <2>3 DEF IInv, TransferBalances, Balanced, Moves
  <2> QED
    BY <1>2, <2>2, <2>3, <2>4, <2>5, <2>6, OthersBalance DEF IInv
<1> QED
  BY <1>3, <1>4 DEF ReceiveTransfer

LEMMA RecallInv ==
  ASSUME IInv, NEW u \in Users, RecallTransfer(u)
  PROVE  IInv'
<1>1. PICK t \in Transfers : t = req[u].doc
  BY DEF RecallTransfer
<1>2. Landing(u) = From[t] /\ From[t] # To[t]
  BY <1>1, Disjoint, StockAssumption DEF RecallTransfer, Landing, Docs
<1>3. qty[t] \in Nat \ {0}
  BY Typed DEF IInv, Quantities
<1> QED
  BY <1>1, <1>2, <1>3, LandTransfer DEF RecallTransfer

LEMMA ReceiveOrderInv ==
  ASSUME IInv, NEW u \in Users, ReceiveOrder(u)
  PROVE  IInv'
<1>1. PICK o \in Orders : o = req[u].doc
  BY DEF ReceiveOrder
<1> DEFINE b == Into[o]
           had == moved[o][b]
<1>2. o \in Docs /\ b \in Bins /\ Ordered[o] \in Nat /\ Landing(u) = b
  <2>1. o \in Docs /\ b \in Bins /\ Ordered[o] \in Nat
    BY StockAssumption DEF Docs
  <2> QED
    BY <1>1, <2>1, Disjoint DEF Landing
<1>3. had \in 0 .. Ordered[o]
  BY DEF IInv, ReceivedWithinOrder
<1>4. PICK q \in 1 .. Remaining(o) :
        Land(u, q, IF had + q >= Ordered[o] THEN "received" ELSE "partially_received")
  BY <1>1 DEF ReceiveOrder
<1>5. q \in Int /\ had + q \in 0 .. Ordered[o]
  BY <1>2, <1>3 DEF Remaining
<1>6. PICK to \in {"received", "partially_received"} :
        Land(u, q, to) /\ (to = "received" => had + q = Ordered[o])
  BY <1>2, <1>3, <1>4, <1>5
<1>7. /\ req[u].pc = "landing" /\ ~RowLocked(b) /\ Post(o, b, q) /\ Done(u, to)
      /\ average' = [average EXCEPT ![b] = req[u].mix] /\ UNCHANGED <<qty, counted>>
  BY <1>1, <1>2, <1>6 DEF Land
<1>8. /\ o \notin Counts /\ o \notin Transfers /\ o \notin Outs
      /\ HeldByNoOther(u, o) /\ req[u] \in ReqType
  BY <1>1, <1>2, <1>7, LandFacts, Busy, Disjoint
<1>9. average' \in [Bins -> SUBSET Docs]
  BY <1>2, <1>7, <1>8, Typed DEF IInv, ReqType
<1>10. TypeOK' /\ Fits' /\ Asked' /\ Exclusive' /\ Booked'
  BY <1>1, <1>2, <1>5, <1>7, <1>8, <1>9, DonePost DEF Statuses, OrderStatuses, RowLocked
<1>11. moved'[o][b] = had + q /\ \A e \in Docs \ {o} : moved'[e] = moved[e]
  BY <1>2, <1>5, <1>7, PostFacts DEF IInv
<1>12. status'[o] = to /\ \A d \in Docs \ {o} : status'[d] = status[d]
  BY <1>1, <1>2, <1>7, Typed DEF IInv, Done
<1>13. Within(o)'
  BY <1>5, <1>6, <1>11, <1>12 DEF Within
<1> QED
  BY <1>2, <1>7, <1>8, <1>10, <1>11, <1>12, <1>13, OthersBalance DEF IInv

LEMMA EnterCountInv ==
  ASSUME IInv, NEW u \in Users, EnterCount(u)
  PROVE  IInv'
<1>1. PICK b \in Bins, n \in Counted :
        /\ req[u].pc = "asked" /\ req[u].act = "count"
        /\ counted' = [counted EXCEPT ![req[u].doc][b] = n]
        /\ req' = [req EXCEPT ![u] = Idle]
        /\ UNCHANGED <<status, stock, average, qty>>
  BY DEF EnterCount
<1>2. req[u].doc \in Counts
  BY <1>1, Busy DEF WellAsked, TransferAct, Docs
<1>3. n \in Nat \cup {None}
  BY StockAssumption DEF Counted
<1>4. counted' \in [Counts -> [Bins -> Nat \cup {None}]]
  BY <1>1, <1>2, <1>3, Typed DEF IInv
<1>5. req' \in [Users -> ReqType] /\ req'[u] = Idle /\ OnlyMine(u)
  BY <1>1, IdleFacts, Typed DEF IInv, OnlyMine
<1>6. UNCHANGED <<status, onHand, moved, average, qty>>
  BY <1>1 DEF stock
<1>7. Booked'
  BY <1>5, <1>6, IdleFacts, OthersBooked
<1> QED
  BY <1>4, <1>5, <1>6, <1>7, IdleFacts, OnlyRequest

LEMMA BeginFinalizeInv ==
  ASSUME IInv, NEW u \in Users, BeginFinalize(u)
  PROVE  IInv'
<1>1. /\ Turn(u, "finalize") /\ req[u].pc = "asked" /\ req[u].act = "finalize"
      /\ req' = [req EXCEPT ![u].pc = "booking", ![u].counts = counted[req[u].doc]]
      /\ UNCHANGED <<status, onHand, moved, average, qty, counted>>
  BY DEF BeginFinalize, Turn, stock
<1>2. WellAsked(u) /\ req[u] \in ReqType
  BY <1>1, Busy
<1>3. req[u].doc \in Counts /\ req[u].doc \in Docs /\ req[u].doc \notin Outs
  BY <1>1, <1>2, Disjoint DEF WellAsked, TransferAct, Docs
<1>4. counted[req[u].doc] \in [Bins -> Nat \cup {None}]
  BY <1>3, Typed DEF IInv
<1>5. /\ req' \in [Users -> ReqType] /\ OnlyMine(u)
      /\ req'[u].doc = req[u].doc /\ req'[u].act = req[u].act /\ req'[u].was = req[u].was
      /\ req'[u].pc = "booking" /\ req'[u].book = req[u].book
  BY <1>1, <1>2, <1>4, Typed DEF IInv, ReqType, OnlyMine
<1>6. WellAsked(u)'
  BY <1>2, <1>3, <1>5 DEF WellAsked
<1>7. HeldByNoOther(u, req[u].doc)
  BY <1>1, TurnHolds
<1>8. Booked'
  <2>1. \A c \in Bins : req[u].book[c] = None
    BY <1>1 DEF IInv, Booked
  <2> QED
    BY <1>1, <1>5, <2>1, OthersBooked
<1> QED
  BY <1>1, <1>5, <1>6, <1>7, <1>8, OnlyRequest, Typed DEF IInv

LEMMA ReadBookInv ==
  ASSUME IInv, NEW u \in Users, NEW b \in Bins, ReadBook(u, b)
  PROVE  IInv'
<1>1. /\ req[u].pc = "booking" /\ ~RowLocked(b)
      /\ req' = [req EXCEPT ![u].book[b] = onHand[b]]
      /\ UNCHANGED <<status, onHand, moved, average, qty, counted>>
  BY DEF ReadBook, stock
<1>2. WellAsked(u) /\ req[u] \in ReqType
  BY <1>1, Busy
<1>3. onHand[b] \in Int
  BY Typed DEF IInv
<1>4. /\ req' \in [Users -> ReqType] /\ OnlyMine(u)
      /\ req'[u].doc = req[u].doc /\ req'[u].act = req[u].act /\ req'[u].was = req[u].was
      /\ req'[u].pc = "booking" /\ req'[u].book = [req[u].book EXCEPT ![b] = onHand[b]]
  <2> DEFINE book == [req[u].book EXCEPT ![b] = onHand[b]]
  <2>1. book \in [Bins -> Int \cup {None}]
    BY <1>2, <1>3 DEF ReqType
  <2>2. req' = [req EXCEPT ![u].book = book]
    BY <1>1
  <2> HIDE DEF book
  <2>3. /\ req' \in [Users -> ReqType] /\ OnlyMine(u)
        /\ req'[u].doc = req[u].doc /\ req'[u].act = req[u].act /\ req'[u].was = req[u].was
        /\ req'[u].pc = req[u].pc /\ req'[u].book = book
    BY <1>2, <2>1, <2>2, Typed DEF IInv, ReqType, OnlyMine
  <2> QED
    BY <1>1, <2>3 DEF book
<1>5. WellAsked(u)'
  BY <1>1, <1>2, <1>4 DEF WellAsked
<1>6. HeldByNoOther(u, req[u].doc)
  BY <1>1, TransactionHolds DEF InTransaction
<1>7. Booked'
  <2> SUFFICES ASSUME NEW v \in Users, NEW c \in Bins, req'[v].book[c] # None
               PROVE  /\ req'[v].pc \in {"booking", "sending"} /\ req'[v].book[c] = onHand[c]
                      /\ \A w \in Users \ {v} : req'[w].book[c] = None
    BY <1>1 DEF Booked
  <2>0. req[u].book \in [Bins -> Int \cup {None}]
    BY <1>2 DEF ReqType
  <2>1. /\ req'[u].book[b] = onHand[b]
        /\ \A e \in Bins \ {b} : req'[u].book[e] = req[u].book[e]
        /\ \A w \in Users \ {u} : req'[w] = req[w]
        /\ \A w \in Users : req[w].book[b] = None
    BY <1>1, <1>4, <2>0 DEF OnlyMine, RowLocked
  <2>2. CASE c = b
    <3>1. v = u
      BY <2>1, <2>2
    <3> QED
      BY <1>4, <2>1, <2>2, <3>1
  <2>3. CASE c # b
    <3>1. \A w \in Users : req'[w].book[c] = req[w].book[c]
      BY <2>1, <2>3
    <3>2. /\ req[v].pc \in {"booking", "sending"} /\ req[v].book[c] = onHand[c]
          /\ \A w \in Users \ {v} : req[w].book[c] = None
      BY <3>1 DEF IInv, Booked
    <3> QED
      BY <1>4, <2>1, <3>1, <3>2
  <2> QED
    BY <2>2, <2>3
<1> QED
  BY <1>1, <1>4, <1>5, <1>6, <1>7, OnlyRequest, Typed DEF IInv

\* A stocktake leaves what it counted.
LEMMA CountLeaves ==
  ASSUME IInv, NEW u \in Users, PostCount(u)
  PROVE  /\ req[u].pc = "booking" /\ req[u].doc \in Counts /\ Done(u, "finalized")
         /\ UNCHANGED <<average, qty, counted>>
         /\ onHand' \in [Bins -> Int] /\ moved' \in [Docs -> [Bins -> Int]]
         /\ \A d \in Docs \ {req[u].doc} : moved'[d] = moved[d]
         /\ \A b \in Bins : req[u].counts[b] # None =>
              req[u].counts[b] \in Nat /\ onHand'[b] = req[u].counts[b] /\ req[u].book[b] # None
         /\ \A b \in Bins : req[u].counts[b] = None => onHand'[b] = onHand[b]
<1> DEFINE s == req[u].doc
           diff == [b \in Bins |->
             IF req[u].counts[b] = None THEN 0 ELSE req[u].counts[b] - req[u].book[b]]
<1>1. /\ req[u].pc = "booking"
      /\ \A b \in Bins : req[u].counts[b] # None => req[u].book[b] # None
      /\ onHand' = [b \in Bins |-> onHand[b] + diff[b]]
      /\ moved' = [moved EXCEPT ![s] = [b \in Bins |-> @[b] + diff[b]]]
      /\ Done(u, "finalized") /\ UNCHANGED <<average, qty, counted>>
  BY DEF PostCount
<1>2. WellAsked(u) /\ req[u] \in ReqType
  BY <1>1, Busy
<1>3. s \in Counts /\ s \in Docs
  BY <1>1, <1>2 DEF WellAsked
<1>4. onHand \in [Bins -> Int] /\ moved \in [Docs -> [Bins -> Int]]
  BY Typed DEF IInv
<1>5. ASSUME NEW b \in Bins
      PROVE  /\ diff[b] \in Int
             /\ req[u].counts[b] # None => /\ req[u].counts[b] \in Nat
                                           /\ diff[b] = req[u].counts[b] - onHand[b]
             /\ req[u].counts[b] = None => diff[b] = 0
  <2>1. req[u].counts[b] \in Nat \cup {None} /\ req[u].book[b] \in Int \cup {None}
    BY <1>2 DEF ReqType
  <2>2. req[u].counts[b] # None => req[u].book[b] = onHand[b] /\ onHand[b] \in Int
    BY <1>1, <1>4 DEF IInv, Booked
  <2> QED
    BY <2>1, <2>2
<1>6. ASSUME NEW b \in Bins
      PROVE  /\ onHand'[b] \in Int
             /\ req[u].counts[b] # None => onHand'[b] = req[u].counts[b]
             /\ req[u].counts[b] = None => onHand'[b] = onHand[b]
  <2>1. onHand'[b] = onHand[b] + diff[b] /\ onHand[b] \in Int
    BY <1>1, <1>4
  <2> HIDE DEF diff
  <2> QED
    BY <2>1, <1>5
<1> HIDE DEF diff
<1>7. onHand' \in [Bins -> Int]
  BY <1>1, <1>6
<1>8. moved' \in [Docs -> [Bins -> Int]] /\ \A d \in Docs \ {s} : moved'[d] = moved[d]
  <2>1. [b \in Bins |-> moved[s][b] + diff[b]] \in [Bins -> Int]
    BY <1>3, <1>4, <1>5
  <2> QED
    BY <1>1, <1>3, <1>4, <2>1
<1> QED
  BY <1>1, <1>3, <1>5, <1>6, <1>7, <1>8

LEMMA PostCountInv ==
  ASSUME IInv, NEW u \in Users, PostCount(u)
  PROVE  IInv'
<1>1. PICK s \in Counts : s = req[u].doc
  BY CountLeaves
<1>2. s \in Docs /\ s \notin Transfers /\ s \notin Orders /\ s \notin Outs /\ HeldByNoOther(u, s)
  BY <1>1, CountLeaves, TransactionHolds, Disjoint DEF InTransaction, Docs
<1>3. /\ status' \in [Docs -> Statuses] /\ req' \in [Users -> ReqType]
      /\ \A d \in Docs \ {s} : status'[d] = status[d]
      /\ OnlyMine(u) /\ req'[u] = Idle
      /\ Fits' /\ Asked' /\ Exclusive'
  BY <1>1, <1>2, CountLeaves, DoneKeeps DEF Statuses, CountStatuses
<1>4. TypeOK'
  BY <1>3, CountLeaves, Typed, TypedNext DEF IInv
<1>5. Booked'
  <2>1. ASSUME NEW b \in Bins, NEW v \in Users \ {u}, req[v].book[b] # None
        PROVE  onHand'[b] = onHand[b]
    <3>1. req[u].book[b] = None
      BY <2>1 DEF IInv, Booked
    <3> QED
      BY <3>1, CountLeaves
  <2> QED
    BY <1>3, <2>1, IdleFacts, OthersBooked
<1> QED
  BY <1>1, <1>2, <1>3, <1>4, <1>5, CountLeaves, OthersBalance DEF IInv

\* A sale, a waste or a return, or the void of a sale: no request is involved.
LEMMA OutKeeps ==
  ASSUME IInv, NEW o \in Outs, NEW q \in Int, Post(o, OutOf[o], q), ~RowLocked(OutOf[o]),
         NEW to \in {"posted", "voided"}, status' = [status EXCEPT ![o] = to],
         UNCHANGED <<average, qty, counted, req>>
  PROVE  IInv'
<1>1. o \in Docs /\ o \notin Transfers /\ o \notin Orders /\ OutOf[o] \in Bins
  BY StockAssumption DEF Docs
<1>2. /\ onHand' \in [Bins -> Int] /\ moved' \in [Docs -> [Bins -> Int]]
      /\ \A c \in Bins \ {OutOf[o]} : onHand'[c] = onHand[c]
      /\ \A e \in Docs \ {o} : moved'[e] = moved[e]
  BY <1>1, PostFacts DEF IInv
<1>3. /\ status' \in [Docs -> Statuses] /\ status'[o] = to
      /\ \A d \in Docs \ {o} : status'[d] = status[d]
  BY <1>1, Typed DEF IInv, Statuses
<1>4. TypeOK'
  BY <1>2, <1>3, Typed, TypedNext DEF IInv
<1>5. Fits'
  BY <1>1, <1>3, Disjoint DEF IInv, Fits, Docs
<1>6. Asked'
  <2> SUFFICES ASSUME NEW u \in Users, req[u] # Idle PROVE WellAsked(u)'
    BY DEF Asked, Idle
  <2>1. WellAsked(u)
    BY DEF IInv, Asked
  <2> QED
    BY <1>1, <1>3, <2>1 DEF WellAsked
<1>7. Exclusive'
  BY DEF IInv, Exclusive, InTransaction
<1>8. Booked'
  BY <1>2 DEF IInv, Booked, RowLocked
<1> QED
  BY <1>1, <1>2, <1>3, <1>4, <1>5, <1>6, <1>7, <1>8, OthersBalance DEF IInv

LEMMA OutInv ==
  ASSUME IInv, NEW o \in Outs, TakeOut(o) \/ Void(o)
  PROVE  IInv'
<1>1. CASE TakeOut(o)
  <2>1. /\ Post(o, OutOf[o], -1) /\ ~RowLocked(OutOf[o])
        /\ status' = [status EXCEPT ![o] = "posted"] /\ UNCHANGED <<average, qty, counted, req>>
    BY <1>1 DEF TakeOut
  <2>2. -1 \in Int /\ "posted" \in {"posted", "voided"}
    OBVIOUS
  <2> QED
    BY <2>1, <2>2, OutKeeps
<1>2. CASE Void(o)
  <2>1. /\ Post(o, OutOf[o], 1) /\ ~RowLocked(OutOf[o])
        /\ status' = [status EXCEPT ![o] = "voided"] /\ UNCHANGED <<average, qty, counted, req>>
    BY <1>2 DEF Void
  <2>2. 1 \in Int /\ "voided" \in {"posted", "voided"}
    OBVIOUS
  <2> QED
    BY <2>1, <2>2, OutKeeps
<1> QED
  BY <1>1, <1>2

LEMMA StutterInv ==
  ASSUME IInv, UNCHANGED vars
  PROVE  IInv'
  BY DEF IInv, vars, stock, TypeOK, Fits, Asked, WellAsked, Exclusive, InTransaction, Booked,
         TransferBalances, ReceivedWithinOrder, Moves

LEMMA NextInv == IInv /\ [Next]_vars => IInv'
<1> SUFFICES ASSUME IInv, [Next]_vars PROVE IInv'
  OBVIOUS
<1>1. ASSUME NEW u \in Users, NEW d \in Docs \ Outs, NEW a \in Steps(d), Ask(u, d, a) PROVE IInv'
  BY <1>1, AskInv
<1>2. ASSUME NEW u \in Users, TransferStep(u) PROVE IInv'
  BY <1>2, TransferOnPaper, LookToDispatchInv, DispatchInv DEF TransferStep
<1>3. ASSUME NEW u \in Users, Arrival(u) PROVE IInv'
  BY <1>3, ReadCostInv, ReceiveInv, RecallInv, ReceiveOrderInv DEF Arrival
<1>4. ASSUME NEW u \in Users, SubmitOrder(u) \/ CancelOrder(u) PROVE IInv'
  BY <1>4, OrderOnPaper
<1>5. ASSUME NEW u \in Users, CountStep(u) PROVE IInv'
  BY <1>5, EnterCountInv, BeginFinalizeInv, ReadBookInv, PostCountInv, OrderOnPaper DEF CountStep
<1>6. ASSUME NEW u \in Users, Fail(u) PROVE IInv'
  BY <1>6, FailInv
<1>7. ASSUME NEW o \in Outs, TakeOut(o) \/ Void(o) PROVE IInv'
  BY <1>7, OutInv
<1>8. ASSUME NEW u \in Users, Checking(u) PROVE IInv'
  BY <1>8, LookToTakeInv, TakeCheckedInv DEF Checking
<1>9. CASE UNCHANGED vars
  BY <1>9, StutterInv
<1> QED
  BY <1>1, <1>2, <1>3, <1>4, <1>5, <1>6, <1>7, <1>8, <1>9 DEF Next

-----------------------------------------------------------------------------
(* The results.                                                            *)

\* Every request finds its document in a status that fits it, and every balance
\* a stocktake has read is still the one on the shelf.
THEOREM StockInvariant == Spec => []IInv
<1>1. Init => IInv
  BY InitInv
<1>2. IInv /\ [Next]_vars => IInv'
  BY NextInv
<1> QED
  BY <1>1, <1>2, PTL DEF Spec

\* Whatever users, sales and stocktakes do, every variable keeps its type.
THEOREM StockTypes == Spec => []TypeOK
<1>1. IInv => TypeOK
  BY DEF IInv
<1> QED
  BY <1>1, StockInvariant, PTL

\* dispatch_transfer, receive_transfer, cancel_transfer: a transfer's stock is in
\* one place, however the two sides' requests race.
THEOREM TransfersBalance == Spec => []TransferBalances
<1>1. IInv => TransferBalances
  BY DEF IInv
<1> QED
  BY <1>1, StockInvariant, PTL

\* receive_purchase_order: never more than was ordered, and closed as received
\* only when all of it came.
THEOREM OrdersNotOverReceived == Spec => []ReceivedWithinOrder
<1>1. IInv => ReceivedWithinOrder
  BY DEF IInv
<1> QED
  BY <1>1, StockInvariant, PTL

\* finalize_stocktake: what was counted is what is left on the shelf.
THEOREM CountsStand == Spec => CountStands
<1> DEFINE Stands == \A u \in Users : PostCount(u) =>
                       \A b \in Bins : req[u].counts[b] # None => onHand'[b] = req[u].counts[b]
<1>1. IInv /\ [Next]_vars => [Stands]_vars
  <2> SUFFICES ASSUME IInv PROVE Stands
    OBVIOUS
  <2> QED
    BY CountLeaves
<1> QED
  BY <1>1, StockInvariant, PTL DEF Spec, CountStands

OutGone == \E o \in Outs \ Checked : status'[o] # status[o]

\* What a step may take a balance below zero by.
LEMMA StepOverdraws ==
  ASSUME IInv, [Next]_vars, NEW b \in Bins, onHand'[b] < onHand[b], onHand'[b] < 0
  PROVE  OutGone
<1>0. onHand \in [Bins -> Int]
  BY Typed DEF IInv
<1>1. ASSUME NEW d \in Docs, NEW c \in Bins, NEW q \in Int, Post(d, c, q),
             q >= 0 \/ onHand[c] + q >= 0
      PROVE  FALSE
  <2>1. onHand'[c] = onHand[c] + q /\ \A e \in Bins \ {c} : onHand'[e] = onHand[e]
    BY <1>1, PostFacts DEF IInv
  <2>2. c = b
    BY <2>1, <1>0
  <2> QED
    BY <1>0, <1>1, <2>1, <2>2
<1>2. ASSUME onHand' = onHand PROVE FALSE
  BY <1>0, <1>2
<1>3. ASSUME NEW u \in Users, NEW d \in Docs \ Outs, NEW a \in Steps(d), Ask(u, d, a) PROVE FALSE
  BY <1>2, <1>3 DEF Ask, stock
<1>4. ASSUME NEW u \in Users, NEW d \in Transfers \cup Checked, d = req[u].doc,
             NEW q \in Nat, NEW to, TakeOff(u, q, to)
      PROVE  FALSE
  <2>1. d \in Docs /\ ShelfOf(d) \in Bins
    BY StockAssumption DEF ShelfOf, Docs
  <2>2. PICK c \in Bins : c = ShelfOf(d)
    BY <2>1
  <2>3. Post(d, c, -q) /\ onHand[c] >= q /\ onHand[c] \in Int /\ -q \in Int
    BY <2>1, <2>2, <1>4, <1>0, TakeOffFacts
  <2>4. onHand[c] + (-q) >= 0
    BY <2>3
  <2> QED
    BY <2>1, <2>3, <2>4, <1>1
<1>5. ASSUME NEW u \in Users, TransferStep(u) PROVE FALSE
  <2>1. CASE DispatchTransfer(u)
    <3>1. PICK t \in Transfers : t = req[u].doc /\ TakeOff(u, qty[t], "dispatched")
      BY <2>1 DEF DispatchTransfer
    <3>2. qty[t] \in Nat
      BY Typed DEF IInv, Quantities
    <3> QED
      BY <3>1, <3>2, <1>4
  <2>2. CASE ~DispatchTransfer(u)
    BY <1>2, <1>5, <2>2 DEF TransferStep, EditTransfer, AcceptTransfer, DropTransfer, LookToDispatch, stock
  <2> QED
    BY <2>1, <2>2
<1>6. ASSUME NEW u \in Users, NEW q \in Nat, NEW to, Land(u, q, to), Landing(u) \in Bins PROVE FALSE
  <2>1. req[u].doc \in Docs /\ Post(req[u].doc, Landing(u), q)
    BY <1>6, LandFacts DEF Land
  <2>2. q \in Int /\ q >= 0
    OBVIOUS
  <2> QED
    BY <1>1, <1>6, <2>1, <2>2
<1>7. ASSUME NEW u \in Users, Arrival(u) PROVE FALSE
  <2>1. CASE ReadCost(u)
    BY <2>1, <1>2 DEF ReadCost, stock
  <2>2. req[u].doc \in Transfers \cup Orders => Landing(u) \in Bins
    <3>1. CASE req[u].doc \in Orders
      BY <3>1, Disjoint, StockAssumption DEF Landing, Docs
    <3>2. CASE req[u].doc \in Transfers
      BY <3>2, Disjoint, StockAssumption DEF Landing, Docs
    <3> QED
      BY <3>1, <3>2
  <2>3. CASE ReceiveTransfer(u)
    <3>1. CASE \E q \in Quantities : Land(u, q, "received")
      <4>1. PICK q \in Quantities : Land(u, q, "received")
        BY <3>1
      <4> QED
        BY <4>1, <2>2, <2>3, <1>6 DEF ReceiveTransfer, Quantities
    <3>2. CASE UNCHANGED <<stock, average, qty, counted>>
      BY <3>2, <1>2 DEF stock
    <3> QED
      BY <2>3, <3>1, <3>2 DEF ReceiveTransfer
  <2>4. CASE RecallTransfer(u)
    <3>1. /\ req[u].doc \in Transfers /\ Land(u, qty[req[u].doc], "cancelled")
      BY <2>4 DEF RecallTransfer
    <3>2. qty[req[u].doc] \in Nat
      BY <3>1, Typed DEF IInv, Quantities
    <3> QED
      BY <3>1, <3>2, <2>2, <1>6
  <2>5. CASE ReceiveOrder(u)
    <3>1. req[u].doc \in Orders
      BY <2>5 DEF ReceiveOrder
    <3>2. PICK q \in 1 .. Remaining(req[u].doc), to \in {"received", "partially_received"} : Land(u, q, to)
      BY <2>5 DEF ReceiveOrder
    <3>3. Remaining(req[u].doc) \in Int
      BY <3>1, StockAssumption DEF Remaining, IInv, ReceivedWithinOrder
    <3>4. q \in Nat
      BY <3>3
    <3> QED
      BY <3>1, <3>2, <3>4, <2>2, <1>6
  <2> QED
    BY <1>7, <2>1, <2>3, <2>4, <2>5 DEF Arrival
<1>8. ASSUME NEW u \in Users, PostCount(u) PROVE FALSE
  <2>1. CASE req[u].counts[b] = None
    BY <1>0, <1>8, <2>1, CountLeaves
  <2>2. CASE req[u].counts[b] # None
    BY <1>8, <2>2, CountLeaves
  <2> QED
    BY <2>1, <2>2
<1>9. ASSUME NEW u \in Users, CountStep(u) PROVE FALSE
  BY <1>2, <1>8, <1>9 DEF CountStep, EnterCount, BeginFinalize, ReadBook, CancelCount, stock
<1>10. ASSUME NEW u \in Users, SubmitOrder(u) \/ CancelOrder(u) \/ Fail(u) PROVE FALSE
  BY <1>2, <1>10 DEF SubmitOrder, CancelOrder, Fail, stock
<1>11. ASSUME NEW o \in Outs, TakeOut(o) PROVE OutGone
  <2>1. o \in Outs \ Checked /\ o \in Docs /\ status[o] = "open"
        /\ status' = [status EXCEPT ![o] = "posted"]
    BY <1>11 DEF TakeOut, Docs
  <2> QED
    BY <2>1, Typed DEF IInv, OutGone
<1>12. ASSUME NEW o \in Outs, Void(o) PROVE FALSE
  <2>1. o \in Docs /\ OutOf[o] \in Bins /\ Post(o, OutOf[o], 1)
    BY <1>12, StockAssumption DEF Void, Docs
  <2> QED
    BY <2>1, <1>1
<1>13. ASSUME NEW u \in Users, Checking(u) PROVE FALSE
  <2>1. CASE TakeChecked(u)
    <3>1. PICK o \in Checked : o = req[u].doc /\ TakeOff(u, 1, "posted")
      BY <2>1 DEF TakeChecked
    <3> QED
      BY <3>1, <1>4
  <2>2. CASE ~TakeChecked(u)
    BY <1>2, <1>13, <2>2 DEF Checking, LookToTake, stock
  <2> QED
    BY <2>1, <2>2
<1>14. CASE UNCHANGED vars
  BY <1>14, <1>2 DEF vars, stock
<1> QED
  BY <1>3, <1>5, <1>7, <1>9, <1>10, <1>11, <1>12, <1>13, <1>14 DEF Next

\* lock_on_hand before record_movement (dispatch_transfer, create_waste, the return
\* to a supplier): what was looked for is there when it is taken, so that only a
\* sale or a POST /inventory/waste takes a balance below zero.
THEOREM CheckedNeverOverdraw == Spec => OnlyUncheckedOverdraw
<1> DEFINE Kept == \A b \in Bins : onHand'[b] < onHand[b] /\ onHand'[b] < 0 =>
                     \E o \in Outs \ Checked : status'[o] # status[o]
<1>1. IInv /\ [Next]_vars => [Kept]_vars
  <2> SUFFICES ASSUME IInv, [Next]_vars PROVE Kept
    OBVIOUS
  <2> QED
    BY StepOverdraws DEF OutGone
<1> QED
  BY <1>1, StockInvariant, PTL DEF Spec, OnlyUncheckedOverdraw
=============================================================================
