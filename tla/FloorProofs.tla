---------------------------- MODULE FloorProofs ----------------------------
(***************************************************************************)
(* Proofs about Floor, for every number of tables, bills, parties,         *)
(* transfer requests and concurrent requests: an open bill sits where it   *)
(* says, a party keeps its table, a transfer request resolves once.        *)
(***************************************************************************)
EXTENDS Floor, TLAPS

\* What a request carries still makes sense when it commits.
WellAsked(r) ==
  /\ r.op = "fire" => r.x \in Bills /\ r.t \in Tables \cup {Nobody}
  /\ r.op = "hold" => r.x \in Parties /\ r.t \in Tables
  /\ r.op = "move" => r.x \in Bills /\ bill[r.x] # "none" /\ r.t \in Tables
  /\ r.op = "swap" => r.t \in Tables /\ r.u \in Tables /\ r.t # r.u
  /\ r.op = "wish" => r.x \in Bills /\ r.t \in Wishes
  /\ r.op = "fulfil" => r.x \in Tables /\ r.t \in Wishes

Asked == \A w \in Workers : WellAsked(req[w])

\* A bill not yet opened sits nowhere.
Unopened == \A b \in Bills : bill[b] = "none" => at[b] = Nobody /\ Seats(b) = {}

\* A waiting transfer request has its bill.
WishNamed == \A i \in Wishes : wish[i].status = "waiting" => wish[i].bill \in Bills

IInv == TypeOK /\ Asked /\ Unopened /\ WishNamed /\ BillAtItsTable

\* What a transaction that lands one occupant writes.
Single(t, x) == [s \in {t} |-> x]

Occupants == Bills \cup Parties \cup {Nobody}

Requests ==
  [op : {"none", "fire", "hold", "move", "swap", "wish", "fulfil"},
   x : Bills \cup Parties \cup Tables \cup {Nobody},
   t : Tables \cup Wishes \cup {Nobody}, u : Tables \cup {Nobody}]

ClockTyped == older \in [Workers -> SUBSET Workers]
              /\ late \in [Workers -> SUBSET Tables] /\ fresh \in [Workers -> SUBSET Tables]

-----------------------------------------------------------------------------
(* The requests and the clock.                                             *)

LEMMA IdleTyped == Idle \in Requests /\ WellAsked(Idle) /\ WellAsked(Idle)'
  BY DEF Idle, Job, Requests, WellAsked

LEMMA EndFacts ==
  ASSUME IInv, NEW w \in Workers, NEW ended, NEW landed \in SUBSET Tables, End(w, ended, landed)
  PROVE  /\ req' \in [Workers -> Requests] /\ req'[w] = Idle
         /\ \A v \in Workers \ {w} : req'[v] = req[v]
         /\ ClockTyped'
<1> USE DEF IInv, TypeOK
<1>1. req \in [Workers -> Requests] /\ req' = [req EXCEPT ![w] = Idle]
  BY DEF Requests, End
<1>2. ClockTyped'
  BY DEF End, ClockTyped
<1> QED
  BY <1>1, <1>2, IdleTyped

\* A request that is answered leaves the others sound.
LEMMA AnsweredKept ==
  ASSUME IInv, NEW w \in Workers, req'[w] = Idle, \A v \in Workers \ {w} : req'[v] = req[v],
         \A b \in Bills : bill[b] # "none" => bill'[b] # "none"
  PROVE  Asked'
<1> SUFFICES ASSUME NEW v \in Workers PROVE WellAsked(req[v])'
  BY DEF Asked
<1>1. CASE v = w
  BY <1>1, IdleTyped DEF WellAsked, Idle, Job
<1>2. CASE v # w
  BY <1>2 DEF WellAsked, IInv, Asked
<1> QED
  BY <1>1, <1>2

LEMMA BeginInv ==
  ASSUME IInv, NEW w \in Workers, NEW job \in Requests, Begin(w, job), WellAsked(job)
  PROVE  IInv'
<1> USE DEF IInv, ledger
<1>1. req \in [Workers -> Requests] /\ req' = [req EXCEPT ![w] = job]
      /\ UNCHANGED <<ledger, bill, at, wish, late, fresh>>
  BY DEF TypeOK, Requests, Begin
<1>2. req' \in [Workers -> Requests]
  BY <1>1
<1>3. older' \in [Workers -> SUBSET Workers]
  BY DEF Begin, InFlight, TypeOK
<1>4. TypeOK'
  BY <1>1, <1>2, <1>3 DEF TypeOK, Requests
<1>5. Asked'
  <2> SUFFICES ASSUME NEW v \in Workers PROVE WellAsked(req[v])'
    BY DEF Asked
  <2>1. req'[v] = job \/ req'[v] = req[v]
    BY <1>1
  <2>2. WellAsked(req[v])
    BY DEF Asked
  <2> QED
    BY <1>1, <2>1, <2>2 DEF WellAsked
<1>6. Unopened' /\ WishNamed' /\ BillAtItsTable'
  BY <1>1 DEF Unopened, WishNamed, BillAtItsTable, Seats
<1> QED
  BY <1>4, <1>5, <1>6

LEMMA RequestInv ==
  ASSUME IInv, NEW w \in Workers, Request(w)
  PROVE  IInv'
<1> USE FloorAssumption
<1>1. ASSUME AskFire(w) PROVE IInv'
  <2>1. PICK b \in Bills, t \in Tables \cup {Nobody} : Begin(w, Job("fire", b, t, Nobody))
    BY <1>1 DEF AskFire
  <2>2. Job("fire", b, t, Nobody) \in Requests /\ WellAsked(Job("fire", b, t, Nobody))
    BY DEF Job, Requests, WellAsked
  <2> QED
    BY <2>1, <2>2, BeginInv
<1>2. ASSUME AskHold(w) PROVE IInv'
  <2>1. PICK p \in Parties, t \in Tables : Begin(w, Job("hold", p, t, Nobody))
    BY <1>2 DEF AskHold
  <2>2. Job("hold", p, t, Nobody) \in Requests /\ WellAsked(Job("hold", p, t, Nobody))
    BY DEF Job, Requests, WellAsked
  <2> QED
    BY <2>1, <2>2, BeginInv
<1>3. ASSUME AskMove(w) PROVE IInv'
  <2>1. PICK b \in Bills, t \in Tables : bill[b] = "open" /\ Begin(w, Job("move", b, t, Nobody))
    BY <1>3 DEF AskMove
  <2>2. Job("move", b, t, Nobody) \in Requests /\ WellAsked(Job("move", b, t, Nobody))
    BY <2>1 DEF Job, Requests, WellAsked
  <2> QED
    BY <2>1, <2>2, BeginInv
<1>4. ASSUME AskSwap(w) PROVE IInv'
  <2>1. PICK t, u \in Tables : t # u /\ Begin(w, Job("swap", Nobody, t, u))
    BY <1>4 DEF AskSwap
  <2>2. Job("swap", Nobody, t, u) \in Requests /\ WellAsked(Job("swap", Nobody, t, u))
    BY <2>1 DEF Job, Requests, WellAsked
  <2> QED
    BY <2>1, <2>2, BeginInv
<1>5. ASSUME AskWish(w) PROVE IInv'
  <2>1. PICK b \in Bills, i \in Wishes : Begin(w, Job("wish", b, i, Nobody))
    BY <1>5 DEF AskWish
  <2>2. Job("wish", b, i, Nobody) \in Requests /\ WellAsked(Job("wish", b, i, Nobody))
    BY DEF Job, Requests, WellAsked
  <2> QED
    BY <2>1, <2>2, BeginInv
<1>6. ASSUME AskFulfil(w) PROVE IInv'
  <2>1. PICK i \in Wishes, t \in Tables : Begin(w, Job("fulfil", t, i, Nobody))
    BY <1>6 DEF AskFulfil
  <2>2. Job("fulfil", t, i, Nobody) \in Requests /\ WellAsked(Job("fulfil", t, i, Nobody))
    BY DEF Job, Requests, WellAsked
  <2> QED
    BY <2>1, <2>2, BeginInv
<1> QED
  BY <1>1, <1>2, <1>3, <1>4, <1>5, <1>6 DEF Request

-----------------------------------------------------------------------------
(* The ledger.                                                             *)

\* What a transaction that ends and opens rows does to each table.
LEMMA WriteFacts ==
  ASSUME IInv, NEW w \in Workers, NEW ended \in SUBSET Tables, NEW landing,
         DOMAIN landing \subseteq Tables, \A t \in DOMAIN landing : landing[t] \in Bills \cup Parties,
         Write(w, ended, landing)
  PROVE  /\ live' \in [Tables -> Occupants] /\ behind' \subseteq Tables
         /\ plates' \subseteq Tables /\ unbussed' \subseteq plates'
         /\ \A t \in DOMAIN landing : live'[t] = landing[t]
         /\ \A t \in ended \ DOMAIN landing : live'[t] = Nobody
         /\ \A t \in Tables \ (ended \cup DOMAIN landing) : live'[t] = live[t]
         /\ req' \in [Workers -> Requests] /\ req'[w] = Idle
         /\ \A v \in Workers \ {w} : req'[v] = req[v]
         /\ ClockTyped'
<1> USE DEF IInv, TypeOK, Occupants
<1>1. live' = [t \in Tables |-> IF t \in DOMAIN landing THEN landing[t]
                                ELSE IF t \in ended THEN Nobody ELSE live[t]]
  BY DEF Write
<1>2. live' \in [Tables -> Occupants]
  BY <1>1
<1>3. behind' \subseteq Tables /\ plates' \subseteq Tables /\ unbussed' \subseteq plates'
  BY DEF Write
<1>4. End(w, ended, DOMAIN landing)
  BY DEF Write
<1> QED
  BY <1>1, <1>2, <1>3, <1>4, EndFacts

\* What the transaction leaves that ends some rows and puts x on table t.
Landed(w, ended, t, x) ==
  /\ live' \in [Tables -> Occupants] /\ behind' \subseteq Tables
  /\ plates' \subseteq Tables /\ unbussed' \subseteq plates'
  /\ live'[t] = x
  /\ \A s \in ended \ {t} : live'[s] = Nobody
  /\ \A s \in Tables \ (ended \cup {t}) : live'[s] = live[s]
  /\ req' \in [Workers -> Requests] /\ req'[w] = Idle
  /\ \A v \in Workers \ {w} : req'[v] = req[v]
  /\ ClockTyped'

LEMMA LandFacts ==
  ASSUME IInv, NEW w \in Workers, NEW ended \in SUBSET Tables, NEW t \in Tables,
         NEW x \in Bills \cup Parties, Write(w, ended, Single(t, x))
  PROVE  Landed(w, ended, t, x)
<1> DEFINE landing == Single(t, x)
<1>1. DOMAIN landing = {t} /\ landing[t] = x
  BY DEF Single
<1> HIDE DEF landing
<1>2. DOMAIN landing \subseteq Tables /\ \A s \in DOMAIN landing : landing[s] \in Bills \cup Parties
  BY <1>1
<1>3. Write(w, ended, landing)
  BY DEF landing
<1>4. /\ live' \in [Tables -> Occupants] /\ behind' \subseteq Tables
      /\ plates' \subseteq Tables /\ unbussed' \subseteq plates'
      /\ \A s \in DOMAIN landing : live'[s] = landing[s]
      /\ \A s \in ended \ DOMAIN landing : live'[s] = Nobody
      /\ \A s \in Tables \ (ended \cup DOMAIN landing) : live'[s] = live[s]
      /\ req' \in [Workers -> Requests] /\ req'[w] = Idle
      /\ \A v \in Workers \ {w} : req'[v] = req[v]
      /\ ClockTyped'
  BY <1>2, <1>3, WriteFacts
<1> QED
  BY <1>1, <1>4 DEF Landed

LEMMA LeaveFacts ==
  ASSUME IInv, NEW ended \in SUBSET Tables, NEW bus \in SUBSET ended, Leave(ended, bus)
  PROVE  /\ live' \in [Tables -> Occupants] /\ behind' \subseteq Tables
         /\ plates' \subseteq Tables /\ unbussed' \subseteq plates'
         /\ \A t \in ended : live'[t] = Nobody
         /\ \A t \in Tables \ ended : live'[t] = live[t]
         /\ UNCHANGED req /\ ClockTyped'
  BY DEF IInv, TypeOK, Occupants, Leave, ClockTyped

\* A step keeps the invariant when it keeps types, the unopened, the wishes and
\* the open bills, and answers at most one request.
LEMMA StepInv ==
  ASSUME IInv, live' \in [Tables -> Occupants], behind' \subseteq Tables, plates' \subseteq Tables,
         unbussed' \subseteq plates', bill' \in [Bills -> {"none", "open", "settled", "voided"}],
         at' \in [Bills -> Tables \cup {Nobody}],
         wish' \in [Wishes -> [status : {"none", "waiting", "fulfilled", "cancelled"},
                               bill : Bills \cup {Nobody}, landed : Tables \cup {Nobody}]],
         req' \in [Workers -> Requests], ClockTyped', Asked', Unopened', WishNamed', BillAtItsTable'
  PROVE  IInv'
  BY DEF IInv, TypeOK, Occupants, Requests, ClockTyped

LEMMA ResolvedFacts ==
  ASSUME IInv, NEW b \in Bills, NEW t \in Tables, wish' = Resolved(b, t)
  PROVE  /\ wish' \in [Wishes -> [status : {"none", "waiting", "fulfilled", "cancelled"},
                                  bill : Bills \cup {Nobody}, landed : Tables \cup {Nobody}]]
         /\ WishNamed'
         /\ \A i \in Wishes : wish[i].status # "waiting" => wish'[i] = wish[i]
         /\ \A i \in Wishes : wish[i].status = "waiting" /\ wish'[i].status = "fulfilled" =>
              wish'[i].landed \in Wished[i] /\ wish'[i].landed = t /\ wish[i].bill = b
<1> DEFINE Records == [status : {"none", "waiting", "fulfilled", "cancelled"},
                       bill : Bills \cup {Nobody}, landed : Tables \cup {Nobody}]
<1>1. \A i \in Wishes : wish[i] \in Records
  BY DEF IInv, TypeOK
<1>2. \A i \in Wishes :
        \/ wish'[i] = wish[i]
        \/ /\ wish[i].status = "waiting" /\ wish[i].bill = b /\ t \in Wished[i]
           /\ wish'[i] = [wish[i] EXCEPT !.status = "fulfilled", !.landed = t]
  BY DEF Resolved
<1>3. \A i \in Wishes :
        /\ [wish[i] EXCEPT !.status = "fulfilled", !.landed = t] \in Records
        /\ [wish[i] EXCEPT !.status = "fulfilled", !.landed = t].status = "fulfilled"
        /\ [wish[i] EXCEPT !.status = "fulfilled", !.landed = t].landed = t
  BY <1>1
<1>4. \A i \in Wishes :
        \/ wish'[i] = wish[i]
        \/ /\ wish[i].status = "waiting" /\ wish[i].bill = b /\ t \in Wished[i]
           /\ wish'[i].status = "fulfilled" /\ wish'[i].landed = t
  BY <1>2, <1>3
<1>5. wish' \in [Wishes -> Records]
  BY <1>1, <1>2, <1>3 DEF Resolved
<1> HIDE DEF Records
<1>6. WishNamed'
  BY <1>4 DEF IInv, WishNamed
<1>7. \A i \in Wishes : wish[i].status # "waiting" => wish'[i] = wish[i]
  BY <1>4
<1>8. \A i \in Wishes : wish[i].status = "waiting" /\ wish'[i].status = "fulfilled" =>
        wish'[i].landed \in Wished[i] /\ wish'[i].landed = t /\ wish[i].bill = b
  BY <1>4
<1> QED
  BY <1>5, <1>6, <1>7, <1>8 DEF Records

-----------------------------------------------------------------------------
(* Init, and requests that are refused.                                    *)

LEMMA InvInit == Init => IInv
<1> SUFFICES ASSUME Init PROVE IInv
  OBVIOUS
<1> USE FloorAssumption DEF Init
<1>1. TypeOK
  BY DEF TypeOK, NoWish, Idle, Job
<1>2. Asked
  BY IdleTyped DEF Asked
<1>3. Unopened /\ WishNamed /\ BillAtItsTable
  BY DEF Unopened, WishNamed, BillAtItsTable, Seats, NoWish
<1> QED
  BY <1>1, <1>2, <1>3 DEF IInv

LEMMA QuietEnd ==
  ASSUME IInv, NEW w \in Workers, End(w, {}, {}), UNCHANGED <<ledger, bill, at>>,
         wish' \in [Wishes -> [status : {"none", "waiting", "fulfilled", "cancelled"},
                               bill : Bills \cup {Nobody}, landed : Tables \cup {Nobody}]],
         WishNamed'
  PROVE  IInv'
<1> USE DEF ledger
<1>1. /\ req' \in [Workers -> Requests] /\ req'[w] = Idle
      /\ \A v \in Workers \ {w} : req'[v] = req[v]
      /\ ClockTyped'
  BY EndFacts
<1>2. Asked'
  BY <1>1, AnsweredKept
<1>3. Unopened' /\ BillAtItsTable'
  BY DEF IInv, Unopened, BillAtItsTable, Seats
<1>4. /\ live' \in [Tables -> Occupants] /\ behind' \subseteq Tables /\ plates' \subseteq Tables
      /\ unbussed' \subseteq plates' /\ bill' \in [Bills -> {"none", "open", "settled", "voided"}]
      /\ at' \in [Bills -> Tables \cup {Nobody}]
  BY DEF IInv, TypeOK, Occupants
<1> QED
  BY <1>1, <1>2, <1>3, <1>4, StepInv

LEMMA RefuseInv ==
  ASSUME IInv, NEW w \in Workers, Refuse(w)
  PROVE  IInv'
<1>1. /\ wish' \in [Wishes -> [status : {"none", "waiting", "fulfilled", "cancelled"},
                               bill : Bills \cup {Nobody}, landed : Tables \cup {Nobody}]]
      /\ WishNamed'
  BY DEF Refuse, IInv, TypeOK, WishNamed
<1> QED
  BY <1>1, QuietEnd DEF Refuse

LEMMA CreateWishInv ==
  ASSUME IInv, NEW w \in Workers, CreateWish(w)
  PROVE  IInv'
<1> DEFINE b == req[w].x
           i == req[w].t
<1>1. b \in Bills /\ i \in Wishes
  BY DEF CreateWish, IInv, Asked, WellAsked
<1>2. wish' = [wish EXCEPT ![i] = [status |-> "waiting", bill |-> b, landed |-> Nobody]]
      /\ End(w, {}, {}) /\ UNCHANGED <<ledger, bill, at>>
  BY DEF CreateWish
<1> HIDE DEF b, i
<1>3. /\ wish' \in [Wishes -> [status : {"none", "waiting", "fulfilled", "cancelled"},
                               bill : Bills \cup {Nobody}, landed : Tables \cup {Nobody}]]
      /\ WishNamed'
  BY <1>1, <1>2 DEF IInv, TypeOK, WishNamed
<1> QED
  BY <1>2, <1>3, QuietEnd

-----------------------------------------------------------------------------
(* Bills open, parties sit down.                                           *)

LEMMA FireFacts ==
  ASSUME IInv, NEW w \in Workers, Fire(w)
  PROVE  \E b \in Bills, t \in Tables \cup {Nobody} :
           /\ b = req[w].x /\ t = req[w].t
           /\ bill[b] = "none" /\ bill' = [bill EXCEPT ![b] = "open"] /\ UNCHANGED wish
           /\ \/ /\ MayClaim(t) /\ at' = [at EXCEPT ![b] = t]
                 /\ Write(w, {t} \cap Occupied, Single(t, b))
              \/ End(w, {}, {}) /\ UNCHANGED <<at, ledger>>
<1> DEFINE b == req[w].x
           t == req[w].t
<1>1. b \in Bills /\ t \in Tables \cup {Nobody}
  BY DEF Fire, IInv, Asked, WellAsked
<1>2. bill[b] = "none" /\ bill' = [bill EXCEPT ![b] = "open"] /\ UNCHANGED wish
  BY DEF Fire
<1>3. \/ /\ MayClaim(t) /\ at' = [at EXCEPT ![b] = t]
         /\ Write(w, {t} \cap Occupied, Single(t, b))
      \/ End(w, {}, {}) /\ UNCHANGED <<at, ledger>>
  BY DEF Fire, Single
<1>4. b = req[w].x /\ t = req[w].t
  OBVIOUS
<1> HIDE DEF b, t
<1> QED
  BY <1>1, <1>2, <1>3, <1>4

LEMMA FireInv ==
  ASSUME IInv, NEW w \in Workers, Fire(w)
  PROVE  IInv'
<1> USE FloorAssumption
<1>1. PICK b \in Bills, t \in Tables \cup {Nobody} :
        /\ bill[b] = "none" /\ bill' = [bill EXCEPT ![b] = "open"] /\ UNCHANGED wish
        /\ \/ /\ MayClaim(t) /\ at' = [at EXCEPT ![b] = t]
              /\ Write(w, {t} \cap Occupied, Single(t, b))
           \/ End(w, {}, {}) /\ UNCHANGED <<at, ledger>>
  BY FireFacts
<1>2. /\ wish' \in [Wishes -> [status : {"none", "waiting", "fulfilled", "cancelled"},
                               bill : Bills \cup {Nobody}, landed : Tables \cup {Nobody}]]
      /\ WishNamed'
      /\ bill' \in [Bills -> {"none", "open", "settled", "voided"}]
      /\ \A c \in Bills : bill[c] # "none" => bill'[c] # "none"
  BY <1>1 DEF IInv, TypeOK, WishNamed
<1>3. at[b] = Nobody /\ Seats(b) = {}
  BY <1>1 DEF IInv, Unopened
<1>4. CASE MayClaim(t) /\ at' = [at EXCEPT ![b] = t] /\ Write(w, {t} \cap Occupied, Single(t, b))
  <2>1. at' = [at EXCEPT ![b] = t] /\ Write(w, {t} \cap Occupied, Single(t, b))
    BY <1>4
  <2>2. t \in Tables /\ live[t] \notin Bills
    BY <1>4 DEF MayClaim
  <2>3. {t} \cap Occupied \in SUBSET Tables
    BY <2>2
  <2> DEFINE ended == {t} \cap Occupied
  <2>4. ended \in SUBSET Tables /\ ended \subseteq {t} /\ b \in Bills \cup Parties /\ Write(w, ended, Single(t, b))
    BY <1>1, <2>1, <2>3
  <2> HIDE DEF ended
  <2>5. Landed(w, ended, t, b)
    BY <2>2, <2>4, LandFacts
  <2>6. \A s \in Tables \ {t} : live'[s] = live[s]
    BY <2>4, <2>5 DEF Landed
  <2>7. Asked'
    BY <1>2, <2>5, AnsweredKept DEF Landed
  <2>8. Unopened' /\ BillAtItsTable'
    BY <1>1, <1>3, <2>1, <2>2, <2>5, <2>6 DEF Landed, IInv, TypeOK, Unopened, BillAtItsTable, Seats
  <2>9. at' \in [Bills -> Tables \cup {Nobody}]
    BY <1>1, <2>1, <2>2 DEF IInv, TypeOK
  <2> QED
    BY <1>2, <2>5, <2>7, <2>8, <2>9, StepInv DEF Landed
<1>5. CASE End(w, {}, {}) /\ UNCHANGED <<at, ledger>>
  <2>1. End(w, {}, {}) /\ UNCHANGED <<at, ledger>>
    BY <1>5
  <2>2. /\ req' \in [Workers -> Requests] /\ req'[w] = Idle
        /\ \A v \in Workers \ {w} : req'[v] = req[v]
        /\ ClockTyped'
    BY <2>1, EndFacts
  <2>3. Asked'
    BY <1>2, <2>2, AnsweredKept
  <2>4. Unopened' /\ BillAtItsTable'
    BY <1>1, <1>3, <2>1 DEF IInv, TypeOK, Unopened, BillAtItsTable, Seats, ledger
  <2>5. /\ live' \in [Tables -> Occupants] /\ behind' \subseteq Tables /\ plates' \subseteq Tables
        /\ unbussed' \subseteq plates' /\ at' \in [Bills -> Tables \cup {Nobody}]
    BY <2>1 DEF IInv, TypeOK, Occupants, ledger
  <2> QED
    BY <1>2, <2>2, <2>3, <2>4, <2>5, StepInv
<1> QED
  BY <1>1, <1>4, <1>5

LEMMA HoldFacts ==
  ASSUME IInv, NEW w \in Workers, Hold(w)
  PROVE  \E p \in Parties, t \in Tables :
           live[t] = Nobody /\ Write(w, {}, Single(t, p)) /\ UNCHANGED <<bill, at, wish>>
<1>1. req[w].x \in Parties /\ req[w].t \in Tables
  BY DEF Hold, IInv, Asked, WellAsked
<1>2. live[req[w].t] = Nobody /\ Write(w, {}, Single(req[w].t, req[w].x)) /\ UNCHANGED <<bill, at, wish>>
  BY DEF Hold, Single
<1> QED
  BY <1>1, <1>2

LEMMA HoldInv ==
  ASSUME IInv, NEW w \in Workers, Hold(w)
  PROVE  IInv'
<1> USE FloorAssumption
<1>1. PICK p \in Parties, t \in Tables :
        live[t] = Nobody /\ Write(w, {}, Single(t, p)) /\ UNCHANGED <<bill, at, wish>>
  BY HoldFacts
<1>2. {} \in SUBSET Tables /\ p \in Bills \cup Parties
  OBVIOUS
<1>3. Landed(w, {}, t, p)
  BY <1>1, <1>2, LandFacts
<1>4. Asked'
  BY <1>1, <1>3, AnsweredKept DEF Landed
<1>5. \A b \in Bills : Seats(b)' = Seats(b)
  BY <1>1, <1>3 DEF Seats, Landed
<1>6. Unopened' /\ BillAtItsTable' /\ WishNamed'
  BY <1>1, <1>5 DEF IInv, Unopened, BillAtItsTable, WishNamed
<1>7. /\ bill' \in [Bills -> {"none", "open", "settled", "voided"}]
      /\ at' \in [Bills -> Tables \cup {Nobody}]
      /\ wish' \in [Wishes -> [status : {"none", "waiting", "fulfilled", "cancelled"},
                               bill : Bills \cup {Nobody}, landed : Tables \cup {Nobody}]]
  BY <1>1 DEF IInv, TypeOK
<1> QED
  BY <1>3, <1>4, <1>6, <1>7, StepInv DEF Landed

-----------------------------------------------------------------------------
(* Bills move.                                                             *)

\* Where everybody sits after bill b landed on t.
LEMMA RelocateFacts ==
  ASSUME IInv, NEW w \in Workers, NEW b \in Bills, NEW t \in Tables, bill[b] # "none",
         live[t] \notin Bills \ {b}, Relocate(w, b, t), UNCHANGED bill
  PROVE  /\ live' \in [Tables -> Occupants] /\ behind' \subseteq Tables
         /\ plates' \subseteq Tables /\ unbussed' \subseteq plates'
         /\ at' \in [Bills -> Tables \cup {Nobody}]
         /\ req' \in [Workers -> Requests] /\ req'[w] = Idle
         /\ \A v \in Workers \ {w} : req'[v] = req[v]
         /\ ClockTyped' /\ Unopened' /\ BillAtItsTable'
         /\ live'[t] = b
         /\ \A s \in Tables \ {t} : live[s] # b => live'[s] = live[s]
<1> USE FloorAssumption
<1>1. at' = [at EXCEPT ![b] = t]
  BY DEF Relocate
<1>2. at' \in [Bills -> Tables \cup {Nobody}] /\ at'[b] = t /\ \A c \in Bills \ {b} : at'[c] = at[c]
  BY <1>1 DEF IInv, TypeOK
<1>3. CASE live[t] = b
  <2>1. End(w, {}, {}) /\ UNCHANGED ledger
    BY <1>3 DEF Relocate
  <2>2. /\ req' \in [Workers -> Requests] /\ req'[w] = Idle
        /\ \A v \in Workers \ {w} : req'[v] = req[v]
        /\ ClockTyped'
    BY <2>1, EndFacts
  <2>3. /\ live' \in [Tables -> Occupants] /\ behind' \subseteq Tables /\ plates' \subseteq Tables
        /\ unbussed' \subseteq plates' /\ live' = live
    BY <2>1 DEF IInv, TypeOK, Occupants, ledger
  <2>4. Unopened' /\ BillAtItsTable'
    BY <1>2, <1>3, <2>3 DEF IInv, Unopened, BillAtItsTable, Seats
  <2> QED
    BY <1>2, <1>3, <2>2, <2>3, <2>4
<1>4. CASE live[t] # b
  <2> DEFINE ended == Leaves(b, t) \cup ({t} \cap Occupied)
  <2>1. Write(w, ended, Single(t, b)) /\ ended \in SUBSET Tables
    BY <1>4 DEF Single, Relocate, Leaves, Seats
  <2>2. \A s \in Tables \ {t} : s \in ended <=> live[s] = b
    BY DEF Leaves, Seats
  <2> HIDE DEF ended
  <2>3. Landed(w, ended, t, b)
    BY <2>1, LandFacts
  <2>4. Seats(b)' = {t}
    BY <2>2, <2>3 DEF Seats, Landed
  <2>5. \A c \in Bills \ {b} : Seats(c)' = Seats(c)
    BY <2>2, <2>3 DEF Seats, Landed
  <2>6. Unopened' /\ BillAtItsTable'
    BY <1>2, <2>4, <2>5 DEF IInv, Unopened, BillAtItsTable
  <2> QED
    BY <1>2, <2>2, <2>3, <2>6 DEF Landed
<1> QED
  BY <1>3, <1>4

LEMMA LandedInv ==
  ASSUME IInv, NEW w \in Workers, NEW b \in Bills, NEW t \in Tables, bill[b] # "none",
         live[t] \notin Bills \ {b}, Relocate(w, b, t), UNCHANGED bill, wish' = Resolved(b, t)
  PROVE  IInv'
<1>1. /\ live' \in [Tables -> Occupants] /\ behind' \subseteq Tables
      /\ plates' \subseteq Tables /\ unbussed' \subseteq plates'
      /\ at' \in [Bills -> Tables \cup {Nobody}]
      /\ req' \in [Workers -> Requests] /\ req'[w] = Idle
      /\ \A v \in Workers \ {w} : req'[v] = req[v]
      /\ ClockTyped' /\ Unopened' /\ BillAtItsTable'
  BY RelocateFacts
<1>2. /\ wish' \in [Wishes -> [status : {"none", "waiting", "fulfilled", "cancelled"},
                               bill : Bills \cup {Nobody}, landed : Tables \cup {Nobody}]]
      /\ WishNamed'
  BY ResolvedFacts
<1>3. Asked' /\ bill' \in [Bills -> {"none", "open", "settled", "voided"}]
  BY <1>1, AnsweredKept DEF IInv, TypeOK
<1> QED
  BY <1>1, <1>2, <1>3, StepInv

LEMMA MoveFacts ==
  ASSUME IInv, NEW w \in Workers, Move(w)
  PROVE  \E b \in Bills, t \in Tables :
           /\ bill[b] # "none" /\ live[t] \in {b, Nobody} /\ Relocate(w, b, t)
           /\ wish' = Resolved(b, t) /\ UNCHANGED bill
  BY DEF Move, FreeFor, IInv, Asked, WellAsked

LEMMA MoveInv ==
  ASSUME IInv, NEW w \in Workers, Move(w)
  PROVE  IInv'
<1>1. PICK b \in Bills, t \in Tables :
        /\ bill[b] # "none" /\ live[t] \in {b, Nobody} /\ Relocate(w, b, t)
        /\ wish' = Resolved(b, t) /\ UNCHANGED bill
  BY MoveFacts
<1>2. live[t] \notin Bills \ {b}
  BY <1>1, FloorAssumption
<1> QED
  BY <1>1, <1>2, LandedInv

LEMMA FulfilFacts ==
  ASSUME IInv, NEW w \in Workers, Fulfil(w)
  PROVE  \E b \in Bills, t \in Tables :
           /\ t = req[w].x /\ b = wish[req[w].t].bill
           /\ bill[b] # "none" /\ live[t] \notin Bills \ {b} /\ Relocate(w, b, t)
           /\ wish' = Resolved(b, t) /\ UNCHANGED bill
<1>1. req[w].x \in Tables /\ req[w].t \in Wishes
  BY DEF Fulfil, IInv, Asked, WellAsked
<1>2. wish[req[w].t].bill \in Bills
  BY <1>1 DEF Fulfil, StillWaiting, IInv, WishNamed
<1> QED
  BY <1>1, <1>2 DEF Fulfil

LEMMA FulfilInv ==
  ASSUME IInv, NEW w \in Workers, Fulfil(w)
  PROVE  IInv'
<1>1. PICK b \in Bills, t \in Tables :
        /\ bill[b] # "none" /\ live[t] \notin Bills \ {b} /\ Relocate(w, b, t)
        /\ wish' = Resolved(b, t) /\ UNCHANGED bill
  BY FulfilFacts
<1> QED
  BY <1>1, LandedInv

-----------------------------------------------------------------------------
(* Two tables swap.                                                        *)

\* What a swap writes of the transfer requests.
SwappedWish(t, u) ==
  [i \in Wishes |->
    CASE live[t] \in Bills /\ wish[i].bill = live[t] -> Resolved(live[t], u)[i]
      [] live[u] \in Bills /\ wish[i].bill = live[u] -> Resolved(live[u], t)[i]
      [] OTHER                                        -> wish[i]]

LEMMA SwapFacts ==
  ASSUME IInv, NEW w \in Workers, Swap(w)
  PROVE  \E t, u \in Tables :
           /\ t # u
           /\ live' \in [Tables -> Occupants] /\ behind' \subseteq Tables
           /\ plates' \subseteq Tables /\ unbussed' \subseteq plates'
           /\ live'[t] = live[u] /\ live'[u] = live[t]
           /\ \A s \in Tables \ {t, u} : live'[s] = live[s]
           /\ req' \in [Workers -> Requests] /\ req'[w] = Idle
           /\ \A v \in Workers \ {w} : req'[v] = req[v]
           /\ ClockTyped'
           /\ at' = [b \in Bills |-> CASE b = live[t] -> u [] b = live[u] -> t [] OTHER -> at[b]]
           /\ wish' = SwappedWish(t, u)
           /\ UNCHANGED bill
<1> USE FloorAssumption
<1> DEFINE t == req[w].t
           u == req[w].u
           landing == [s \in {s \in {t, u} : live[IF s = t THEN u ELSE t] # Nobody} |->
                         live[IF s = t THEN u ELSE t]]
           ended == {t, u} \cap Occupied
<1>1. t \in Tables /\ u \in Tables /\ t # u
  BY DEF Swap, IInv, Asked, WellAsked
<1>2. /\ Write(w, ended, landing)
      /\ at' = [b \in Bills |-> CASE b = live[t] -> u [] b = live[u] -> t [] OTHER -> at[b]]
      /\ wish' = SwappedWish(t, u)
      /\ UNCHANGED bill
  BY DEF Swap, SwappedWish
<1> HIDE DEF t, u
<1>3. /\ DOMAIN landing = {s \in {t, u} : live[IF s = t THEN u ELSE t] # Nobody}
      /\ \A s \in DOMAIN landing : landing[s] = live[IF s = t THEN u ELSE t]
  OBVIOUS
<1>4. \A s \in Tables : s \in ended <=> s \in {t, u} /\ live[s] # Nobody
  BY <1>1 DEF Occupied
<1>5. ended \in SUBSET Tables
  BY <1>1
<1> HIDE DEF landing, ended
<1>6. DOMAIN landing \subseteq Tables /\ \A s \in DOMAIN landing : landing[s] \in Bills \cup Parties
  BY <1>1, <1>3 DEF IInv, TypeOK
<1>7. /\ live' \in [Tables -> Occupants] /\ behind' \subseteq Tables
      /\ plates' \subseteq Tables /\ unbussed' \subseteq plates'
      /\ \A s \in DOMAIN landing : live'[s] = landing[s]
      /\ \A s \in ended \ DOMAIN landing : live'[s] = Nobody
      /\ \A s \in Tables \ (ended \cup DOMAIN landing) : live'[s] = live[s]
      /\ req' \in [Workers -> Requests] /\ req'[w] = Idle
      /\ \A v \in Workers \ {w} : req'[v] = req[v]
      /\ ClockTyped'
  BY <1>2, <1>5, <1>6, WriteFacts
<1>8. live'[t] = live[u] /\ live'[u] = live[t] /\ \A s \in Tables \ {t, u} : live'[s] = live[s]
  BY <1>1, <1>3, <1>4, <1>7
<1> QED
  BY <1>1, <1>2, <1>7, <1>8

\* A swap leaves transfer request i alone, or fulfils it: its bill lands on the
\* other table of the two.
KeptOrFulfilled(i, t, u) ==
  \/ wish'[i] = wish[i]
  \/ \E s, r \in Tables :
       /\ {s, r} = {t, u} /\ r = (IF s = t THEN u ELSE t)
       /\ wish[i].status = "waiting" /\ wish[i].bill = live[s] /\ live[s] \in Bills
       /\ r \in Wished[i]
       /\ wish'[i] = [wish[i] EXCEPT !.status = "fulfilled", !.landed = r]

LEMMA SwappedWishes ==
  ASSUME NEW t \in Tables, NEW u \in Tables, NEW i \in Wishes, wish' = SwappedWish(t, u)
  PROVE  KeptOrFulfilled(i, t, u)
<1> USE DEF KeptOrFulfilled
<1>1. CASE live[t] \in Bills /\ wish[i].bill = live[t]
  <2>1. \/ wish'[i] = Resolved(live[t], u)[i]
        \/ live[u] \in Bills /\ wish[i].bill = live[u] /\ wish'[i] = Resolved(live[u], t)[i]
    BY <1>1 DEF SwappedWish
  <2> QED
    BY <1>1, <2>1 DEF Resolved
<1>2. CASE ~(live[t] \in Bills /\ wish[i].bill = live[t]) /\ live[u] \in Bills /\ wish[i].bill = live[u]
  <2>1. wish'[i] = Resolved(live[u], t)[i]
    BY <1>2 DEF SwappedWish
  <2> QED
    BY <1>2, <2>1 DEF Resolved
<1>3. CASE ~(live[t] \in Bills /\ wish[i].bill = live[t]) /\ ~(live[u] \in Bills /\ wish[i].bill = live[u])
  <2>1. wish'[i] = wish[i]
    BY <1>3 DEF SwappedWish
  <2> QED
    BY <2>1
<1> QED
  BY <1>1, <1>2, <1>3

LEMMA SwapInv ==
  ASSUME IInv, NEW w \in Workers, Swap(w)
  PROVE  IInv'
<1> USE FloorAssumption
<1>1. PICK t, u \in Tables :
           /\ t # u
           /\ live' \in [Tables -> Occupants] /\ behind' \subseteq Tables
           /\ plates' \subseteq Tables /\ unbussed' \subseteq plates'
           /\ live'[t] = live[u] /\ live'[u] = live[t]
           /\ \A s \in Tables \ {t, u} : live'[s] = live[s]
           /\ req' \in [Workers -> Requests] /\ req'[w] = Idle
           /\ \A v \in Workers \ {w} : req'[v] = req[v]
           /\ ClockTyped'
           /\ at' = [b \in Bills |-> CASE b = live[t] -> u [] b = live[u] -> t [] OTHER -> at[b]]
           /\ wish' = SwappedWish(t, u)
           /\ UNCHANGED bill
  BY SwapFacts
<1>2. at' \in [Bills -> Tables \cup {Nobody}]
  BY <1>1 DEF IInv, TypeOK
<1>3. \A c \in Bills : c \notin {live[t], live[u]} => at'[c] = at[c] /\ Seats(c)' = Seats(c)
  BY <1>1 DEF Seats
<1>4. Unopened'
  BY <1>1, <1>3 DEF IInv, Unopened, Seats
<1>5. BillAtItsTable'
  <2> SUFFICES ASSUME NEW c \in Bills, bill[c] = "open" PROVE Seats(c)' = {at'[c]} \ {Nobody}
    BY <1>1 DEF BillAtItsTable
  <2>1. Seats(c) = {at[c]} \ {Nobody}
    BY DEF IInv, BillAtItsTable
  <2>2. CASE c = live[t]
    BY <1>1, <2>1, <2>2 DEF Seats
  <2>3. CASE c = live[u] /\ c # live[t]
    BY <1>1, <2>1, <2>3 DEF Seats
  <2> QED
    BY <1>3, <2>1, <2>2, <2>3
<1>6. /\ wish' \in [Wishes -> [status : {"none", "waiting", "fulfilled", "cancelled"},
                               bill : Bills \cup {Nobody}, landed : Tables \cup {Nobody}]]
      /\ WishNamed'
  <2> DEFINE Records == [status : {"none", "waiting", "fulfilled", "cancelled"},
                         bill : Bills \cup {Nobody}, landed : Tables \cup {Nobody}]
  <2>1. \A i \in Wishes : wish'[i] = wish[i] \/
          \E r \in Tables : wish'[i] = [wish[i] EXCEPT !.status = "fulfilled", !.landed = r]
    <3> SUFFICES ASSUME NEW i \in Wishes
                 PROVE  wish'[i] = wish[i] \/
                          \E r \in Tables : wish'[i] = [wish[i] EXCEPT !.status = "fulfilled", !.landed = r]
      OBVIOUS
    <3>1. wish' = SwappedWish(t, u)
      BY <1>1
    <3>2. KeptOrFulfilled(i, t, u)
      BY <3>1, SwappedWishes
    <3> QED
      BY <3>2 DEF KeptOrFulfilled
  <2>2. \A i \in Wishes : wish[i] \in Records
    BY DEF IInv, TypeOK
  <2>3. \A i \in Wishes : wish'[i] \in Records /\ (wish'[i].status = "waiting" => wish'[i] = wish[i])
    BY <2>1, <2>2
  <2>4. wish' = [i \in Wishes |-> wish'[i]]
    BY <1>1 DEF SwappedWish
  <2> HIDE DEF Records
  <2>5. wish' \in [Wishes -> Records]
    BY <2>3, <2>4
  <2>6. WishNamed'
    BY <2>3 DEF IInv, WishNamed
  <2> QED
    BY <2>5, <2>6 DEF Records
<1>7. Asked' /\ bill' \in [Bills -> {"none", "open", "settled", "voided"}]
  BY <1>1, AnsweredKept DEF IInv, TypeOK
<1> QED
  BY <1>1, <1>2, <1>4, <1>5, <1>6, <1>7, StepInv

-----------------------------------------------------------------------------
(* Steps that are a request of their own.                                  *)

LEMMA ReleaseInv == ASSUME IInv, Release PROVE IInv'
<1> USE FloorAssumption
<1>1. PICK t \in Tables, ate \in BOOLEAN :
        /\ live[t] \in Parties
        /\ Leave({t}, IF ate THEN {t} ELSE {})
        /\ UNCHANGED <<bill, at, wish>>
  BY DEF Release
<1>2. {t} \in SUBSET Tables /\ (IF ate THEN {t} ELSE {}) \in SUBSET {t}
  OBVIOUS
<1>3. /\ live' \in [Tables -> Occupants] /\ behind' \subseteq Tables
      /\ plates' \subseteq Tables /\ unbussed' \subseteq plates'
      /\ \A s \in {t} : live'[s] = Nobody
      /\ \A s \in Tables \ {t} : live'[s] = live[s]
      /\ UNCHANGED req /\ ClockTyped'
  BY <1>1, <1>2, LeaveFacts
<1>4. \A b \in Bills : Seats(b)' = Seats(b)
  BY <1>1, <1>3 DEF Seats
<1>5. Asked' /\ Unopened' /\ WishNamed' /\ BillAtItsTable'
  BY <1>1, <1>3, <1>4 DEF IInv, Asked, WellAsked, Unopened, WishNamed, BillAtItsTable
<1>6. /\ bill' \in [Bills -> {"none", "open", "settled", "voided"}]
      /\ at' \in [Bills -> Tables \cup {Nobody}]
      /\ wish' \in [Wishes -> [status : {"none", "waiting", "fulfilled", "cancelled"},
                               bill : Bills \cup {Nobody}, landed : Tables \cup {Nobody}]]
      /\ req' \in [Workers -> Requests]
  BY <1>1, <1>3 DEF IInv, TypeOK, Requests
<1> QED
  BY <1>3, <1>5, <1>6, StepInv

LEMMA ClearInv == ASSUME IInv, Clear PROVE IInv'
  BY DEF Clear, clock, IInv, TypeOK, Asked, WellAsked, Unopened, WishNamed, BillAtItsTable, Seats

LEMMA EndBillInv == ASSUME IInv, EndBill PROVE IInv'
<1> USE FloorAssumption
<1>1. PICK b \in Bills, how \in {"settled", "voided"} :
        /\ bill[b] = "open"
        /\ bill' = [bill EXCEPT ![b] = how]
        /\ Leave(Seats(b), IF how = "settled" THEN Seats(b) ELSE {})
        /\ wish' = Withdrawn(b)
        /\ UNCHANGED at
  BY DEF EndBill
<1>2. Seats(b) \in SUBSET Tables /\ (IF how = "settled" THEN Seats(b) ELSE {}) \in SUBSET Seats(b)
  BY DEF Seats
<1>3. /\ live' \in [Tables -> Occupants] /\ behind' \subseteq Tables
      /\ plates' \subseteq Tables /\ unbussed' \subseteq plates'
      /\ \A s \in Seats(b) : live'[s] = Nobody
      /\ \A s \in Tables \ Seats(b) : live'[s] = live[s]
      /\ UNCHANGED req /\ ClockTyped'
  BY <1>1, <1>2, LeaveFacts
<1>4. \A c \in Bills \ {b} : Seats(c)' = Seats(c)
  BY <1>3 DEF Seats
<1>5. bill' \in [Bills -> {"none", "open", "settled", "voided"}] /\ bill'[b] = how
      /\ \A c \in Bills \ {b} : bill'[c] = bill[c]
  BY <1>1 DEF IInv, TypeOK
<1>6. Asked' /\ Unopened' /\ BillAtItsTable'
  BY <1>1, <1>3, <1>4, <1>5 DEF IInv, Asked, WellAsked, Unopened, BillAtItsTable
<1>7. /\ wish' \in [Wishes -> [status : {"none", "waiting", "fulfilled", "cancelled"},
                               bill : Bills \cup {Nobody}, landed : Tables \cup {Nobody}]]
      /\ WishNamed'
  <2> DEFINE Records == [status : {"none", "waiting", "fulfilled", "cancelled"},
                         bill : Bills \cup {Nobody}, landed : Tables \cup {Nobody}]
  <2>1. \A i \in Wishes : wish[i] \in Records
    BY DEF IInv, TypeOK
  <2>2. \A k \in Records : /\ [k EXCEPT !.status = "cancelled"] \in Records
                            /\ [k EXCEPT !.status = "cancelled"].status = "cancelled"
    OBVIOUS
  <2> HIDE DEF Records
  <2>3. wish' \in [Wishes -> Records]
    BY <1>1, <2>1, <2>2 DEF Withdrawn
  <2>4. \A i \in Wishes : wish'[i] = wish[i] \/ wish'[i] = [wish[i] EXCEPT !.status = "cancelled"]
    BY <1>1 DEF Withdrawn
  <2>5. WishNamed'
    BY <2>1, <2>2, <2>4 DEF IInv, WishNamed
  <2> QED
    BY <2>3, <2>5 DEF Records
<1>8. at' \in [Bills -> Tables \cup {Nobody}] /\ req' \in [Workers -> Requests]
  BY <1>1, <1>3 DEF IInv, TypeOK, Requests
<1> QED
  BY <1>3, <1>5, <1>6, <1>7, <1>8, StepInv

LEMMA CancelWishInv == ASSUME IInv, CancelWish PROVE IInv'
<1>1. PICK i \in Wishes : wish' = [wish EXCEPT ![i].status = "cancelled"]
  BY DEF CancelWish
<1>2. /\ wish' \in [Wishes -> [status : {"none", "waiting", "fulfilled", "cancelled"},
                               bill : Bills \cup {Nobody}, landed : Tables \cup {Nobody}]]
      /\ WishNamed'
  BY <1>1 DEF IInv, TypeOK, WishNamed
<1> QED
  BY <1>2 DEF CancelWish, ledger, clock, IInv, TypeOK, Asked, WellAsked, Unopened, BillAtItsTable, Seats

-----------------------------------------------------------------------------
(* Every step.                                                             *)

LEMMA InvStep == IInv /\ [Next]_vars => IInv'
<1> SUFFICES ASSUME IInv, [Next]_vars PROVE IInv'
  OBVIOUS
<1>1. CASE UNCHANGED vars
  BY <1>1 DEF vars, ledger, clock, IInv, TypeOK, Asked, WellAsked, Unopened, WishNamed, BillAtItsTable, Seats
<1>2. ASSUME NEW w \in Workers, Commit(w) PROVE IInv'
  BY <1>2, FireInv, HoldInv, MoveInv, SwapInv, CreateWishInv, FulfilInv DEF Commit
<1> QED
  BY <1>1, <1>2, RequestInv, RefuseInv, ReleaseInv, ClearInv, EndBillInv, CancelWishInv DEF Next

-----------------------------------------------------------------------------
(* What holds in every behaviour.                                          *)

\* The inductive invariant: what a request carries still makes sense when it
\* commits, and a bill not yet opened sits nowhere.
THEOREM FloorInvariant == Spec => []IInv
  BY InvInit, InvStep, PTL DEF Spec

\* Every variable keeps its type.
THEOREM FloorTypes == Spec => []TypeOK
<1>1. IInv => TypeOK
  BY DEF IInv
<1> QED
  BY <1>1, FloorInvariant, PTL

\* An open bill sits on the table it names, and on no other.
THEOREM BillsSitWhereTheySay == Spec => []BillAtItsTable
<1>1. IInv => BillAtItsTable
  BY DEF IInv
<1> QED
  BY <1>1, FloorInvariant, PTL

-----------------------------------------------------------------------------
(* A party keeps its table.                                                *)

PartyStep(p) ==
  Seats(p) # {} =>
    \/ \E t \in Tables : live'[t] = p
    \/ \A t \in Seats(p) : live'[t] = Nobody /\ req' = req
    \/ \E w \in Workers : Opens(w, Seats(p)) \/ Unseats(w, Seats(p))

\* A party that still sits at one of its tables was kept.
LEMMA StillThere ==
  ASSUME NEW p \in Parties, NEW s \in Seats(p), live'[s] = live[s]
  PROVE  PartyStep(p)
  BY DEF PartyStep, Seats

LEMMA ReleaseParty == ASSUME IInv, Release, NEW p \in Parties PROVE PartyStep(p)
<1>1. PICK t \in Tables, ate \in BOOLEAN : Leave({t}, IF ate THEN {t} ELSE {})
  BY DEF Release
<1>2. live' = [s \in Tables |-> IF s \in {t} THEN Nobody ELSE live[s]] /\ req' = req
  BY <1>1 DEF Leave
<1>3. CASE \E s \in Seats(p) : s # t
  BY <1>2, <1>3, StillThere DEF Seats
<1>4. CASE \A s \in Seats(p) : s = t
  BY <1>2, <1>4 DEF PartyStep, Seats
<1> QED
  BY <1>3, <1>4

LEMMA EndBillParty == ASSUME IInv, EndBill, NEW p \in Parties PROVE PartyStep(p)
<1>1. PICK b \in Bills, how \in {"settled", "voided"} :
        Leave(Seats(b), IF how = "settled" THEN Seats(b) ELSE {})
  BY DEF EndBill
<1>2. live' = [s \in Tables |-> IF s \in Seats(b) THEN Nobody ELSE live[s]]
  BY <1>1 DEF Leave
<1>3. \A s \in Seats(p) : live'[s] = live[s]
  BY <1>2, FloorAssumption DEF Seats
<1> QED
  BY <1>3, StillThere DEF PartyStep

LEMMA FireParty == ASSUME IInv, NEW w \in Workers, Fire(w), NEW p \in Parties PROVE PartyStep(p)
<1> USE FloorAssumption
<1>1. PICK b \in Bills, t \in Tables \cup {Nobody} :
        /\ b = req[w].x /\ t = req[w].t
        /\ bill[b] = "none" /\ bill' = [bill EXCEPT ![b] = "open"] /\ UNCHANGED wish
        /\ \/ /\ MayClaim(t) /\ at' = [at EXCEPT ![b] = t]
              /\ Write(w, {t} \cap Occupied, Single(t, b))
           \/ End(w, {}, {}) /\ UNCHANGED <<at, ledger>>
  BY FireFacts
<1>2. CASE MayClaim(t) /\ Write(w, {t} \cap Occupied, Single(t, b))
  <2>1. t \in Tables /\ b \in Bills \cup Parties
    BY <1>2 DEF MayClaim
  <2> DEFINE ended == {t} \cap Occupied
  <2>2. ended \in SUBSET Tables /\ ended \subseteq {t} /\ Write(w, ended, Single(t, b))
    BY <1>2, <2>1
  <2> HIDE DEF ended
  <2>3. Landed(w, ended, t, b)
    BY <2>1, <2>2, LandFacts
  <2>4. live'[t] = b /\ req'[w] = Idle /\ \A s \in Tables \ {t} : live'[s] = live[s]
    BY <2>2, <2>3 DEF Landed
  <2>5. CASE \E s \in Seats(p) : s # t
    BY <2>4, <2>5, StillThere DEF Seats
  <2>6. CASE \A s \in Seats(p) : s = t
    <3>1. SUFFICES ASSUME Seats(p) # {} PROVE Opens(w, Seats(p))
      BY DEF PartyStep
    <3>2. req[w].op = "fire" /\ t \in Seats(p)
      BY <2>6, <3>1 DEF Fire
    <3> QED
      BY <1>1, <2>4, <3>2 DEF Opens
  <2> QED
    BY <2>5, <2>6
<1>3. CASE UNCHANGED ledger
  BY <1>3, StillThere DEF ledger, PartyStep
<1> QED
  BY <1>1, <1>2, <1>3

LEMMA HoldParty == ASSUME IInv, NEW w \in Workers, Hold(w), NEW p \in Parties PROVE PartyStep(p)
<1>1. PICK q \in Parties, t \in Tables : live[t] = Nobody /\ Write(w, {}, Single(t, q))
  BY HoldFacts
<1>2. {} \in SUBSET Tables /\ q \in Bills \cup Parties
  OBVIOUS
<1>3. Landed(w, {}, t, q)
  BY <1>1, <1>2, LandFacts
<1>4. \A s \in Seats(p) : live'[s] = live[s]
  BY <1>1, <1>3, FloorAssumption DEF Landed, Seats
<1> QED
  BY <1>4, StillThere DEF PartyStep

LEMMA MoveParty == ASSUME IInv, NEW w \in Workers, Move(w), NEW p \in Parties PROVE PartyStep(p)
<1> USE FloorAssumption
<1>1. PICK b \in Bills, t \in Tables :
        /\ bill[b] # "none" /\ live[t] \in {b, Nobody} /\ Relocate(w, b, t)
        /\ wish' = Resolved(b, t) /\ UNCHANGED bill
  BY MoveFacts
<1>2. live[t] \notin Bills \ {b}
  BY <1>1
<1>3. \A s \in Tables \ {t} : live[s] # b => live'[s] = live[s]
  BY <1>1, <1>2, RelocateFacts
<1>4. \A s \in Seats(p) : live'[s] = live[s]
  BY <1>1, <1>3 DEF Seats
<1> QED
  BY <1>4, StillThere DEF PartyStep

LEMMA FulfilParty == ASSUME IInv, NEW w \in Workers, Fulfil(w), NEW p \in Parties PROVE PartyStep(p)
<1> USE FloorAssumption
<1>1. PICK b \in Bills, t \in Tables :
        /\ t = req[w].x /\ b = wish[req[w].t].bill
        /\ bill[b] # "none" /\ live[t] \notin Bills \ {b} /\ Relocate(w, b, t)
        /\ wish' = Resolved(b, t) /\ UNCHANGED bill
  BY FulfilFacts
<1>2. /\ live'[t] = b /\ req'[w] = Idle
      /\ \A s \in Tables \ {t} : live[s] # b => live'[s] = live[s]
  BY <1>1, RelocateFacts
<1>3. CASE \E s \in Seats(p) : s # t
  BY <1>2, <1>3, StillThere DEF Seats
<1>4. CASE \A s \in Seats(p) : s = t
  <2>1. SUFFICES ASSUME Seats(p) # {} PROVE Unseats(w, Seats(p))
    BY DEF PartyStep
  <2>2. req[w].op = "fulfil" /\ t \in Seats(p)
    BY <1>4, <2>1 DEF Fulfil
  <2> QED
    BY <1>1, <1>2, <2>2 DEF Unseats
<1> QED
  BY <1>3, <1>4

LEMMA SwapParty == ASSUME IInv, NEW w \in Workers, Swap(w), NEW p \in Parties PROVE PartyStep(p)
<1>1. PICK t, u \in Tables :
        /\ live'[t] = live[u] /\ live'[u] = live[t]
        /\ \A s \in Tables \ {t, u} : live'[s] = live[s]
  BY SwapFacts
<1> QED
  BY <1>1 DEF PartyStep, Seats

LEMMA PartyEveryStep == ASSUME IInv, [Next]_vars, NEW p \in Parties PROVE PartyStep(p)
<1>1. CASE live' = live
  BY <1>1, StillThere DEF PartyStep
<1>2. ASSUME NEW w \in Workers, Commit(w) PROVE PartyStep(p)
  <2>1. ASSUME CreateWish(w) PROVE live' = live
    BY <2>1 DEF CreateWish, ledger
  <2> QED
    BY <1>1, <1>2, <2>1, FireParty, HoldParty, MoveParty, SwapParty, FulfilParty DEF Commit
<1>3. ASSUME NEW w \in Workers, Request(w) PROVE live' = live
  BY <1>3 DEF Request, AskFire, AskHold, AskMove, AskSwap, AskWish, AskFulfil, Begin, ledger
<1>4. ASSUME NEW w \in Workers, Refuse(w) PROVE live' = live
  BY <1>4 DEF Refuse, ledger
<1>5. ASSUME Clear \/ CancelWish \/ UNCHANGED vars PROVE live' = live
  BY <1>5 DEF Clear, CancelWish, vars, ledger
<1> QED
  BY <1>1, <1>2, <1>3, <1>4, <1>5, ReleaseParty, EndBillParty DEF Next

-----------------------------------------------------------------------------
(* A transfer request resolves once.                                       *)

WishStep(i) ==
  /\ wish[i].status \in {"fulfilled", "cancelled"} => wish'[i] = wish[i]
  /\ wish[i].status = "waiting" /\ wish'[i].status = "fulfilled" =>
       /\ wish'[i].landed \in Wished[i]
       /\ live'[wish'[i].landed] = wish[i].bill

LEMMA LandedWish ==
  ASSUME IInv, NEW b \in Bills, NEW t \in Tables, wish' = Resolved(b, t), live'[t] = b,
         NEW i \in Wishes
  PROVE  WishStep(i)
<1>1. wish[i].status # "waiting" => wish'[i] = wish[i]
  BY ResolvedFacts
<1>2. wish[i].status = "waiting" /\ wish'[i].status = "fulfilled" =>
        wish'[i].landed \in Wished[i] /\ wish'[i].landed = t /\ wish[i].bill = b
  BY ResolvedFacts
<1> QED
  BY <1>1, <1>2 DEF WishStep

LEMMA MoveWish == ASSUME IInv, NEW w \in Workers, Move(w), NEW i \in Wishes PROVE WishStep(i)
<1>1. PICK b \in Bills, t \in Tables :
        /\ bill[b] # "none" /\ live[t] \in {b, Nobody} /\ Relocate(w, b, t)
        /\ wish' = Resolved(b, t) /\ UNCHANGED bill
  BY MoveFacts
<1>2. live[t] \notin Bills \ {b}
  BY <1>1, FloorAssumption
<1>3. live'[t] = b
  BY <1>1, <1>2, RelocateFacts
<1> QED
  BY <1>1, <1>3, LandedWish

LEMMA FulfilWish == ASSUME IInv, NEW w \in Workers, Fulfil(w), NEW i \in Wishes PROVE WishStep(i)
<1>1. PICK b \in Bills, t \in Tables :
        /\ bill[b] # "none" /\ live[t] \notin Bills \ {b} /\ Relocate(w, b, t)
        /\ wish' = Resolved(b, t) /\ UNCHANGED bill
  BY FulfilFacts
<1>2. live'[t] = b
  BY <1>1, RelocateFacts
<1> QED
  BY <1>1, <1>2, LandedWish

LEMMA SwapWish == ASSUME IInv, NEW w \in Workers, Swap(w), NEW i \in Wishes PROVE WishStep(i)
<1>1. PICK t, u \in Tables :
        live'[t] = live[u] /\ live'[u] = live[t] /\ wish' = SwappedWish(t, u) /\ t # u
  BY SwapFacts
<1>2. KeptOrFulfilled(i, t, u)
  BY <1>1, SwappedWishes
<1>3. CASE wish'[i] = wish[i]
  BY <1>3 DEF WishStep
<1>4. ASSUME NEW s \in Tables, NEW r \in Tables,
             {s, r} = {t, u}, r = (IF s = t THEN u ELSE t),
             wish[i].status = "waiting", wish[i].bill = live[s], r \in Wished[i],
             wish'[i] = [wish[i] EXCEPT !.status = "fulfilled", !.landed = r]
      PROVE  WishStep(i)
  <2>1. live'[r] = live[s]
    BY <1>1, <1>4
  <2>2. wish[i] \in [status : {"none", "waiting", "fulfilled", "cancelled"},
                     bill : Bills \cup {Nobody}, landed : Tables \cup {Nobody}]
    BY DEF IInv, TypeOK
  <2>3. wish'[i].landed = r
    BY <1>4, <2>2
  <2> QED
    BY <1>4, <2>1, <2>3 DEF WishStep
<1> QED
  BY <1>2, <1>3, <1>4 DEF KeptOrFulfilled

LEMMA OtherWish ==
  ASSUME IInv, NEW i \in Wishes,
         \/ \E w \in Workers : CreateWish(w)
         \/ EndBill
         \/ CancelWish
  PROVE  WishStep(i)
<1>1. wish[i] \in [status : {"none", "waiting", "fulfilled", "cancelled"},
                   bill : Bills \cup {Nobody}, landed : Tables \cup {Nobody}]
      /\ wish = [j \in Wishes |-> wish[j]]
  BY DEF IInv, TypeOK
<1>2. [wish[i] EXCEPT !.status = "cancelled"].status = "cancelled"
  BY <1>1
<1>3. ASSUME NEW w \in Workers, CreateWish(w) PROVE WishStep(i)
  <2>1. wish'[i] = wish[i] \/ wish[i] = NoWish
    BY <1>1, <1>3 DEF CreateWish
  <2> QED
    BY <2>1 DEF WishStep, NoWish
<1>4. ASSUME EndBill \/ CancelWish PROVE WishStep(i)
  <2>1. \/ wish'[i] = wish[i]
        \/ wish[i].status = "waiting" /\ wish'[i] = [wish[i] EXCEPT !.status = "cancelled"]
    BY <1>1, <1>4 DEF EndBill, Withdrawn, CancelWish, StillWaiting
  <2> QED
    BY <1>2, <2>1 DEF WishStep
<1> QED
  BY <1>3, <1>4

LEMMA WishEveryStep == ASSUME IInv, [Next]_vars, NEW i \in Wishes PROVE WishStep(i)
<1>1. CASE UNCHANGED wish
  BY <1>1 DEF WishStep
<1>2. ASSUME NEW w \in Workers, Commit(w) PROVE WishStep(i)
  <2>1. ASSUME Fire(w) \/ Hold(w) PROVE UNCHANGED wish
    BY <2>1 DEF Fire, Hold
  <2> QED
    BY <1>1, <1>2, <2>1, MoveWish, SwapWish, FulfilWish, OtherWish DEF Commit
<1>3. ASSUME NEW w \in Workers, Request(w) PROVE UNCHANGED wish
  BY <1>3 DEF Request, AskFire, AskHold, AskMove, AskSwap, AskWish, AskFulfil, Begin
<1>4. ASSUME (\E w \in Workers : Refuse(w)) \/ Release \/ Clear \/ UNCHANGED vars
      PROVE  UNCHANGED wish
  BY <1>4 DEF Refuse, Release, Clear, vars
<1> QED
  BY <1>1, <1>2, <1>3, <1>4, OtherWish DEF Next

-----------------------------------------------------------------------------
(* What no step may do.                                                    *)

\* A party that sat down keeps its table until it is let go, is carried elsewhere or
\* has its bill opened there: only a transfer fulfilled there takes it from under it.
THEOREM OnlyTransfersUnseat == Spec => OnlyTransferUnseats
<1>1. IInv /\ [Next]_vars => \A p \in Parties : PartyStep(p)
  BY PartyEveryStep
<1>2. IInv /\ [Next]_vars =>
        [\A p \in Parties : Seats(p) # {} =>
           \/ \E t \in Tables : live'[t] = p
           \/ \A t \in Seats(p) : live'[t] = Nobody /\ req' = req
           \/ \E w \in Workers : Opens(w, Seats(p)) \/ Unseats(w, Seats(p))]_vars
  BY <1>1 DEF PartyStep
<1> QED
  BY <1>2, FloorInvariant, PTL DEF Spec, OnlyTransferUnseats

\* A transfer request resolves once, and where its bill then sits.
THEOREM WishesResolveOnce == Spec => WishResolvesOnce
<1>1. IInv /\ [Next]_vars => \A i \in Wishes : WishStep(i)
  BY WishEveryStep
<1>2. IInv /\ [Next]_vars =>
        [\A i \in Wishes :
           /\ wish[i].status \in {"fulfilled", "cancelled"} => wish'[i] = wish[i]
           /\ wish[i].status = "waiting" /\ wish'[i].status = "fulfilled" =>
                /\ wish'[i].landed \in Wished[i]
                /\ live'[wish'[i].landed] = wish[i].bill]_vars
  BY <1>1 DEF WishStep
<1> QED
  BY <1>2, FloorInvariant, PTL DEF Spec, WishResolvesOnce
=============================================================================
