------------------------------- MODULE Floor -------------------------------
(***************************************************************************)
(* The tables of a branch: who sits where, as the occupancy ledger has it, *)
(* under concurrent rounds, holds, moves, swaps, transfers and bills that  *)
(* end.                                                                    *)
(*                                                                         *)
(* A transaction that takes a table locks its row, and every write of a    *)
(* ledger row takes the same lock through the trigger that projects the    *)
(* status: a transaction is one action, its commit.  What a request reads  *)
(* before its transaction it reads when it asks.                           *)
(*                                                                         *)
(* A ledger row starts and ends at now(), when its transaction began, and  *)
(* a table's status is read off the row that started last.  A transaction  *)
(* may reach a table after one that began later: its row then lies behind  *)
(* the other's, and the check that a row ends after it started refuses it  *)
(* the other's end.  When a transaction that opens no row began tells      *)
(* nobody anything: asking and committing are one action.                  *)
(***************************************************************************)
EXTENDS FiniteSets

CONSTANTS
  Workers,             \* requests in progress at once
  Tables,
  Bills,
  Parties,             \* parties that sit down before they order
  Wishes, Wished,      \* transfer requests, and the tables each would do with
  Nobody               \* no occupant, no table

ASSUME FloorAssumption ==
  /\ Wished \in [Wishes -> SUBSET Tables]
  /\ Bills \cap Parties = {} /\ Nobody \notin Bills \cup Parties \cup Tables

VARIABLES
  live,                \* the occupant of each table: its ledger row not ended
  behind,              \* tables whose live row is not the one started last
  unbussed,            \* tables whose last started row ended with plates, not cleared
  plates,              \* tables a paid party left, that nobody cleared
  bill, at,            \* each bill's status and table
  wish,                \* each transfer request: status, bill and landing
  req,                 \* each request in progress
  older, late, fresh   \* of each, the requests that began before it, the tables
                       \* with a row started after it began, and with a live one

ledger == <<live, behind, unbussed, plates>>
clock  == <<older, late, fresh>>
vars   == <<ledger, bill, at, wish, req, clock>>

Job(op, x, t, u) == [op |-> op, x |-> x, t |-> t, u |-> u]

Idle == Job("none", Nobody, Nobody, Nobody)

NoWish == [status |-> "none", bill |-> Nobody, landed |-> Nobody]

-----------------------------------------------------------------------------
(* Requests.                                                               *)

InFlight == {w \in Workers : req[w] # Idle}

Begin(w, job) ==
  /\ req[w] = Idle
  /\ req' = [req EXCEPT ![w] = job]
  /\ older' = [older EXCEPT ![w] = InFlight]
  /\ UNCHANGED <<ledger, bill, at, wish, late, fresh>>

\* Request w ends, having ended the rows on the tables in ended and opened
\* rows on those in landed.
End(w, ended, landed) ==
  /\ req' = [req EXCEPT ![w] = Idle]
  /\ older' = [v \in Workers |-> IF v = w THEN {} ELSE older[v] \ {w}]
  /\ late' = [v \in Workers |->
       CASE v = w          -> {}
         [] v \in older[w] -> late[v] \cup landed
         [] OTHER          -> late[v]]
  /\ fresh' = [v \in Workers |->
       CASE v = w          -> {}
         [] v \in older[w] -> (fresh[v] \ ended) \cup landed
         [] OTHER          -> fresh[v] \ (ended \cup landed)]

\* A request refused, or aborted by the database, changes nothing.
Refuse(w) ==
  /\ req[w] # Idle
  /\ End(w, {}, {})
  /\ UNCHANGED <<ledger, bill, at, wish>>

-----------------------------------------------------------------------------
(* The ledger.                                                             *)

\* v_table_status.
Status(t) ==
  IF live[t] # Nobody /\ t \notin behind THEN "seated"
  ELSE IF t \in unbussed THEN "dirty" ELSE "free"

Seats(x) == {t \in Tables : live[t] = x}

Occupied == {t \in Tables : live[t] # Nobody}

\* Faulty: every row ended asks for bussing, a voided bill's too.
LeaveDirty(ended, bus) ==
  /\ live' = [t \in Tables |-> IF t \in ended THEN Nobody ELSE live[t]]
  /\ behind' = behind \ ended
  /\ unbussed' = unbussed \cup (ended \ behind)
  /\ plates' = plates \cup bus
  /\ fresh' = [v \in Workers |-> fresh[v] \ ended]
  /\ UNCHANGED <<req, older, late>>

\* The rows on the tables in ended end, with plates on those in bus.
Leave(ended, bus) ==
  /\ live' = [t \in Tables |-> IF t \in ended THEN Nobody ELSE live[t]]
  /\ behind' = behind \ ended
  /\ unbussed' = unbussed \cup (bus \ behind)
  /\ plates' = plates \cup bus
  /\ fresh' = [v \in Workers |-> fresh[v] \ ended]
  /\ UNCHANGED <<req, older, late>>

\* Request w ends the rows on the tables in ended, refused by the check
\* table_occupancies_ends_after_start if one started after it began, and opens
\* one for each table of landing.
Write(w, ended, landing) ==
  LET landed == DOMAIN landing IN
  /\ ended \cap fresh[w] = {}
  /\ live' = [t \in Tables |-> IF t \in landed THEN landing[t]
                               ELSE IF t \in ended THEN Nobody ELSE live[t]]
  /\ behind' = (behind \ ended) \cup (landed \cap late[w])
  /\ unbussed' = unbussed \ (landed \ late[w])
  /\ plates' = plates
  /\ End(w, ended, landed)

\* What Status would be of a table just left without plates.
StillDirty(t) == t \in unbussed

\* A bill that lands where its waiting request wished resolves it.
Resolved(b, t) ==
  [i \in Wishes |->
    IF wish[i].status = "waiting" /\ wish[i].bill = b /\ t \in Wished[i]
    THEN [wish[i] EXCEPT !.status = "fulfilled", !.landed = t] ELSE wish[i]]

\* A bill that ends withdraws its request.
Withdrawn(b) ==
  [i \in Wishes |-> IF wish[i].status = "waiting" /\ wish[i].bill = b
                    THEN [wish[i] EXCEPT !.status = "cancelled"] ELSE wish[i]]

-----------------------------------------------------------------------------
(* A bill opens with its first round, on a table if one is named and may   *)
(* be claimed: nobody's bill is there, and no plates.  The party waiting   *)
(* there, if any, is seated: this is their bill.                           *)

AskFire(w) ==
  \E b \in Bills, t \in Tables \cup {Nobody} :
    bill[b] = "none" /\ Begin(w, Job("fire", b, t, Nobody))

MayClaim(t) == t \in Tables /\ live[t] \notin Bills /\ Status(t) # "dirty"

Fire(w) ==
  /\ req[w].op = "fire"
  /\ LET b == req[w].x
         t == req[w].t IN
     /\ bill[b] = "none"
     /\ bill' = [bill EXCEPT ![b] = "open"]
     /\ IF MayClaim(t)
        THEN /\ at' = [at EXCEPT ![b] = t]
             /\ Write(w, {t} \cap Occupied, [s \in {t} |-> b])
        ELSE End(w, {}, {}) /\ UNCHANGED <<at, ledger>>
  /\ UNCHANGED wish

-----------------------------------------------------------------------------
(* A party sits down before ordering, and lets go.                         *)

AskHold(w) ==
  \E p \in Parties, t \in Tables :
    /\ Seats(p) = {} /\ \A v \in InFlight : req[v].x # p
    /\ Begin(w, Job("hold", p, t, Nobody))

\* On a table already held a hold is refused, or its own and changes nothing.
Hold(w) ==
  /\ req[w].op = "hold"
  /\ LET t == req[w].t IN
     /\ live[t] = Nobody /\ Status(t) # "dirty"
     /\ Write(w, {}, [s \in {t} |-> req[w].x])
  /\ UNCHANGED <<bill, at, wish>>

\* A bill's row is never let go here.
Release ==
  \E t \in Tables, ate \in BOOLEAN :
    /\ live[t] \in Parties
    /\ Leave({t}, IF ate THEN {t} ELSE {})
    /\ UNCHANGED <<bill, at, wish>>

\* Only the row started last is cleared.
Clear ==
  \E t \in Tables :
    /\ live[t] = Nobody /\ t \in unbussed
    /\ unbussed' = unbussed \ {t}
    /\ plates' = plates \ {t}
    /\ UNCHANGED <<live, behind, bill, at, wish, req, clock>>

-----------------------------------------------------------------------------
(* A bill moves.  Its status is read before the transaction.               *)

\* Faulty: the row on the old table stays.
StaysToo(b, t) == {t} \cap Seats(b)

\* The rows a bill leaves when it lands on t.
Leaves(b, t) == Seats(b) \ {t}

\* Bill b leaves its table and lands on t; a party there is seated.
Relocate(w, b, t) ==
  /\ live[t] = Nobody => Status(t) # "dirty"
  /\ at' = [at EXCEPT ![b] = t]
  /\ IF live[t] = b THEN End(w, {}, {}) /\ UNCHANGED ledger
     ELSE Write(w, Leaves(b, t) \cup ({t} \cap Occupied), [s \in {t} |-> b])

AskMove(w) ==
  \E b \in Bills, t \in Tables :
    bill[b] = "open" /\ Begin(w, Job("move", b, t, Nobody))

\* Faulty: a party waiting to order does not keep a bill off its table.
LandsOnParty(b, t) == live[t] \in {b, Nobody} \cup Parties

FreeFor(b, t) == live[t] \in {b, Nobody}

Move(w) ==
  /\ req[w].op = "move"
  /\ LET b == req[w].x
         t == req[w].t IN
     /\ FreeFor(b, t)
     /\ Relocate(w, b, t)
     /\ wish' = Resolved(b, t)
  /\ UNCHANGED bill

AskSwap(w) ==
  \E t, u \in Tables : t # u /\ Begin(w, Job("swap", Nobody, t, u))

\* Somebody is there, and nobody lands on plates.  A bill asks once more when
\* it lands.
MaySwap(t, u) ==
  /\ {live[t], live[u]} # {Nobody}
  /\ live[t] = Nobody \/ live[u] \in Bills => ~StillDirty(t)
  /\ live[u] = Nobody \/ live[t] \in Bills => ~StillDirty(u)

Swap(w) ==
  /\ req[w].op = "swap"
  /\ LET t == req[w].t
         u == req[w].u
         landing == [s \in {s \in {t, u} : live[IF s = t THEN u ELSE t] # Nobody} |->
                       live[IF s = t THEN u ELSE t]] IN
     /\ MaySwap(t, u)
     /\ Write(w, {t, u} \cap Occupied, landing)
     /\ at' = [b \in Bills |-> CASE b = live[t] -> u [] b = live[u] -> t [] OTHER -> at[b]]
     /\ wish' = [i \in Wishes |->
                   CASE live[t] \in Bills /\ wish[i].bill = live[t] -> Resolved(live[t], u)[i]
                     [] live[u] \in Bills /\ wish[i].bill = live[u] -> Resolved(live[u], t)[i]
                     [] OTHER                                        -> wish[i]]
  /\ UNCHANGED bill

-----------------------------------------------------------------------------
(* A bill ends.  A paid party leaves plates.                               *)

EndBill ==
  \E b \in Bills, how \in {"settled", "voided"} :
    /\ bill[b] = "open"
    /\ bill' = [bill EXCEPT ![b] = how]
    /\ Leave(Seats(b), IF how = "settled" THEN Seats(b) ELSE {})
    /\ wish' = Withdrawn(b)
    /\ UNCHANGED at

-----------------------------------------------------------------------------
(* Transfer requests.  The bill and its other requests are read without a  *)
(* transaction; an index keeps one waiting request for a bill.             *)

Waiting(b) == {i \in Wishes : wish[i].status = "waiting" /\ wish[i].bill = b}

AskWish(w) ==
  \E b \in Bills, i \in Wishes :
    /\ wish[i] = NoWish /\ bill[b] = "open" /\ Waiting(b) = {}
    /\ Begin(w, Job("wish", b, i, Nobody))

CreateWish(w) ==
  /\ req[w].op = "wish"
  /\ LET b == req[w].x
         i == req[w].t IN
     /\ wish[i] = NoWish /\ Waiting(b) = {}
     /\ wish' = [wish EXCEPT ![i] = [status |-> "waiting", bill |-> b, landed |-> Nobody]]
  /\ End(w, {}, {})
  /\ UNCHANGED <<ledger, bill, at>>

\* Faulty: UPDATE without AND status = 'waiting'.
CancelledAnyway(i) == wish[i] # NoWish

StillWaiting(i) == wish[i].status = "waiting"

CancelWish ==
  \E i \in Wishes :
    /\ StillWaiting(i)
    /\ wish' = [wish EXCEPT ![i].status = "cancelled"]
    /\ UNCHANGED <<ledger, bill, at, req, clock>>

\* A request for one resolved, or for a table not wished for, is always refused.
AskFulfil(w) ==
  \E i \in Wishes : \E t \in Wished[i] :
    StillWaiting(i) /\ Begin(w, Job("fulfil", t, i, Nobody))

\* Only another bill keeps this one off the table: a party there loses it.
Fulfil(w) ==
  /\ req[w].op = "fulfil"
  /\ LET i == req[w].t
         t == req[w].x
         b == wish[i].bill IN
     /\ StillWaiting(i) /\ t \in Wished[i]
     /\ bill[b] = "open"
     /\ live[t] \notin Bills \ {b}
     /\ Relocate(w, b, t)
     /\ wish' = Resolved(b, t)
  /\ UNCHANGED bill

-----------------------------------------------------------------------------

Init ==
  /\ live = [t \in Tables |-> Nobody] /\ behind = {} /\ unbussed = {} /\ plates = {}
  /\ bill = [b \in Bills |-> "none"] /\ at = [b \in Bills |-> Nobody]
  /\ wish = [i \in Wishes |-> NoWish]
  /\ req = [w \in Workers |-> Idle]
  /\ older = [w \in Workers |-> {}]
  /\ late = [w \in Workers |-> {}] /\ fresh = [w \in Workers |-> {}]

Request(w) ==
  AskFire(w) \/ AskHold(w) \/ AskMove(w) \/ AskSwap(w) \/ AskWish(w) \/ AskFulfil(w)

Commit(w) ==
  Fire(w) \/ Hold(w) \/ Move(w) \/ Swap(w) \/ CreateWish(w) \/ Fulfil(w)

Next ==
  \/ Release \/ Clear \/ EndBill \/ CancelWish
  \/ \E w \in Workers : Request(w) \/ Commit(w) \/ Refuse(w)

Spec == Init /\ [][Next]_vars

-----------------------------------------------------------------------------
(* Properties.                                                             *)

\* The variables keep their types; the plates a status may show were left.
TypeOK ==
  /\ live \in [Tables -> Bills \cup Parties \cup {Nobody}]
  /\ behind \subseteq Tables /\ plates \subseteq Tables /\ unbussed \subseteq plates
  /\ bill \in [Bills -> {"none", "open", "settled", "voided"}]
  /\ at \in [Bills -> Tables \cup {Nobody}]
  /\ wish \in [Wishes -> [status : {"none", "waiting", "fulfilled", "cancelled"},
                          bill : Bills \cup {Nobody}, landed : Tables \cup {Nobody}]]
  /\ req \in [Workers -> [op : {"none", "fire", "hold", "move", "swap", "wish", "fulfil"},
                          x : Bills \cup Parties \cup Tables \cup {Nobody},
                          t : Tables \cup Wishes \cup {Nobody}, u : Tables \cup {Nobody}]]
  /\ older \in [Workers -> SUBSET Workers]
  /\ late \in [Workers -> SUBSET Tables] /\ fresh \in [Workers -> SUBSET Tables]

\* The first round fired on one of the tables opens a bill there.
Opens(w, tables) ==
  /\ req[w].op = "fire" /\ req'[w] = Idle
  /\ req[w].t \in tables /\ live'[req[w].t] = req[w].x

\* A transfer is fulfilled on one of the tables: a bill from elsewhere is there.
Unseats(w, tables) ==
  /\ req[w].op = "fulfil" /\ req'[w] = Idle
  /\ req[w].x \in tables /\ live'[req[w].x] = wish[req[w].t].bill

\* The ledger and the bill agree, however moves, swaps, transfers and the
\* bill's end interleave: an open bill sits on the table it names, and on no
\* other.
BillAtItsTable ==
  \A b \in Bills : bill[b] = "open" => Seats(b) = {at[b]} \ {Nobody}

\* A party that sat down keeps its table until it is let go, is carried to another
\* table, or the first round fired there opens its bill: a move does not land on it,
\* and a swap does not lose it.  What does take the table from under it is another
\* bill's transfer, fulfilled there although the table is not free.
OnlyTransferUnseats ==
  [][\A p \in Parties : Seats(p) # {} =>
       \/ \E t \in Tables : live'[t] = p
       \/ \A t \in Seats(p) : live'[t] = Nobody /\ req' = req
       \/ \E w \in Workers : Opens(w, Seats(p)) \/ Unseats(w, Seats(p))]_vars

\* A transfer request resolves once: fulfilled, its bill sits that moment on a
\* table it wished for; and what is fulfilled or cancelled stays so.
WishResolvesOnce ==
  [][\A i \in Wishes :
       /\ wish[i].status \in {"fulfilled", "cancelled"} => wish'[i] = wish[i]
       /\ wish[i].status = "waiting" /\ wish'[i].status = "fulfilled" =>
            /\ wish'[i].landed \in Wished[i]
            /\ live'[wish'[i].landed] = wish[i].bill]_vars
=============================================================================
