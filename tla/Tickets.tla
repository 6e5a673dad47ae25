------------------------------ MODULE Tickets ------------------------------
(***************************************************************************)
(* The open bills of a branch and their kitchen tickets, served by         *)
(* concurrent requests: rounds are fired, lines bumped, recalled and       *)
(* voided, bills settled into a sale or voided.                            *)
(*                                                                         *)
(* A request reads the bill's status, a settle its lines as well, outside  *)
(* any transaction, and then works in one, where a row it writes is locked *)
(* and its WHERE clause evaluated again.  A transaction whose statements   *)
(* cannot be told apart by the others is one action, its commit.  Rounds   *)
(* are named by their idempotency key, so a retry is another request for   *)
(* the same round.                                                         *)
(*                                                                         *)
(* Every change of a kitchen line, through the changefeed's trigger, holds *)
(* its kitchen ticket's feed row to the commit: two bumps of one ticket    *)
(* that change a line follow one another.  A bump that changes no line     *)
(* holds nothing between reading the lines and writing the ticket.  The    *)
(* last close of a till chooses the tickets it retires by another row of   *)
(* its query, which Postgres does not read again when it has to wait.      *)
(***************************************************************************)
EXTENDS Integers, FiniteSets

CONSTANTS
  Workers,             \* requests in progress at once
  Bills,
  Rounds, RoundBill,   \* rounds, by idempotency key, and their bills
  Openers,             \* the rounds whose request opens their bill
  Lines, LineRound,    \* the bill lines of each round
  Routed,              \* lines whose item has a kitchen station
  Modes,               \* the routing modes of the branch: off, kds, till
  Customers,
  NoOne                \* no customer, no bill, no round, no line

ASSUME TicketsAssumption ==
  /\ RoundBill \in [Rounds -> Bills] /\ LineRound \in [Lines -> Rounds]
  /\ Openers \subseteq Rounds /\ Routed \subseteq Lines /\ Bills \cap Rounds = {}
  /\ Modes \subseteq {"off", "kds", "till"}
  /\ NoOne \notin Customers \cup Bills \cup Rounds \cup Lines

VARIABLES
  bill,                \* each bill's status
  fired,               \* the rounds on record
  struck,              \* bill lines voided
  counted,             \* how often the running subtotal has each line
  sale,                \* the lines of each bill's sale
  customer, guest,     \* each bill's customer, and each sale's
  kitchen,             \* each round's kitchen ticket: status and close
  plates,              \* lines with a kitchen line
  bumped, scrapped,    \* kitchen lines bumped, and voided
  req                  \* each request in progress

billRows    == <<bill, sale, customer, guest>>
roundRows   == <<fired, struck, counted>>
kitchenRows == <<kitchen, plates, bumped, scrapped>>
vars        == <<billRows, roundRows, kitchenRows, req>>

NoTicket == [status |-> "none", close |-> "none"]

Job(op, pc, x, rows, who, saw) ==
  [op |-> op, pc |-> pc, x |-> x, rows |-> rows, who |-> who, saw |-> saw]

Idle == Job("none", "idle", NoOne, {}, NoOne, FALSE)

-----------------------------------------------------------------------------
(* Requests.                                                               *)

Ask(w, op, x, rows, who) ==
  /\ req[w] = Idle
  /\ req' = [req EXCEPT ![w] = Job(op, "commit", x, rows, who, FALSE)]
  /\ UNCHANGED <<billRows, roundRows, kitchenRows>>

At(w, op, pc) == req[w].op = op /\ req[w].pc = pc

Goto(w, pc, saw) ==
  LET r == req[w] IN req' = [req EXCEPT ![w] = Job(r.op, pc, r.x, r.rows, r.who, saw)]

Answer(w) == req' = [req EXCEPT ![w] = Idle]

LineBill(l) == RoundBill[LineRound[l]]

RoundLines(r) == {l \in Lines : LineRound[l] = r}

\* The live lines of bill b, oti.voided_at IS NULL.
LiveLines(b) == {l \in Lines \ struck : LineBill(l) = b /\ LineRound[l] \in fired}

\* SELECT ... FOR UPDATE on the bill, held by the one request that reads the
\* bill in its transaction before it writes.
HoldsBill(w, b) == At(w, "customer", "write") /\ req[w].x = b

\* Faulty: nobody waits for the bill's row.
NobodyWaits(b) == b \in Bills

BillIsFree(b) == \A v \in Workers : ~HoldsBill(v, b)

-----------------------------------------------------------------------------
(* Firing a round.                                                         *)

\* The round's kitchen ticket, unless no line of it goes to the kitchen; in
\* kds mode a line without a station is left out.
Emitted(r, mode) ==
  CASE mode = "off" -> {}
    [] mode = "kds" -> RoundLines(r) \cap Routed
    [] OTHER        -> RoundLines(r)

FireRound(r) ==
  /\ fired' = fired \cup {r}
  /\ counted' = [l \in Lines |-> IF LineRound[l] = r THEN counted[l] + 1 ELSE counted[l]]
  /\ \E mode \in Modes :
       /\ plates' = plates \cup Emitted(r, mode)
       /\ kitchen' = IF Emitted(r, mode) = {} THEN kitchen
                     ELSE [kitchen EXCEPT ![r] = [status |-> "firing", close |-> "none"]]
  /\ UNCHANGED <<struck, bumped, scrapped>>

\* A key on record is answered with the bill as it is.
AskRound(w) ==
  \E r \in Rounds \ fired :
    /\ bill[RoundBill[r]] = IF r \in Openers THEN "none" ELSE "open"
    /\ Ask(w, "round", r, {}, NoOne)

\* The bill opens with its first round; its key refuses a second copy.
CommitOpening(w) ==
  /\ At(w, "round", "commit") /\ req[w].x \in Openers
  /\ LET r == req[w].x IN
     IF bill[RoundBill[r]] # "none" THEN UNCHANGED <<billRows, roundRows, kitchenRows>>
     ELSE /\ bill' = [bill EXCEPT ![RoundBill[r]] = "open"]
          /\ FireRound(r)
          /\ UNCHANGED <<sale, customer, guest>>
  /\ Answer(w)

\* Faulty: the key does not refuse the round's second copy.
CommitRoundAgain(w) ==
  /\ At(w, "round", "commit") /\ req[w].x \notin Openers
  /\ BillIsFree(RoundBill[req[w].x])
  /\ FireRound(req[w].x)
  /\ Answer(w)
  /\ UNCHANGED billRows

\* The allocator takes the bill's row and does not ask for its status.
CommitRound(w) ==
  /\ At(w, "round", "commit") /\ req[w].x \notin Openers
  /\ BillIsFree(RoundBill[req[w].x])
  /\ IF req[w].x \in fired THEN UNCHANGED <<roundRows, kitchenRows>> ELSE FireRound(req[w].x)
  /\ Answer(w)
  /\ UNCHANGED billRows

-----------------------------------------------------------------------------
(* Closing kitchen tickets.  The first close wins.                         *)

OnBoard(r) == kitchen[r].status # "none"

\* Faulty: the last close wins.
LastClose(r, reason) == reason

FirstClose(r, reason) == IF kitchen[r].close = "none" THEN reason ELSE kitchen[r].close

\* Closing changes no status, voiding does and voids every line.
Close(b, reason) ==
  /\ kitchen' = [r \in Rounds |->
       IF RoundBill[r] = b /\ OnBoard(r)
       THEN [status |-> IF reason = "voided" THEN "voided" ELSE kitchen[r].status,
             close |-> FirstClose(r, reason)]
       ELSE kitchen[r]]
  /\ scrapped' = IF reason = "voided" THEN scrapped \cup {l \in plates : LineBill(l) = b}
                 ELSE scrapped
  /\ UNCHANGED <<plates, bumped>>

\* The branch's last till closes in routing mode till: it reads the tickets
\* nobody bumped, and the bills settled.
ReadUnbumped(w) ==
  LET unbumped == {r \in Rounds : OnBoard(r) /\ kitchen[r].close = "none"}
      settled  == {b \in Bills : bill[b] = "settled"} IN
  /\ "till" \in Modes /\ req[w] = Idle /\ unbumped # {}
  /\ req' = [req EXCEPT ![w] = Job("retire", "write", NoOne, unbumped \cup settled, NoOne, FALSE)]
  /\ UNCHANGED <<billRows, roundRows, kitchenRows>>

Retires(w, r) == At(w, "retire", "write") /\ r \in req[w].rows

\* What it read is settled with its bill, or retired, whatever it is by now.
RetireUnbumped(w) ==
  /\ At(w, "retire", "write")
  /\ kitchen' = [r \in Rounds |->
       IF Retires(w, r)
       THEN [kitchen[r] EXCEPT !.close = IF RoundBill[r] \in req[w].rows THEN "settled" ELSE "retired"]
       ELSE kitchen[r]]
  /\ Answer(w)
  /\ UNCHANGED <<billRows, roundRows, plates, bumped, scrapped>>

-----------------------------------------------------------------------------
(* Settling and voiding a bill.                                            *)

AskSettle(w) ==
  \E b \in Bills, c \in Customers \cup {NoOne} :
    /\ bill[b] = "open" /\ LiveLines(b) # {}
    /\ Ask(w, "settle", b, LiveLines(b), c)

\* WHERE status = 'open'.
StillOpen(b) == bill[b] = "open"

\* The sale has the lines read at the start, and the bill's customer unless
\* the cashier named one.
CommitSettle(w) ==
  /\ At(w, "settle", "commit")
  /\ LET b == req[w].x IN
     /\ BillIsFree(b)
     /\ IF ~StillOpen(b) THEN UNCHANGED <<billRows, kitchenRows>>
        ELSE /\ bill' = [bill EXCEPT ![b] = "settled"]
             /\ sale' = [sale EXCEPT ![b] = req[w].rows]
             /\ guest' = [guest EXCEPT ![b] = IF req[w].who = NoOne THEN customer[b] ELSE req[w].who]
             /\ Close(b, "settled")
             /\ UNCHANGED customer
  /\ Answer(w)
  /\ UNCHANGED roundRows

AskVoid(w) == \E b \in Bills : bill[b] = "open" /\ Ask(w, "void", b, {}, NoOne)

CommitVoid(w) ==
  /\ At(w, "void", "commit")
  /\ LET b == req[w].x IN
     /\ BillIsFree(b)
     /\ IF ~StillOpen(b) THEN UNCHANGED <<bill, kitchenRows>>
        ELSE bill' = [bill EXCEPT ![b] = "voided"] /\ Close(b, "voided")
  /\ Answer(w)
  /\ UNCHANGED <<sale, customer, guest, roundRows>>

-----------------------------------------------------------------------------
(* Voiding a line.                                                         *)

\* A line already voided stays so: asking again does nothing.
AskStrike(w) ==
  \E l \in Lines : /\ bill[LineBill(l)] = "open" /\ l \in LiveLines(LineBill(l))
                   /\ Ask(w, "strike", l, {}, NoOne)

\* Faulty: the line is found whether or not it has been voided.
StrikableTwice(l) == TRUE

\* SELECT ... WHERE voided_at IS NULL FOR UPDATE.
Strikable(l) == l \notin struck

\* The bill's status is not read again.  A plate already bumped stays.
CommitStrike(w) ==
  /\ At(w, "strike", "commit")
  /\ LET l == req[w].x IN
     /\ BillIsFree(LineBill(l))
     /\ IF Strikable(l)
        THEN /\ struck' = struck \cup {l}
             /\ counted' = [counted EXCEPT ![l] = @ - 1]
             /\ scrapped' = IF l \in plates \ bumped THEN scrapped \cup {l} ELSE scrapped
        ELSE UNCHANGED <<struck, counted, scrapped>>
  /\ Answer(w)
  /\ UNCHANGED <<billRows, fired, kitchen, plates, bumped>>

-----------------------------------------------------------------------------
(* Bumping and recalling a kitchen line.                                   *)

\* The kitchen is done with round r, given the bumped lines.
Done(r, done) == (RoundLines(r) \cap plates) \ scrapped \subseteq done

\* Faulty: the close is kept when a line comes back.
RecomputedClosed(k, done) ==
  IF done THEN [status |-> "ready", close |-> IF k.close = "none" THEN "bumped" ELSE k.close]
  ELSE [status |-> "firing", close |-> k.close]

\* Readiness is the kitchen's own close, the only one a recall takes back.
Recomputed(k, done) ==
  IF k.status = "voided" THEN k
  ELSE IF done THEN [status |-> "ready", close |-> IF k.close = "none" THEN "bumped" ELSE k.close]
  ELSE [status |-> "firing", close |-> IF k.close = "bumped" THEN "none" ELSE k.close]

AskBump(w) ==
  \E l \in plates \ scrapped, op \in {"bump", "recall"} : Ask(w, op, l, {}, NoOne)

\* Whether the update of the line finds it: a bump only an unbumped line.
Finds(op, l) == l \notin scrapped /\ (op = "bump" => l \notin bumped)

CommitBump(w) ==
  /\ req[w].op \in {"bump", "recall"} /\ req[w].pc = "commit"
  /\ LET l == req[w].x
         r == LineRound[l] IN
     /\ Finds(req[w].op, l)
     /\ bumped' = IF req[w].op = "bump" THEN bumped \cup {l} ELSE bumped \ {l}
     /\ kitchen' = [kitchen EXCEPT ![r] = Recomputed(kitchen[r], Done(r, bumped'))]
  /\ Answer(w)
  /\ UNCHANGED <<billRows, roundRows, plates, scrapped>>

\* The line was not found: nothing keeps the lines from changing between the
\* snapshot of the recompute and its write of the ticket.
ReadDone(w) ==
  /\ req[w].op \in {"bump", "recall"} /\ req[w].pc = "commit"
  /\ ~Finds(req[w].op, req[w].x)
  /\ Goto(w, "ticket", Done(LineRound[req[w].x], bumped))
  /\ UNCHANGED <<billRows, roundRows, kitchenRows>>

WriteDone(w) ==
  /\ req[w].pc = "ticket"
  /\ LET r == LineRound[req[w].x] IN
     kitchen' = [kitchen EXCEPT ![r] = Recomputed(kitchen[r], req[w].saw)]
  /\ Answer(w)
  /\ UNCHANGED <<billRows, roundRows, plates, bumped, scrapped>>

-----------------------------------------------------------------------------
(* The bill's customer.                                                    *)

\* A voided bill takes no customer.
AskCustomer(w) ==
  \E b \in Bills, c \in Customers \cup {NoOne} :
    bill[b] \in {"open", "settled"} /\ Ask(w, "customer", b, {}, c)

LockBill(w) ==
  /\ At(w, "customer", "commit")
  /\ BillIsFree(req[w].x)
  /\ Goto(w, "write", bill[req[w].x] = "settled")
  /\ UNCHANGED <<billRows, roundRows, kitchenRows>>

\* A settled bill passes the change on to its sale; a voided one has none.
WriteCustomer(w) ==
  /\ At(w, "customer", "write")
  /\ LET b == req[w].x IN
     /\ customer' = IF bill[b] = "voided" THEN customer ELSE [customer EXCEPT ![b] = req[w].who]
     /\ guest' = IF req[w].saw THEN [guest EXCEPT ![b] = req[w].who] ELSE guest
  /\ Answer(w)
  /\ UNCHANGED <<bill, sale, roundRows, kitchenRows>>

-----------------------------------------------------------------------------

\* A request that dies, is refused, or is chosen by Postgres to break a
\* deadlock, rolls back.
Rollback(w) ==
  /\ req[w] # Idle
  /\ Answer(w)
  /\ UNCHANGED <<billRows, roundRows, kitchenRows>>

Init ==
  /\ bill = [b \in Bills |-> "none"] /\ sale = [b \in Bills |-> {}]
  /\ customer = [b \in Bills |-> NoOne] /\ guest = [b \in Bills |-> NoOne]
  /\ fired = {} /\ struck = {} /\ counted = [l \in Lines |-> 0]
  /\ kitchen = [r \in Rounds |-> NoTicket]
  /\ plates = {} /\ bumped = {} /\ scrapped = {}
  /\ req = [w \in Workers |-> Idle]

Request(w) ==
  \/ AskRound(w) \/ AskSettle(w) \/ AskVoid(w) \/ AskStrike(w) \/ AskBump(w) \/ AskCustomer(w)
  \/ ReadUnbumped(w)

Work(w) ==
  \/ CommitOpening(w) \/ CommitRound(w) \/ CommitSettle(w) \/ CommitVoid(w) \/ CommitStrike(w)
  \/ CommitBump(w) \/ ReadDone(w) \/ WriteDone(w)
  \/ LockBill(w) \/ WriteCustomer(w) \/ RetireUnbumped(w)

Next == \E w \in Workers : Request(w) \/ Work(w) \/ Rollback(w)

Spec == Init /\ [][Next]_vars

-----------------------------------------------------------------------------
(* Properties.                                                             *)

Tickets == [status : {"none", "firing", "ready", "voided"},
            close : {"none", "bumped", "settled", "retired", "voided"}]

Requests ==
  [op : {"none", "round", "settle", "void", "strike", "bump", "recall", "customer", "retire"},
   pc : {"idle", "commit", "ticket", "write"},
   x : Bills \cup Rounds \cup Lines \cup {NoOne}, rows : SUBSET (Lines \cup Rounds \cup Bills),
   who : Customers \cup {NoOne}, saw : BOOLEAN]

\* The variables keep their types.
TypeOK ==
  /\ bill \in [Bills -> {"none", "open", "settled", "voided"}]
  /\ sale \in [Bills -> SUBSET Lines]
  /\ customer \in [Bills -> Customers \cup {NoOne}]
  /\ guest \in [Bills -> Customers \cup {NoOne}]
  /\ fired \subseteq Rounds /\ struck \subseteq Lines /\ counted \in [Lines -> Nat]
  /\ kitchen \in [Rounds -> Tickets]
  /\ plates \subseteq Lines /\ bumped \subseteq plates /\ scrapped \subseteq plates
  /\ req \in [Workers -> Requests]

\* The running subtotal of a bill, which every round and every voided line
\* only add to, is what its live lines cost: none is counted twice, taken off
\* twice or forgotten, whatever requests are retried or race.
SubtotalIsLive ==
  \A l \in Lines : counted[l] = IF LineRound[l] \in fired /\ l \notin struck THEN 1 ELSE 0

\* A bill ends once: one that is settled is never voided or settled again,
\* its sale stays what was sold, and a voided one is never sold.
EndsOnce ==
  [][\A b \in Bills : bill[b] \in {"settled", "voided"} =>
       bill'[b] = bill[b] /\ sale'[b] = sale[b]]_vars

\* The first close of a kitchen ticket stands; the kitchen's own is taken back
\* when it recalls a line, and one that came while the last till was closing
\* gives way to the retirement.
FirstCloseWins ==
  [][\A r \in Rounds : kitchen[r].close # "none" =>
       \/ kitchen'[r].close = kitchen[r].close
       \/ kitchen[r].close = "bumped" /\ kitchen'[r].close = "none"
       \/ \E w \in Workers : Retires(w, r) /\ req'[w] = Idle]_vars

\* What the kitchen calls ready it has also taken off the board, and what it
\* took off itself is ready: recalls, settles and retirements keep the two
\* columns together.
ReadyIsClosed ==
  \A r \in Rounds :
    /\ kitchen[r].status = "ready" => kitchen[r].close # "none"
    /\ kitchen[r].close = "bumped" => kitchen[r].status \in {"ready", "voided"}

\* A customer named on a bill reaches its sale, however the naming and the
\* settling race.
CustomerReachesSale ==
  \A b \in Bills : bill[b] = "settled" /\ customer[b] # NoOne => guest[b] # NoOne

-----------------------------------------------------------------------------
(* What the code's comments say, and concurrent requests refute.           *)

\* A settle "materializes" the ticket's lines into one paid order: no live
\* line of a settled bill is missing from its sale.
PaidInFull == \A b \in Bills : bill[b] = "settled" => LiveLines(b) \subseteq sale[b]
=============================================================================
