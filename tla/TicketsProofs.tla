--------------------------- MODULE TicketsProofs ---------------------------
(***************************************************************************)
(* Proofs about Tickets, for every number of bills, rounds, lines and      *)
(* concurrent requests: the running subtotal, the two columns of a kitchen *)
(* ticket, the customer of a sale, the first close, and the end of a bill. *)
(***************************************************************************)
EXTENDS Tickets, TLAPS

\* What a request carries still makes sense when it goes on.
WellAsked(r) ==
  /\ r.op = "round" => r.x \in Rounds /\ (r.x \notin Openers => bill[RoundBill[r.x]] # "none")
  /\ r.op = "settle" => r.x \in Bills /\ r.rows \subseteq Lines
  /\ r.op = "void" => r.x \in Bills
  /\ r.op = "strike" => r.x \in Lines /\ LineRound[r.x] \in fired
  /\ r.op \in {"bump", "recall"} => r.x \in plates
  /\ r.op = "customer" => r.x \in Bills /\ (r.pc = "write" => (r.saw <=> bill[r.x] = "settled"))
  /\ r.op = "retire" => r.rows \subseteq fired \cup Bills
  /\ r.pc = "ticket" => r.op \in {"bump", "recall"}

Asked == \A w \in Workers : WellAsked(req[w])

\* A kitchen ticket, a plate and a void belong to a round on record, and that
\* round to a bill that was opened.
Recorded ==
  /\ \A r \in Rounds : r \notin fired => kitchen[r] = NoTicket
  /\ \A r \in fired : bill[RoundBill[r]] # "none"
  /\ \A l \in struck \cup plates : LineRound[l] \in fired

IInv == TypeOK /\ Asked /\ Recorded /\ SubtotalIsLive /\ ReadyIsClosed /\ CustomerReachesSale

Pcs == {"idle", "commit", "ticket", "write"}

-----------------------------------------------------------------------------
(* The ways a request moves.                                               *)

LEMMA AskFacts ==
  ASSUME TypeOK, NEW w \in Workers,
         NEW op \in {"none", "round", "settle", "void", "strike", "bump", "recall", "customer"},
         NEW x \in Bills \cup Rounds \cup Lines, NEW rows \in SUBSET Lines,
         NEW who \in Customers \cup {NoOne}, Ask(w, op, x, rows, who)
  PROVE  /\ req' \in [Workers -> Requests]
         /\ req'[w] = Job(op, "commit", x, rows, who, FALSE)
         /\ \A v \in Workers \ {w} : req'[v] = req[v]
  BY DEF TypeOK, Ask, Job, Requests

LEMMA GotoFacts ==
  ASSUME TypeOK, NEW w \in Workers, NEW pc \in Pcs, NEW saw \in BOOLEAN, Goto(w, pc, saw)
  PROVE  /\ req' \in [Workers -> Requests]
         /\ req'[w].op = req[w].op /\ req'[w].x = req[w].x /\ req'[w].rows = req[w].rows
         /\ req'[w].pc = pc /\ req'[w].saw = saw
         /\ \A v \in Workers \ {w} : req'[v] = req[v]
  BY DEF TypeOK, Goto, Job, Requests, Pcs

LEMMA AnswerFacts ==
  ASSUME TypeOK, NEW w \in Workers, Answer(w)
  PROVE  /\ req' \in [Workers -> Requests] /\ req'[w] = Idle
         /\ \A v \in Workers \ {w} : req'[v] = req[v]
  BY DEF TypeOK, Answer, Requests, Idle, Job

\* The requests stay sound when rows are only added and no bill is settled
\* under the one that holds it.
LEMMA OthersKept ==
  ASSUME IInv, NEW w \in Workers, \A v \in Workers \ {w} : req'[v] = req[v],
         WellAsked(req[w])', fired \subseteq fired', plates \subseteq plates',
         \A b \in Bills : bill[b] # "none" => bill'[b] # "none",
         \A b \in Bills : (bill'[b] = "settled" <=> bill[b] = "settled") \/ BillIsFree(b)
  PROVE  Asked'
<1> SUFFICES ASSUME NEW v \in Workers, v # w PROVE WellAsked(req[v])'
  BY DEF Asked
<1>1. req'[v] = req[v] /\ WellAsked(req[v])
  BY DEF IInv, Asked
<1>2. req[v].op = "customer" /\ req[v].pc = "write" =>
        (bill'[req[v].x] = "settled" <=> bill[req[v].x] = "settled")
  BY <1>1 DEF WellAsked, BillIsFree, HoldsBill, At
<1>3. req[v].op = "round" => RoundBill[req[v].x] \in Bills
  BY <1>1, TicketsAssumption DEF WellAsked
<1> QED
  BY <1>1, <1>2, <1>3 DEF WellAsked

\* An answered request asks for nothing.
LEMMA AnsweredKept ==
  ASSUME IInv, NEW w \in Workers, Answer(w), fired \subseteq fired', plates \subseteq plates',
         \A b \in Bills : bill[b] # "none" => bill'[b] # "none",
         \A b \in Bills : (bill'[b] = "settled" <=> bill[b] = "settled") \/ BillIsFree(b)
  PROVE  Asked' /\ req' \in [Workers -> Requests]
<1>1. /\ req' \in [Workers -> Requests] /\ req'[w] = Idle
      /\ \A v \in Workers \ {w} : req'[v] = req[v]
  BY AnswerFacts DEF IInv
<1>2. WellAsked(req[w])'
  BY <1>1 DEF WellAsked, Idle, Job
<1> QED
  BY <1>1, <1>2, OthersKept

-----------------------------------------------------------------------------
(* Init, and the steps that change no row.                                 *)

LEMMA InvInit == Init => IInv
<1> SUFFICES ASSUME Init PROVE IInv
  OBVIOUS
<1> USE TicketsAssumption DEF Init
<1>1. TypeOK
  BY DEF TypeOK, Tickets, NoTicket, Requests, Idle, Job
<1>2. Asked /\ Recorded
  BY DEF Asked, WellAsked, Recorded, Idle, Job
<1>3. SubtotalIsLive /\ ReadyIsClosed /\ CustomerReachesSale
  BY DEF SubtotalIsLive, ReadyIsClosed, CustomerReachesSale, NoTicket
<1> QED
  BY <1>1, <1>2, <1>3 DEF IInv

LEMMA QuietStep ==
  ASSUME IInv, UNCHANGED <<billRows, roundRows, kitchenRows>>,
         req' \in [Workers -> Requests], Asked'
  PROVE  IInv'
<1> USE DEF IInv, billRows, roundRows, kitchenRows
<1>1. TypeOK'
  BY DEF TypeOK
<1>2. Recorded' /\ SubtotalIsLive' /\ ReadyIsClosed' /\ CustomerReachesSale'
  BY DEF Recorded, SubtotalIsLive, ReadyIsClosed, CustomerReachesSale
<1> QED
  BY <1>1, <1>2

LEMMA AskInv ==
  ASSUME IInv, NEW w \in Workers,
         NEW op \in {"none", "round", "settle", "void", "strike", "bump", "recall", "customer"},
         NEW x \in Bills \cup Rounds \cup Lines, NEW rows \in SUBSET Lines,
         NEW who \in Customers \cup {NoOne}, Ask(w, op, x, rows, who),
         WellAsked(Job(op, "commit", x, rows, who, FALSE))
  PROVE  IInv'
<1> USE DEF billRows, roundRows, kitchenRows
<1>1. /\ req' \in [Workers -> Requests]
      /\ req'[w] = Job(op, "commit", x, rows, who, FALSE)
      /\ \A v \in Workers \ {w} : req'[v] = req[v]
  BY AskFacts DEF IInv
<1>2. UNCHANGED <<billRows, roundRows, kitchenRows>>
  BY DEF Ask
<1>3. WellAsked(req[w])'
  BY <1>1, <1>2 DEF WellAsked
<1>4. Asked'
  BY <1>1, <1>2, <1>3, OthersKept
<1> QED
  BY <1>1, <1>2, <1>4, QuietStep

LEMMA ReadUnbumpedInv ==
  ASSUME IInv, NEW w \in Workers, ReadUnbumped(w)
  PROVE  IInv'
<1> DEFINE unbumped == {r \in Rounds : OnBoard(r) /\ kitchen[r].close = "none"}
           settled  == {b \in Bills : bill[b] = "settled"}
           job      == Job("retire", "write", NoOne, unbumped \cup settled, NoOne, FALSE)
<1>1. unbumped \subseteq fired /\ unbumped \subseteq Rounds /\ settled \subseteq Bills
  BY DEF OnBoard, IInv, Recorded, NoTicket
<1>2. req' = [req EXCEPT ![w] = job] /\ UNCHANGED <<billRows, roundRows, kitchenRows>>
  BY DEF ReadUnbumped
<1>3. job \in Requests /\ WellAsked(job)
  BY <1>1 DEF Requests, Job, WellAsked
<1> HIDE DEF job
<1>4. req' \in [Workers -> Requests] /\ req'[w] = job /\ \A v \in Workers \ {w} : req'[v] = req[v]
  BY <1>2, <1>3 DEF IInv, TypeOK
<1>5. WellAsked(req[w])'
  BY <1>2, <1>3, <1>4 DEF WellAsked, billRows, roundRows, kitchenRows
<1>6. Asked'
  BY <1>2, <1>4, <1>5, OthersKept DEF billRows, roundRows, kitchenRows
<1> QED
  BY <1>2, <1>4, <1>6, QuietStep

LEMMA RequestInv ==
  ASSUME IInv, NEW w \in Workers, Request(w)
  PROVE  IInv'
<1> USE TicketsAssumption
<1>1. ASSUME AskRound(w) PROVE IInv'
  <2>1. PICK r \in Rounds \ fired :
          /\ bill[RoundBill[r]] = IF r \in Openers THEN "none" ELSE "open"
          /\ Ask(w, "round", r, {}, NoOne)
    BY <1>1 DEF AskRound
  <2>2. WellAsked(Job("round", "commit", r, {}, NoOne, FALSE))
    BY <2>1 DEF WellAsked, Job
  <2> QED
    BY <2>1, <2>2, AskInv
<1>2. ASSUME AskSettle(w) PROVE IInv'
  <2>1. PICK b \in Bills, c \in Customers \cup {NoOne} : Ask(w, "settle", b, LiveLines(b), c)
    BY <1>2 DEF AskSettle
  <2>2. LiveLines(b) \in SUBSET Lines
    BY DEF LiveLines
  <2>3. WellAsked(Job("settle", "commit", b, LiveLines(b), c, FALSE))
    BY <2>2 DEF WellAsked, Job
  <2> QED
    BY <2>1, <2>2, <2>3, AskInv
<1>3. ASSUME AskVoid(w) PROVE IInv'
  <2>1. PICK b \in Bills : Ask(w, "void", b, {}, NoOne)
    BY <1>3 DEF AskVoid
  <2>2. WellAsked(Job("void", "commit", b, {}, NoOne, FALSE))
    BY DEF WellAsked, Job
  <2> QED
    BY <2>1, <2>2, AskInv
<1>4. ASSUME AskStrike(w) PROVE IInv'
  <2>1. PICK l \in Lines : LineRound[l] \in fired /\ Ask(w, "strike", l, {}, NoOne)
    BY <1>4 DEF AskStrike, LiveLines
  <2>2. WellAsked(Job("strike", "commit", l, {}, NoOne, FALSE))
    BY <2>1 DEF WellAsked, Job
  <2> QED
    BY <2>1, <2>2, AskInv
<1>5. ASSUME AskBump(w) PROVE IInv'
  <2>1. PICK l \in plates, op \in {"bump", "recall"} : Ask(w, op, l, {}, NoOne)
    BY <1>5 DEF AskBump
  <2>2. l \in Lines /\ WellAsked(Job(op, "commit", l, {}, NoOne, FALSE))
    BY DEF WellAsked, Job, IInv, TypeOK
  <2>3. /\ op \in {"none", "round", "settle", "void", "strike", "bump", "recall", "customer"}
        /\ l \in Bills \cup Rounds \cup Lines
        /\ {} \in SUBSET Lines /\ NoOne \in Customers \cup {NoOne}
    BY <2>2
  <2> HIDE DEF WellAsked, Job
  <2> QED
    BY <2>1, <2>2, <2>3, AskInv
<1>6. ASSUME AskCustomer(w) PROVE IInv'
  <2>1. PICK b \in Bills, c \in Customers \cup {NoOne} : Ask(w, "customer", b, {}, c)
    BY <1>6 DEF AskCustomer
  <2>2. WellAsked(Job("customer", "commit", b, {}, c, FALSE))
    BY DEF WellAsked, Job
  <2> QED
    BY <2>1, <2>2, AskInv
<1> QED
  BY <1>1, <1>2, <1>3, <1>4, <1>5, <1>6, ReadUnbumpedInv DEF Request

LEMMA RollbackInv ==
  ASSUME IInv, NEW w \in Workers, Rollback(w)
  PROVE  IInv'
<1>1. Asked' /\ req' \in [Workers -> Requests]
  BY AnsweredKept DEF Rollback, billRows, roundRows, kitchenRows
<1> QED
  BY <1>1, QuietStep DEF Rollback

LEMMA LockBillInv ==
  ASSUME IInv, NEW w \in Workers, LockBill(w)
  PROVE  IInv'
<1> USE DEF LockBill, billRows, roundRows, kitchenRows
<1> DEFINE settled == bill[req[w].x] = "settled"
<1>1. settled \in BOOLEAN /\ "write" \in Pcs /\ Goto(w, "write", settled)
  BY DEF Pcs
<1> HIDE DEF settled
<1>2. /\ req' \in [Workers -> Requests]
      /\ req'[w].op = req[w].op /\ req'[w].x = req[w].x /\ req'[w].rows = req[w].rows
      /\ req'[w].pc = "write" /\ req'[w].saw = settled
      /\ \A v \in Workers \ {w} : req'[v] = req[v]
  BY <1>1, GotoFacts DEF IInv
<1>3. WellAsked(req[w])'
  BY <1>2 DEF settled, WellAsked, At, IInv, Asked
<1>4. Asked'
  BY <1>2, <1>3, OthersKept
<1> QED
  BY <1>2, <1>4, QuietStep

LEMMA ReadDoneInv ==
  ASSUME IInv, NEW w \in Workers, ReadDone(w)
  PROVE  IInv'
<1> USE DEF ReadDone, billRows, roundRows, kitchenRows
<1> DEFINE done == Done(LineRound[req[w].x], bumped)
<1>1. done \in BOOLEAN /\ "ticket" \in Pcs /\ Goto(w, "ticket", done)
  BY DEF Pcs, Done
<1> HIDE DEF done
<1>2. /\ req' \in [Workers -> Requests]
      /\ req'[w].op = req[w].op /\ req'[w].x = req[w].x /\ req'[w].rows = req[w].rows
      /\ req'[w].pc = "ticket" /\ req'[w].saw = done
      /\ \A v \in Workers \ {w} : req'[v] = req[v]
  BY <1>1, GotoFacts DEF IInv
<1>3. WellAsked(req[w])'
  BY <1>2 DEF WellAsked, IInv, Asked
<1>4. Asked'
  BY <1>2, <1>3, OthersKept
<1> QED
  BY <1>2, <1>4, QuietStep
-----------------------------------------------------------------------------
(* Rounds.                                                                 *)

LEMMA FireRoundFacts ==
  ASSUME IInv, NEW r \in Rounds \ fired, FireRound(r),
         \A b \in Bills : bill[b] # "none" => bill'[b] # "none", bill'[RoundBill[r]] # "none"
  PROVE  /\ fired' \subseteq Rounds /\ struck' \subseteq Lines /\ counted' \in [Lines -> Nat]
         /\ kitchen' \in [Rounds -> Tickets]
         /\ plates' \subseteq Lines /\ bumped' \subseteq plates' /\ scrapped' \subseteq plates'
         /\ fired \subseteq fired' /\ plates \subseteq plates'
         /\ Recorded' /\ SubtotalIsLive' /\ ReadyIsClosed'
<1> USE TicketsAssumption DEF IInv, TypeOK
<1>1. PICK mode \in Modes :
        /\ plates' = plates \cup Emitted(r, mode)
        /\ kitchen' = IF Emitted(r, mode) = {} THEN kitchen
                      ELSE [kitchen EXCEPT ![r] = [status |-> "firing", close |-> "none"]]
  BY DEF FireRound
<1>2. Emitted(r, mode) \subseteq {l \in Lines : LineRound[l] = r}
  BY DEF Emitted, RoundLines
<1>3. fired' = fired \cup {r} /\ UNCHANGED <<struck, bumped, scrapped>>
  BY DEF FireRound
<1>4. \A l \in Lines : counted'[l] = IF LineRound[l] = r THEN counted[l] + 1 ELSE counted[l]
  BY DEF FireRound
<1>5. counted' \in [Lines -> Nat]
  BY DEF FireRound
<1>6. kitchen' \in [Rounds -> Tickets] /\ \A q \in Rounds \ {r} : kitchen'[q] = kitchen[q]
  BY <1>1 DEF Tickets
<1>7. kitchen'[r] = kitchen[r] \/ kitchen'[r] = [status |-> "firing", close |-> "none"]
  BY <1>1
<1>8. Recorded'
  BY <1>1, <1>2, <1>3, <1>6 DEF Recorded
<1>9. SubtotalIsLive'
  <2>1. \A l \in Lines : LineRound[l] = r => l \notin struck /\ counted[l] = 0
    BY DEF Recorded, SubtotalIsLive
  <2> QED
    BY <1>3, <1>4, <2>1 DEF SubtotalIsLive
<1>10. ReadyIsClosed'
  BY <1>6, <1>7 DEF ReadyIsClosed
<1> QED
  BY <1>1, <1>2, <1>3, <1>5, <1>6, <1>8, <1>9, <1>10

LEMMA CommitOpeningInv ==
  ASSUME IInv, NEW w \in Workers, CommitOpening(w)
  PROVE  IInv'
<1> USE TicketsAssumption DEF billRows, roundRows, kitchenRows
<1> DEFINE r == req[w].x
<1>1. r \in Rounds /\ RoundBill[r] \in Bills
  BY DEF CommitOpening, At, IInv, Asked, WellAsked
<1>2. CASE bill[RoundBill[r]] # "none"
  BY <1>2, AnsweredKept, QuietStep DEF CommitOpening
<1>3. CASE bill[RoundBill[r]] = "none"
  <2>1. /\ bill' = [bill EXCEPT ![RoundBill[r]] = "open"] /\ FireRound(r) /\ Answer(w)
        /\ UNCHANGED <<sale, customer, guest>>
    BY <1>3 DEF CommitOpening
  <2>2. r \in Rounds \ fired
    BY <1>1, <1>3 DEF IInv, Recorded
  <2>3. /\ bill' \in [Bills -> {"none", "open", "settled", "voided"}]
        /\ \A b \in Bills : bill[b] # "none" => bill'[b] # "none"
        /\ \A b \in Bills : bill'[b] = "settled" <=> bill[b] = "settled"
        /\ bill'[RoundBill[r]] # "none"
    BY <1>1, <1>3, <2>1 DEF IInv, TypeOK
  <2> HIDE DEF r
  <2>4. /\ fired' \subseteq Rounds /\ struck' \subseteq Lines /\ counted' \in [Lines -> Nat]
        /\ kitchen' \in [Rounds -> Tickets]
        /\ plates' \subseteq Lines /\ bumped' \subseteq plates' /\ scrapped' \subseteq plates'
        /\ fired \subseteq fired' /\ plates \subseteq plates'
        /\ Recorded' /\ SubtotalIsLive' /\ ReadyIsClosed'
    BY <2>1, <2>2, <2>3, FireRoundFacts
  <2>5. Asked' /\ req' \in [Workers -> Requests]
    BY <2>1, <2>3, <2>4, AnsweredKept
  <2>6. TypeOK'
    BY <2>1, <2>3, <2>4, <2>5 DEF IInv, TypeOK
  <2>7. CustomerReachesSale'
    BY <2>1, <2>3 DEF IInv, CustomerReachesSale
  <2> QED
    BY <2>4, <2>5, <2>6, <2>7 DEF IInv
<1> QED
  BY <1>2, <1>3

LEMMA CommitRoundInv ==
  ASSUME IInv, NEW w \in Workers, CommitRound(w)
  PROVE  IInv'
<1> USE TicketsAssumption DEF billRows, roundRows, kitchenRows
<1> DEFINE r == req[w].x
<1>1. r \in Rounds /\ bill[RoundBill[r]] # "none" /\ Answer(w) /\ UNCHANGED billRows
  BY DEF CommitRound, At, IInv, Asked, WellAsked
<1>2. CASE r \in fired
  BY <1>1, <1>2, AnsweredKept, QuietStep DEF CommitRound
<1>3. CASE r \notin fired
  <2>1. FireRound(r)
    BY <1>3 DEF CommitRound
  <2> HIDE DEF r
  <2>2. /\ fired' \subseteq Rounds /\ struck' \subseteq Lines /\ counted' \in [Lines -> Nat]
        /\ kitchen' \in [Rounds -> Tickets]
        /\ plates' \subseteq Lines /\ bumped' \subseteq plates' /\ scrapped' \subseteq plates'
        /\ fired \subseteq fired' /\ plates \subseteq plates'
        /\ Recorded' /\ SubtotalIsLive' /\ ReadyIsClosed'
    BY <1>1, <1>3, <2>1, FireRoundFacts
  <2>3. Asked' /\ req' \in [Workers -> Requests]
    BY <1>1, <2>2, AnsweredKept
  <2>4. TypeOK'
    BY <1>1, <2>2, <2>3 DEF IInv, TypeOK
  <2>5. CustomerReachesSale'
    BY <1>1 DEF IInv, CustomerReachesSale
  <2> QED
    BY <2>2, <2>3, <2>4, <2>5 DEF IInv
<1> QED
  BY <1>2, <1>3

-----------------------------------------------------------------------------
(* Kitchen tickets.                                                        *)

\* A step that changes only kitchen tickets on record, plates bumped and
\* plates voided keeps the invariant when it keeps the two columns together.
LEMMA KitchenStep ==
  ASSUME IInv, NEW w \in Workers, Answer(w), UNCHANGED <<billRows, roundRows, plates>>,
         kitchen' \in [Rounds -> Tickets], bumped' \subseteq plates, scrapped' \subseteq plates,
         \A r \in Rounds : r \notin fired => kitchen'[r] = kitchen[r],
         ReadyIsClosed'
  PROVE  IInv'
<1> USE DEF billRows, roundRows
<1>1. Asked' /\ req' \in [Workers -> Requests]
  BY AnsweredKept
<1>2. TypeOK'
  BY <1>1 DEF IInv, TypeOK
<1>3. Recorded'
  BY DEF IInv, Recorded
<1>4. SubtotalIsLive' /\ CustomerReachesSale'
  BY DEF IInv, SubtotalIsLive, CustomerReachesSale
<1> QED
  BY <1>1, <1>2, <1>3, <1>4 DEF IInv

\* The recompute of one ticket.
LEMMA RecomputedFacts ==
  ASSUME TypeOK, ReadyIsClosed, NEW r \in Rounds, NEW done \in BOOLEAN,
         kitchen' = [kitchen EXCEPT ![r] = Recomputed(kitchen[r], done)]
  PROVE  /\ kitchen' \in [Rounds -> Tickets] /\ ReadyIsClosed'
         /\ \A q \in Rounds \ {r} : kitchen'[q] = kitchen[q]
         /\ kitchen[r].close \notin {"none", "bumped"} => kitchen'[r].close = kitchen[r].close
         /\ kitchen[r].close = "bumped" => kitchen'[r].close \in {"none", "bumped"}
<1>1. kitchen[r] \in Tickets
  BY DEF TypeOK
<1>2. /\ Recomputed(kitchen[r], done) \in Tickets
      /\ kitchen[r].close \notin {"none", "bumped"} => Recomputed(kitchen[r], done).close = kitchen[r].close
      /\ kitchen[r].close = "bumped" => Recomputed(kitchen[r], done).close \in {"none", "bumped"}
  BY <1>1 DEF Recomputed, Tickets
<1>3. /\ Recomputed(kitchen[r], done).status = "ready" => Recomputed(kitchen[r], done).close # "none"
      /\ Recomputed(kitchen[r], done).close = "bumped" =>
           Recomputed(kitchen[r], done).status \in {"ready", "voided"}
  BY <1>1 DEF Recomputed, Tickets, ReadyIsClosed
<1> HIDE DEF Recomputed, Tickets
<1>4. kitchen'[r] = Recomputed(kitchen[r], done) /\ kitchen' \in [Rounds -> Tickets]
      /\ \A q \in Rounds \ {r} : kitchen'[q] = kitchen[q]
  BY <1>2 DEF TypeOK
<1> QED
  BY <1>2, <1>3, <1>4 DEF ReadyIsClosed

LEMMA CommitBumpInv ==
  ASSUME IInv, NEW w \in Workers, CommitBump(w)
  PROVE  IInv'
<1> USE TicketsAssumption
<1> DEFINE l == req[w].x
           r == LineRound[l]
           done == Done(r, bumped')
<1>1. l \in plates /\ l \in Lines /\ r \in fired /\ r \in Rounds
  BY DEF CommitBump, IInv, Asked, WellAsked, Recorded, TypeOK
<1>2. /\ bumped' \subseteq plates /\ kitchen' = [kitchen EXCEPT ![r] = Recomputed(kitchen[r], done)]
      /\ Answer(w) /\ UNCHANGED <<billRows, roundRows, plates, scrapped>>
  BY <1>1 DEF CommitBump, IInv, TypeOK
<1>3. done \in BOOLEAN
  BY DEF Done
<1> HIDE DEF l, r, done
<1>4. /\ kitchen' \in [Rounds -> Tickets] /\ ReadyIsClosed'
      /\ \A q \in Rounds \ {r} : kitchen'[q] = kitchen[q]
  BY <1>1, <1>2, <1>3, RecomputedFacts DEF IInv
<1>5. scrapped' \subseteq plates
  BY <1>2 DEF IInv, TypeOK
<1>6. \A q \in Rounds : q \notin fired => kitchen'[q] = kitchen[q]
  BY <1>1, <1>4
<1> QED
  BY <1>2, <1>4, <1>5, <1>6, KitchenStep

LEMMA WriteDoneInv ==
  ASSUME IInv, NEW w \in Workers, WriteDone(w)
  PROVE  IInv'
<1> USE TicketsAssumption
<1> DEFINE l == req[w].x
           r == LineRound[l]
           done == req[w].saw
<1>1. l \in plates /\ l \in Lines /\ r \in fired /\ r \in Rounds /\ done \in BOOLEAN
  BY DEF WriteDone, IInv, Asked, WellAsked, Recorded, TypeOK, Requests
<1>2. /\ kitchen' = [kitchen EXCEPT ![r] = Recomputed(kitchen[r], done)]
      /\ Answer(w) /\ UNCHANGED <<billRows, roundRows, plates, bumped, scrapped>>
  BY DEF WriteDone
<1> HIDE DEF l, r, done
<1>3. /\ kitchen' \in [Rounds -> Tickets] /\ ReadyIsClosed'
      /\ \A q \in Rounds \ {r} : kitchen'[q] = kitchen[q]
  BY <1>1, <1>2, RecomputedFacts DEF IInv
<1>4. bumped' \subseteq plates /\ scrapped' \subseteq plates
  BY <1>2 DEF IInv, TypeOK
<1>5. \A q \in Rounds : q \notin fired => kitchen'[q] = kitchen[q]
  BY <1>1, <1>3
<1> QED
  BY <1>2, <1>3, <1>4, <1>5, KitchenStep

LEMMA RetireUnbumpedInv ==
  ASSUME IInv, NEW w \in Workers, RetireUnbumped(w)
  PROVE  IInv'
<1> USE TicketsAssumption
<1>1. kitchen' = [r \in Rounds |->
        IF Retires(w, r)
        THEN [kitchen[r] EXCEPT !.close = IF RoundBill[r] \in req[w].rows THEN "settled" ELSE "retired"]
        ELSE kitchen[r]]
  BY DEF RetireUnbumped
<1>2. \A r \in Rounds : Retires(w, r) => r \in fired
  BY DEF Retires, At, IInv, Asked, WellAsked
<1>3. \A r \in Rounds : kitchen[r] \in Tickets
  BY DEF IInv, TypeOK
<1>4. kitchen' \in [Rounds -> Tickets]
  BY <1>1, <1>3 DEF Tickets
<1>5. ReadyIsClosed'
  BY <1>1, <1>3 DEF Tickets, ReadyIsClosed, IInv
<1>6. bumped' \subseteq plates /\ scrapped' \subseteq plates
  BY DEF RetireUnbumped, IInv, TypeOK
<1>7. \A r \in Rounds : r \notin fired => kitchen'[r] = kitchen[r]
  BY <1>1, <1>2
<1> QED
  BY <1>4, <1>5, <1>6, <1>7, KitchenStep DEF RetireUnbumped

-----------------------------------------------------------------------------
(* The end of a bill.                                                      *)

LEMMA CloseFacts ==
  ASSUME IInv, NEW b \in Bills, NEW reason \in {"settled", "voided"}, Close(b, reason)
  PROVE  /\ kitchen' \in [Rounds -> Tickets] /\ ReadyIsClosed'
         /\ plates' = plates /\ bumped' = bumped
         /\ scrapped' \subseteq plates
         /\ \A r \in Rounds : r \notin fired => kitchen'[r] = kitchen[r]
         /\ \A r \in Rounds : kitchen[r].close # "none" => kitchen'[r].close = kitchen[r].close
<1>1. kitchen' = [r \in Rounds |->
        IF RoundBill[r] = b /\ OnBoard(r)
        THEN [status |-> IF reason = "voided" THEN "voided" ELSE kitchen[r].status,
              close |-> FirstClose(r, reason)]
        ELSE kitchen[r]]
  BY DEF Close
<1>2. \A r \in Rounds : kitchen[r] \in Tickets
  BY DEF IInv, TypeOK
<1>3. kitchen' \in [Rounds -> Tickets]
  BY <1>1, <1>2 DEF Tickets, FirstClose
<1>4. ReadyIsClosed'
  BY <1>1, <1>2 DEF Tickets, FirstClose, ReadyIsClosed, IInv
<1>5. \A r \in Rounds : r \notin fired => kitchen'[r] = kitchen[r]
  BY <1>1 DEF OnBoard, IInv, Recorded, NoTicket
<1>6. \A r \in Rounds : kitchen[r].close # "none" => kitchen'[r].close = kitchen[r].close
  BY <1>1 DEF FirstClose
<1>7. plates' = plates /\ bumped' = bumped /\ scrapped' \subseteq plates
  BY DEF Close, IInv, TypeOK
<1> QED
  BY <1>3, <1>4, <1>5, <1>6, <1>7

LEMMA CommitSettleInv ==
  ASSUME IInv, NEW w \in Workers, CommitSettle(w)
  PROVE  IInv'
<1> USE TicketsAssumption DEF billRows, roundRows, kitchenRows
<1> DEFINE b == req[w].x
<1>1. b \in Bills /\ req[w].rows \subseteq Lines /\ Answer(w) /\ UNCHANGED roundRows /\ BillIsFree(b)
  BY DEF CommitSettle, At, IInv, Asked, WellAsked
<1>2. req[w].who \in Customers \cup {NoOne}
  BY DEF IInv, TypeOK, Requests
<1>3. CASE ~StillOpen(b)
  BY <1>1, <1>3, AnsweredKept, QuietStep DEF CommitSettle
<1>4. CASE StillOpen(b)
  <2>1. /\ bill' = [bill EXCEPT ![b] = "settled"]
        /\ sale' = [sale EXCEPT ![b] = req[w].rows]
        /\ guest' = [guest EXCEPT ![b] = IF req[w].who = NoOne THEN customer[b] ELSE req[w].who]
        /\ Close(b, "settled") /\ UNCHANGED customer
    BY <1>4 DEF CommitSettle
  <2> HIDE DEF b
  <2>2. /\ kitchen' \in [Rounds -> Tickets] /\ ReadyIsClosed'
        /\ plates' = plates /\ bumped' = bumped /\ scrapped' \subseteq plates
        /\ \A r \in Rounds : r \notin fired => kitchen'[r] = kitchen[r]
    BY <1>1, <2>1, CloseFacts
  <2>3. /\ bill' \in [Bills -> {"none", "open", "settled", "voided"}]
        /\ \A a \in Bills : bill[a] # "none" => bill'[a] # "none"
        /\ \A a \in Bills : (bill'[a] = "settled" <=> bill[a] = "settled") \/ BillIsFree(a)
        /\ sale' \in [Bills -> SUBSET Lines] /\ guest' \in [Bills -> Customers \cup {NoOne}]
    BY <1>1, <1>2, <2>1 DEF IInv, TypeOK
  <2>4. Asked' /\ req' \in [Workers -> Requests]
    BY <1>1, <2>2, <2>3, AnsweredKept
  <2>5. TypeOK'
    BY <1>1, <2>1, <2>2, <2>3, <2>4 DEF IInv, TypeOK
  <2>6. Recorded'
    BY <1>1, <2>2, <2>3 DEF IInv, TypeOK, Recorded
  <2>7. SubtotalIsLive'
    BY <1>1 DEF IInv, SubtotalIsLive
  <2>8. CustomerReachesSale'
    BY <1>1, <2>1 DEF IInv, TypeOK, CustomerReachesSale
  <2> QED
    BY <2>2, <2>4, <2>5, <2>6, <2>7, <2>8 DEF IInv
<1> QED
  BY <1>3, <1>4

LEMMA CommitVoidInv ==
  ASSUME IInv, NEW w \in Workers, CommitVoid(w)
  PROVE  IInv'
<1> USE TicketsAssumption DEF billRows, roundRows, kitchenRows
<1> DEFINE b == req[w].x
<1>1. /\ b \in Bills /\ Answer(w) /\ UNCHANGED <<sale, customer, guest, roundRows>>
  BY DEF CommitVoid, At, IInv, Asked, WellAsked
<1>2. CASE ~StillOpen(b)
  BY <1>1, <1>2, AnsweredKept, QuietStep DEF CommitVoid
<1>3. CASE StillOpen(b)
  <2>1. bill' = [bill EXCEPT ![b] = "voided"] /\ Close(b, "voided")
    BY <1>3 DEF CommitVoid
  <2>2. bill[b] = "open"
    BY <1>3 DEF StillOpen
  <2> HIDE DEF b
  <2>3. /\ kitchen' \in [Rounds -> Tickets] /\ ReadyIsClosed'
        /\ plates' = plates /\ bumped' = bumped /\ scrapped' \subseteq plates
        /\ \A r \in Rounds : r \notin fired => kitchen'[r] = kitchen[r]
    BY <1>1, <2>1, CloseFacts
  <2>4. /\ bill' \in [Bills -> {"none", "open", "settled", "voided"}]
        /\ \A a \in Bills : bill[a] # "none" => bill'[a] # "none"
        /\ \A a \in Bills : bill'[a] = "settled" <=> bill[a] = "settled"
    BY <1>1, <2>1, <2>2 DEF IInv, TypeOK
  <2>5. Asked' /\ req' \in [Workers -> Requests]
    BY <1>1, <2>3, <2>4, AnsweredKept
  <2>6. TypeOK'
    BY <1>1, <2>3, <2>4, <2>5 DEF IInv, TypeOK
  <2>7. Recorded'
    BY <1>1, <2>3, <2>4 DEF IInv, TypeOK, Recorded
  <2>8. SubtotalIsLive' /\ CustomerReachesSale'
    BY <1>1, <2>4 DEF IInv, SubtotalIsLive, CustomerReachesSale
  <2> QED
    BY <2>3, <2>5, <2>6, <2>7, <2>8 DEF IInv
<1> QED
  BY <1>2, <1>3

LEMMA CommitStrikeInv ==
  ASSUME IInv, NEW w \in Workers, CommitStrike(w)
  PROVE  IInv'
<1> USE TicketsAssumption DEF billRows
<1> DEFINE l == req[w].x
<1>1. /\ l \in Lines /\ LineRound[l] \in fired /\ Answer(w)
      /\ UNCHANGED <<billRows, fired, kitchen, plates, bumped>>
  BY DEF CommitStrike, At, IInv, Asked, WellAsked
<1>2. CASE ~Strikable(l)
  BY <1>1, <1>2, AnsweredKept, QuietStep DEF CommitStrike, roundRows, kitchenRows
<1>3. CASE Strikable(l)
  <2>1. /\ struck' = struck \cup {l} /\ counted' = [counted EXCEPT ![l] = @ - 1]
        /\ scrapped' = IF l \in plates \ bumped THEN scrapped \cup {l} ELSE scrapped
    BY <1>3 DEF CommitStrike
  <2>2. l \notin struck /\ counted[l] = 1
    BY <1>1, <1>3 DEF Strikable, IInv, SubtotalIsLive
  <2> HIDE DEF l
  <2>3. counted' \in [Lines -> Nat] /\ SubtotalIsLive'
    BY <1>1, <2>1, <2>2 DEF IInv, TypeOK, SubtotalIsLive
  <2>4. Asked' /\ req' \in [Workers -> Requests]
    BY <1>1, AnsweredKept
  <2>5. TypeOK'
    BY <1>1, <2>1, <2>3, <2>4 DEF IInv, TypeOK
  <2>6. Recorded'
    BY <1>1, <2>1 DEF IInv, Recorded
  <2>7. ReadyIsClosed' /\ CustomerReachesSale'
    BY <1>1 DEF IInv, ReadyIsClosed, CustomerReachesSale
  <2> QED
    BY <2>3, <2>4, <2>5, <2>6, <2>7 DEF IInv
<1> QED
  BY <1>2, <1>3

LEMMA WriteCustomerInv ==
  ASSUME IInv, NEW w \in Workers, WriteCustomer(w)
  PROVE  IInv'
<1> USE DEF roundRows, kitchenRows
<1> DEFINE b == req[w].x
<1>1. /\ b \in Bills /\ (req[w].saw <=> bill[b] = "settled")
      /\ req[w].who \in Customers \cup {NoOne}
  BY DEF WriteCustomer, At, IInv, Asked, WellAsked, TypeOK, Requests
<1>2. /\ customer' = IF bill[b] = "voided" THEN customer ELSE [customer EXCEPT ![b] = req[w].who]
      /\ guest' = IF req[w].saw THEN [guest EXCEPT ![b] = req[w].who] ELSE guest
      /\ Answer(w) /\ UNCHANGED <<bill, sale, roundRows, kitchenRows>>
  BY DEF WriteCustomer
<1> HIDE DEF b
<1>3. Asked' /\ req' \in [Workers -> Requests]
  BY <1>2, AnsweredKept
<1>4. TypeOK'
  BY <1>1, <1>2, <1>3 DEF IInv, TypeOK
<1>5. CustomerReachesSale'
  BY <1>1, <1>2 DEF IInv, TypeOK, CustomerReachesSale
<1>6. Recorded' /\ SubtotalIsLive' /\ ReadyIsClosed'
  BY <1>2 DEF IInv, Recorded, SubtotalIsLive, ReadyIsClosed
<1> QED
  BY <1>3, <1>4, <1>5, <1>6 DEF IInv

-----------------------------------------------------------------------------
(* Every step.                                                             *)

LEMMA InvStep == IInv /\ [Next]_vars => IInv'
<1> SUFFICES ASSUME IInv, [Next]_vars PROVE IInv'
  OBVIOUS
<1>1. CASE UNCHANGED vars
  BY <1>1, QuietStep DEF vars, IInv, TypeOK, Asked, WellAsked, billRows, roundRows, kitchenRows
<1>2. ASSUME NEW w \in Workers, Work(w) PROVE IInv'
  BY <1>2, CommitOpeningInv, CommitRoundInv, CommitSettleInv, CommitVoidInv, CommitStrikeInv,
     CommitBumpInv, ReadDoneInv, WriteDoneInv, LockBillInv, WriteCustomerInv, RetireUnbumpedInv
     DEF Work
<1> QED
  BY <1>1, <1>2, RequestInv, RollbackInv DEF Next

-----------------------------------------------------------------------------
(* What holds in every behaviour.                                          *)

\* The inductive invariant: what a request carries still makes sense when it
\* goes on, and what is on record belongs together.
THEOREM TicketsInvariant == Spec => []IInv
  BY InvInit, InvStep, PTL DEF Spec

\* Every variable keeps its type.
THEOREM TicketsTypes == Spec => []TypeOK
<1>1. IInv => TypeOK
  BY DEF IInv
<1> QED
  BY <1>1, TicketsInvariant, PTL

\* The running subtotal is what the live lines cost.
THEOREM SubtotalExact == Spec => []SubtotalIsLive
<1>1. IInv => SubtotalIsLive
  BY DEF IInv
<1> QED
  BY <1>1, TicketsInvariant, PTL

\* What the kitchen calls ready is off the board.
THEOREM ColumnsAgree == Spec => []ReadyIsClosed
<1>1. IInv => ReadyIsClosed
  BY DEF IInv
<1> QED
  BY <1>1, TicketsInvariant, PTL

\* A customer named on a bill reaches its sale.
THEOREM CustomerOnSale == Spec => []CustomerReachesSale
<1>1. IInv => CustomerReachesSale
  BY DEF IInv
<1> QED
  BY <1>1, TicketsInvariant, PTL
\* A close once made is kept, but for the kitchen's own and for the retirement.
LEMMA CloseKept ==
  ASSUME IInv, [Next]_vars, NEW r \in Rounds, kitchen[r].close # "none"
  PROVE  \/ kitchen'[r].close = kitchen[r].close
         \/ kitchen[r].close = "bumped" /\ kitchen'[r].close = "none"
         \/ \E w \in Workers : Retires(w, r) /\ req'[w] = Idle
<1> DEFINE Kept == \/ kitchen'[r].close = kitchen[r].close
                   \/ kitchen[r].close = "bumped" /\ kitchen'[r].close = "none"
                   \/ \E w \in Workers : Retires(w, r) /\ req'[w] = Idle
<1>1. r \in fired
  BY DEF IInv, Recorded, NoTicket
<1> SUFFICES Kept
  OBVIOUS
<1>2. CASE UNCHANGED kitchen
  BY <1>2
<1>3. ASSUME NEW q \in Rounds \ fired, FireRound(q) PROVE Kept
  BY <1>1, <1>3 DEF FireRound, IInv, TypeOK
<1>4. ASSUME NEW w \in Workers, CommitOpening(w) \/ CommitRound(w) PROVE Kept
  <2>1. req[w].x \in Rounds
    BY <1>4 DEF CommitOpening, CommitRound, At, IInv, Asked, WellAsked
  <2>2. req[w].x \in fired => bill[RoundBill[req[w].x]] # "none"
    BY DEF IInv, Recorded
  <2> QED
    BY <1>2, <1>3, <1>4, <2>1, <2>2 DEF CommitOpening, CommitRound, kitchenRows
<1>5. ASSUME NEW w \in Workers, CommitSettle(w) \/ CommitVoid(w) PROVE Kept
  <2>1. req[w].x \in Bills
    BY <1>5 DEF CommitSettle, CommitVoid, At, IInv, Asked, WellAsked
  <2>2. \/ UNCHANGED kitchen
        \/ Close(req[w].x, "settled") \/ Close(req[w].x, "voided")
    BY <1>5 DEF CommitSettle, CommitVoid, kitchenRows
  <2> QED
    BY <2>1, <2>2, <1>2, CloseFacts
<1>6. ASSUME NEW w \in Workers, CommitBump(w) \/ WriteDone(w) PROVE Kept
  <2> DEFINE q == LineRound[req[w].x]
  <2>1. \E done \in BOOLEAN : kitchen' = [kitchen EXCEPT ![q] = Recomputed(kitchen[q], done)]
    BY <1>6 DEF CommitBump, WriteDone, Done, IInv, TypeOK, Requests
  <2>2. q \in Rounds
    BY <1>6, TicketsAssumption DEF CommitBump, WriteDone, IInv, Asked, WellAsked, Recorded, TypeOK
  <2> HIDE DEF q
  <2>3. /\ r # q => kitchen'[r] = kitchen[r]
        /\ kitchen[q].close \notin {"none", "bumped"} => kitchen'[q].close = kitchen[q].close
        /\ kitchen[q].close = "bumped" => kitchen'[q].close \in {"none", "bumped"}
    BY <2>1, <2>2, RecomputedFacts DEF IInv
  <2> QED
    BY <2>3
<1>7. ASSUME NEW w \in Workers, RetireUnbumped(w) PROVE Kept
  <2>1. req'[w] = Idle
    BY <1>7, AnswerFacts DEF RetireUnbumped, IInv
  <2>2. Retires(w, r) \/ kitchen'[r] = kitchen[r]
    BY <1>7 DEF RetireUnbumped
  <2> QED
    BY <2>1, <2>2
<1>8. ASSUME NEW w \in Workers,
             Request(w) \/ Rollback(w) \/ CommitStrike(w) \/ ReadDone(w) \/ LockBill(w) \/ WriteCustomer(w)
      PROVE  Kept
  BY <1>2, <1>8 DEF Request, AskRound, AskSettle, AskVoid, AskStrike, AskBump, AskCustomer, Ask, ReadUnbumped,
     Rollback, CommitStrike, ReadDone, LockBill, WriteCustomer, kitchenRows
<1> QED
  BY <1>2, <1>4, <1>5, <1>6, <1>7, <1>8 DEF Next, Work, vars, kitchenRows

\* The first close of a kitchen ticket stands.
THEOREM TheFirstCloseWins == Spec => FirstCloseWins
<1>1. IInv /\ [Next]_vars =>
        [\A r \in Rounds : kitchen[r].close # "none" =>
           \/ kitchen'[r].close = kitchen[r].close
           \/ kitchen[r].close = "bumped" /\ kitchen'[r].close = "none"
           \/ \E w \in Workers : Retires(w, r) /\ req'[w] = Idle]_vars
  BY CloseKept
<1> QED
  BY <1>1, TicketsInvariant, PTL DEF Spec, FirstCloseWins

LEMMA EndKept ==
  ASSUME IInv, [Next]_vars, NEW b \in Bills, bill[b] \in {"settled", "voided"}
  PROVE  bill'[b] = bill[b] /\ sale'[b] = sale[b]
<1> USE DEF billRows
<1>1. CASE UNCHANGED <<bill, sale>>
  BY <1>1
<1>2. ASSUME NEW w \in Workers, CommitOpening(w), ~UNCHANGED <<bill, sale>>
      PROVE  bill'[b] = bill[b] /\ sale'[b] = sale[b]
  BY <1>2 DEF CommitOpening, IInv, TypeOK
<1>3. ASSUME NEW w \in Workers, CommitSettle(w) \/ CommitVoid(w), ~UNCHANGED <<bill, sale>>
      PROVE  bill'[b] = bill[b] /\ sale'[b] = sale[b]
  BY <1>3 DEF CommitSettle, CommitVoid, StillOpen, IInv, TypeOK
<1>4. ASSUME NEW w \in Workers,
             \/ Request(w) \/ Rollback(w) \/ CommitRound(w) \/ CommitStrike(w) \/ CommitBump(w)
             \/ ReadDone(w) \/ WriteDone(w) \/ LockBill(w) \/ WriteCustomer(w) \/ RetireUnbumped(w)
      PROVE  UNCHANGED <<bill, sale>>
  BY <1>4 DEF Request, AskRound, AskSettle, AskVoid, AskStrike, AskBump, AskCustomer, Ask, ReadUnbumped,
     Rollback, CommitRound, CommitStrike, CommitBump, ReadDone, WriteDone, LockBill, WriteCustomer, RetireUnbumped
<1> QED
  BY <1>1, <1>2, <1>3, <1>4 DEF Next, Work, vars

\* A bill ends once, and its sale stays what was sold.
THEOREM BillsEndOnce == Spec => EndsOnce
<1>1. IInv /\ [Next]_vars =>
        [\A b \in Bills : bill[b] \in {"settled", "voided"} => bill'[b] = bill[b] /\ sale'[b] = sale[b]]_vars
  BY EndKept
<1> QED
  BY <1>1, TicketsInvariant, PTL DEF Spec, EndsOnce
=============================================================================
