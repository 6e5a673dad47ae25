------------------------------ MODULE Loyalty ------------------------------
(***************************************************************************)
(* One member's card: the ledger of points that sales earn and rewards     *)
(* spend, and the balance that the ledger's trigger keeps.                 *)
(*                                                                         *)
(* Whatever moves the balance holds the member's row until it commits, so  *)
(* a transaction is one step here.  What a request read before its         *)
(* transaction (the sale, the balance, the idempotency key) is a step of   *)
(* its own, and may be out of date by then.                                *)
(***************************************************************************)
EXTENDS Integers, Sequences, FiniteSetsExt

CONSTANTS
  Orders,
  Worth,               \* the points each sale earns
  Cost,                \* what the reward on it costs, 0 when it has none
  Units, Quantity,     \* the units of that line, and how many the reward covers
  Total,               \* what was paid for the sale
  Presses,             \* "add points" requests
  Visits,              \* requests at the counter, and corrections by hand
  Acts, Key,           \* what each visit may ask for, and its idempotency key
  Stamps, CardSize,    \* what a visit stamps, and what a full card holds
  Correction,          \* what is put on the card by hand, or taken off
  Gift,                \* points the card was given before
  Cap,                 \* the shop's ceiling on a balance
  Owes,                \* allow_negative_balance
  None

ASSUME LoyaltyAssumption ==
  /\ Worth \in [Orders -> Nat] /\ Cost \in [Orders -> Nat]
  /\ Units \in [Orders -> Nat] /\ Quantity \in [Orders -> Nat \ {0}]
  /\ \A o \in Orders : Units[o] \in 1 .. Quantity[o]
  /\ Total \in [Orders -> Nat \ {0}]
  /\ Acts \in [Visits -> SUBSET {"earn", "redeem", "adjust"}]
  /\ Stamps \in Nat \ {0} /\ CardSize \in Nat \ {0} /\ Correction \in Int \ {0}
  /\ \A v \in Visits : Key[v] \notin Orders \cup {None}
  /\ None \notin Orders
  /\ Gift \in Nat \ {0} /\ Cap \in Nat \ {0} /\ Owes \in BOOLEAN

VARIABLES
  rows,                \* loyalty_transactions, in the order they were written
  balance,             \* of loyalty_memberships
  sale,                \* the state of each order
  judged,              \* what the plan of an order's reward found, and when
  back,                \* what refunds have returned: money, units paid and free
  press, visit         \* the requests in progress

card == <<rows, balance>>
vars == <<card, sale, judged, back, press, visit>>

-----------------------------------------------------------------------------
(* The ledger.  An earn or a redeem is written by a transaction that began *)
(* after `since` rows were there: created_at is the time it began.         *)

Kinds == {"earn", "redeem", "adjust", "undo"}

Row(kind, of, points, since) ==
  [kind |-> kind, of |-> of, points |-> points, undoes |-> 0, since |-> since]

Unjudged == [afford |-> FALSE, replay |-> FALSE, since |-> 0]

Size(n) == IF n < 0 THEN -n ELSE n

Written(c, kind, of) == {i \in DOMAIN c.rows : c.rows[i].kind = kind /\ c.rows[i].of = of}

\* What a sequence of numbers adds up to.
AddUp(ns) ==
  LET upto[n \in 0 .. Len(ns)] == IF n = 0 THEN 0 ELSE upto[n - 1] + ns[n]
  IN upto[Len(ns)]

\* What later rows have undone of row i.
Undone(c, i) ==
  AddUp([j \in DOMAIN c.rows |-> IF c.rows[j].undoes = i THEN Size(c.rows[j].points) ELSE 0])

\* loyalty_apply_txn: the balance follows the ledger.
Post(c, row) == [rows |-> Append(c.rows, row), balance |-> c.balance + row.points]

Now == [rows |-> rows, balance |-> balance]

Commit(c) == rows' = c.rows /\ balance' = c.balance

\* The trigger's floor: what is spent is there.
Covers(c, points) == c.balance + points >= 0 \/ points > 0

\* Row r is a reward of another sale that still stands, written after row e for certain
\* or perhaps: when their transactions overlapped, either may have begun first.
Claimed(c, r, e) ==
  c.rows[r].kind = "redeem" /\ c.rows[r].of # c.rows[e].of /\ Undone(c, r) < Size(c.rows[r].points)

SurelySpent(c, e)  == \E r \in DOMAIN c.rows : Claimed(c, r, e) /\ c.rows[r].since >= e
PerhapsSpent(c, e) == \E r \in DOMAIN c.rows : Claimed(c, r, e) /\ c.rows[e].since < r

Spared(c, e) ==
  IF SurelySpent(c, e) THEN {TRUE} ELSE IF PerhapsSpent(c, e) THEN BOOLEAN ELSE {FALSE}

\* Faulty: a clawback takes all of it.
ClawsAll(c, n) == n

\* A clawback takes no more than the member still holds.
Clawable(c, n) == Min({n, Max({c.balance, 0})})

\* loyalty_reverse: what is left of row i is undone, up to `want`.
Reverse(c, i, want, spared) ==
  LET left   == Size(c.rows[i].points) - Undone(c, i)
      most   == Min({want, left})
      amount == IF c.rows[i].points < 0 \/ Owes THEN most
                ELSE IF c.rows[i].kind = "earn" /\ spared THEN 0
                ELSE Clawable(c, most)
  IN IF amount <= 0 THEN c
     ELSE Post(c, [kind |-> "undo", of |-> c.rows[i].of, undoes |-> i, since |-> 0,
                   points |-> IF c.rows[i].points < 0 THEN amount ELSE -amount])

ReverseAll(c, S, want, spared) ==
  IF S = {} THEN c ELSE Reverse(c, CHOOSE i \in S : TRUE, want, spared)

Earned(c, o) == Written(c, "earn", o)
Spent(c, o)  == Written(c, "redeem", o)

-----------------------------------------------------------------------------
(* A sale and its reward.                                                  *)

\* The balance is read outside any lock.  A live sale that cannot pay is refused here; the
\* replay of one that happened offline goes on, and remembers why.
Plan(o, replay) ==
  /\ sale[o] = "none" /\ Cost[o] > 0
  /\ balance >= Cost[o] \/ replay
  /\ sale' = [sale EXCEPT ![o] = "planned"]
  /\ judged' = [judged EXCEPT ![o] =
                   [afford |-> balance >= Cost[o], replay |-> replay, since |-> Len(rows)]]
  /\ UNCHANGED <<card, back, press, visit>>

\* Faulty: what the plan read is believed.
PlannedFor(o) == judged[o].afford

\* The member's row is locked and the balance read again.
PaysFor(o) == judged[o].afford /\ balance >= Cost[o]

PlaceWithReward(o) ==
  /\ sale[o] = "planned" /\ PaysFor(o) /\ Covers(Now, -Cost[o])
  /\ Commit(Post(Now, Row("redeem", o, -Cost[o], judged[o].since)))
  /\ sale' = [sale EXCEPT ![o] = "placed"]
  /\ judged' = [judged EXCEPT ![o] = Unjudged]
  /\ UNCHANGED <<back, press, visit>>

\* A replayed sale keeps its cover and moves no points.
PlaceRefused(o) ==
  /\ sale[o] = "planned" /\ ~PaysFor(o) /\ judged[o].replay
  /\ sale' = [sale EXCEPT ![o] = "placed"]
  /\ judged' = [judged EXCEPT ![o] = Unjudged]
  /\ UNCHANGED <<card, back, press, visit>>

\* A live sale that lost the race is refused, and so is any whose row the trigger refuses.
Refuse(o) ==
  /\ sale[o] = "planned"
  /\ IF PaysFor(o) THEN ~Covers(Now, -Cost[o]) ELSE ~judged[o].replay
  /\ sale' = [sale EXCEPT ![o] = "none"]
  /\ judged' = [judged EXCEPT ![o] = Unjudged]
  /\ UNCHANGED <<card, back, press, visit>>

PlacePlain(o) ==
  /\ sale[o] = "none" /\ Cost[o] = 0
  /\ sale' = [sale EXCEPT ![o] = "placed"]
  /\ UNCHANGED <<card, judged, back, press, visit>>

\* A void undoes the reward first: that leaves more to claw the earn back from.
Void(o) ==
  /\ sale[o] = "placed" /\ back[o].money = 0
  /\ sale' = [sale EXCEPT ![o] = "voided"]
  /\ LET c == ReverseAll(Now, Spent(Now, o), Cost[o], FALSE)
     IN \E spared \in BOOLEAN :
          /\ \A e \in Earned(c, o) : spared \in Spared(c, e)
          /\ Earned(c, o) = {} => ~spared
          /\ Commit(ReverseAll(c, Earned(c, o), Worth[o], spared))
  /\ UNCHANGED <<judged, back, press, visit>>

\* Faulty: a unit returned for money is never the reward's.
ReturnedFree(o, b) == Min({b.free, Units[o]})

\* The units of the reward that are back: the paid ones come back first.
Returned(o, b) ==
  LET over == Max({b.paid - (Quantity[o] - Units[o]), 0})
  IN Min({b.free + over, Units[o]})

\* What a refund gives back of the reward: in proportion to its units when it names the
\* line, and all of it when it names no line and completes the sale.
GivenBack(o, named, b) ==
  IF named THEN (Cost[o] * Returned(o, b)) \div Units[o]
  ELSE IF b.money = Total[o] THEN Cost[o] ELSE 0

\* The earn follows the money back out, in proportion.
FollowMoney(c, o, b, spared) ==
  LET share(e) == (c.rows[e].points * b.money) \div Total[o]
  IN IF \E e \in Earned(c, o) : share(e) > Undone(c, e)
     THEN LET e == CHOOSE e \in Earned(c, o) : TRUE
          IN Reverse(c, e, share(e) - Undone(c, e), spared)
     ELSE c

\* The reward's reversal is topped up to what is now due, when the refund names its line
\* or no line.
RestoreOnRefund(c, o, named, units, b) ==
  LET due(i) == GivenBack(o, named, b) - Undone(c, i)
  IN IF \E i \in Spent(c, o) : due(i) > 0 /\ (named => units > 0)
     THEN LET i == CHOOSE i \in Spent(c, o) : TRUE
          IN Reverse(c, i, due(i), FALSE)
     ELSE c

\* Money back, for units of the rewarded line that were paid or were free, for other
\* lines, or for no line at all.
Refund(o, money, paid, free, named) ==
  LET b == [money |-> back[o].money + money, paid |-> back[o].paid + paid,
            free |-> back[o].free + free]
  IN /\ sale[o] = "placed"
     /\ b.money <= Total[o] /\ b.paid + b.free <= Quantity[o]
     /\ (paid + free > 0) => (named /\ Cost[o] > 0)
     /\ back' = [back EXCEPT ![o] = b]
     /\ \E spared \in BOOLEAN :
          /\ \A e \in Earned(Now, o) : spared \in Spared(Now, e)
          /\ Earned(Now, o) = {} => ~spared
          /\ Commit(RestoreOnRefund(FollowMoney(Now, o, b, spared), o, named, paid + free, b))
     /\ UNCHANGED <<sale, judged, press, visit>>

-----------------------------------------------------------------------------
(* Points for a sale, an explicit act within its window.                   *)

Idle == [of |-> None, since |-> 0]

\* The sale is read before the transaction.
Press(p, o) ==
  /\ press[p] = Idle /\ sale[o] = "placed"
  /\ press' = [press EXCEPT ![p] = [of |-> o, since |-> Len(rows)]]
  /\ UNCHANGED <<card, sale, judged, back, visit>>

\* Under the row lock, an earn is trimmed to the room the card has left.
Trimmed(points) == Min({points, Max({Cap - balance, 0})})

Award(p) ==
  LET o == press[p].of
      points == Trimmed(Worth[o])
  IN /\ press[p] # Idle
     /\ IF points > 0 /\ Earned(Now, o) = {}
        THEN Commit(Post(Now, Row("earn", o, points, press[p].since)))
        ELSE UNCHANGED card
     /\ press' = [press EXCEPT ![p] = Idle]
     /\ UNCHANGED <<sale, judged, back, visit>>

-----------------------------------------------------------------------------
(* The counter: stamps and completed cards with no sale, by idempotency    *)
(* key; and corrections by hand.                                           *)

\* A key already used for the same act finds its row, and for another is refused.
Prior(v, act) == act # "adjust" /\ Written(Now, act, Key[v]) # {}
Reused(v, act) ==
  act # "adjust" /\ \E other \in {"earn", "redeem"} \ {act} : Written(Now, other, Key[v]) # {}

\* The key, or for a correction the balance, is looked at before the transaction.
Ask(v, act) ==
  /\ visit[v].at = "new" /\ act \in Acts[v]
  /\ visit' = [visit EXCEPT ![v] =
       [act |-> act,
        at |-> IF Prior(v, act) THEN "done"
               ELSE IF Reused(v, act) \/ (act = "adjust" /\ ~Covers(Now, Correction)) THEN "refused"
               ELSE "asked",
        since |-> IF act = "redeem" THEN Len(rows) ELSE 0]]
  /\ UNCHANGED <<card, sale, judged, back, press>>

\* What the visit would write, and nothing when the card has no room or is not full.
Movement(act) ==
  CASE act = "earn"   -> Trimmed(Stamps)
    [] act = "redeem" -> IF balance >= CardSize THEN -CardSize ELSE 0
    [] act = "adjust" -> IF Covers(Now, Correction) THEN Correction ELSE 0

\* A key is written once: another try that gets this far moves nothing.
Serve(v) ==
  LET act == visit[v].act
      n   == Movement(act)
      new == n # 0 /\ ~Prior(v, act) /\ ~Reused(v, act)
      how == IF new \/ (Prior(v, act) /\ (n # 0 \/ act = "earn")) THEN "done" ELSE "refused"
  IN /\ visit[v].at = "asked"
     /\ IF new
        THEN Commit(Post(Now, Row(act, IF act = "adjust" THEN None ELSE Key[v], n, visit[v].since)))
        ELSE UNCHANGED card
     /\ visit' = [visit EXCEPT ![v] = [act |-> act, at |-> how, since |-> 0]]
     /\ UNCHANGED <<sale, judged, back, press>>

-----------------------------------------------------------------------------
Init ==
  /\ rows = <<Row("adjust", None, Gift, 0)>> /\ balance = Gift
  /\ sale = [o \in Orders |-> "none"]
  /\ judged = [o \in Orders |-> Unjudged]
  /\ back = [o \in Orders |-> [money |-> 0, paid |-> 0, free |-> 0]]
  /\ press = [p \in Presses |-> Idle]
  /\ visit = [v \in Visits |-> [act |-> "adjust", at |-> "new", since |-> 0]]

Sell(o) ==
  \/ \E replay \in BOOLEAN : Plan(o, replay)
  \/ PlaceWithReward(o)
  \/ PlaceRefused(o)
  \/ Refuse(o)
  \/ PlacePlain(o)

Refunds(o) ==
  \E money \in 1 .. Total[o], paid, free \in 0 .. Quantity[o], named \in BOOLEAN :
    Refund(o, money, paid, free, named)

Next ==
  \/ \E o \in Orders : Sell(o) \/ Void(o) \/ Refunds(o)
  \/ \E p \in Presses : Award(p) \/ \E o \in Orders : Press(p, o)
  \/ \E v \in Visits : Serve(v) \/ \E act \in Acts[v] : Ask(v, act)

Spec == Init /\ [][Next]_vars

-----------------------------------------------------------------------------
(* Properties.                                                             *)

LedgerTotal == AddUp([i \in DOMAIN rows |-> rows[i].points])

\* The balance is the ledger's, and a shop that clamps never takes it below zero.
TypeOK ==
  /\ \A i \in DOMAIN rows :
       /\ rows[i].kind \in Kinds /\ rows[i].points \in Int \ {0}
       /\ rows[i].undoes \in 0 .. i - 1 /\ rows[i].since \in 0 .. i - 1
       /\ (rows[i].kind = "undo") = (rows[i].undoes # 0)
  /\ balance = LedgerTotal
  /\ balance >= 0 \/ Owes
  /\ sale \in [Orders -> {"none", "planned", "placed", "voided"}]
  /\ judged \in [Orders -> [afford : BOOLEAN, replay : BOOLEAN, since : 0 .. Len(rows)]]
  /\ \A o \in Orders : back[o].money \in 0 .. Total[o] /\ back[o].paid + back[o].free \in 0 .. Quantity[o]
  /\ press \in [Presses -> [of : Orders \cup {None}, since : 0 .. Len(rows)]]
  /\ visit \in [Visits -> [act : Kinds, at : {"new", "asked", "done", "refused"}, since : 0 .. Len(rows)]]

\* A replayed sale lands, whatever became of the points it counted on: its goods are gone
\* and its money is in the drawer.
SaleSurvivesReward ==
  [][\A o \in Orders : sale[o] = "planned" /\ judged[o].replay => sale'[o] # "none"]_vars

\* Points spent on a reward come back exactly once when the sale is voided or all the
\* line's units are returned, however partial refunds add up to that.
RewardComesBack ==
  \A o \in Orders : \A i \in Spent(Now, o) :
    /\ Undone(Now, i) <= Cost[o]
    /\ (sale[o] = "voided" \/ back[o].paid + back[o].free = Quantity[o]) => Undone(Now, i) = Cost[o]

\* What award.rs says of a voided sale: it earns no points.
VoidedEarnsNothing ==
  [][\A o \in Orders : sale[o] = "voided" =>
       \A i \in DOMAIN rows' \ DOMAIN rows : ~(rows'[i].kind = "earn" /\ rows'[i].of = o)]_vars
=============================================================================
