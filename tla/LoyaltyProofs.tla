--------------------------- MODULE LoyaltyProofs ---------------------------
(***************************************************************************)
(* What is proved of a member's card for every shop: whatever sales,       *)
(* refunds, voids and visits do to it, in whatever order, the balance is   *)
(* what the ledger adds up to and no row is undone twice over; so points   *)
(* spent on a reward come back once, and all of them.                      *)
(***************************************************************************)
EXTENDS Loyalty, SequenceTheorems, WellFoundedInduction, TLAPS

-----------------------------------------------------------------------------
(***************************************************************************)
(* Adding up.  AddUp is a recursive function of the sequence it adds up,   *)
(* so what it computes is proved by induction on how far it has got.  The  *)
(* principle comes from the order on the naturals being well-founded, by   *)
(* way of the least element of a set: the set of counterexamples has none. *)
(***************************************************************************)

LEMMA LeastNat ==
  ASSUME NEW T, T \subseteq Nat, T # {}
  PROVE  \E x \in T : \A y \in T : x <= y
<1>1. PICK x \in T : \A y \in T : ~ (<<y, x>> \in OpToRel(<, Nat))
  <2>. DEFINE R == OpToRel(<, Nat)
  <2>1. IsWellFoundedOn(R, Nat)
    BY NatLessThanWellFounded
  <2>. HIDE DEF R
  <2>2. \E x \in T : \A y \in T : ~ (<<y, x>> \in R)
    BY <2>1, WFMin, Zenon
  <2>. QED BY <2>2 DEF R
<1>2. \A y \in T : ~(y < x)
  BY <1>1 DEF OpToRel
<1>. QED BY <1>2

\* A set that holds 0, and with each number below m the next, holds all of 0 .. m.
LEMMA Induction ==
  ASSUME NEW S, NEW m \in Nat, 0 \in S, \A n \in 0 .. m - 1 : n \in S => n + 1 \in S
  PROVE  \A n \in 0 .. m : n \in S
<1>. DEFINE T == {n \in 0 .. m : n \notin S}
<1>. SUFFICES ASSUME T # {} PROVE FALSE
  OBVIOUS
<1>0. T \subseteq Nat
  OBVIOUS
<1>1. PICK x \in T : \A y \in T : x <= y
  <2>. HIDE DEF T
  <2>. QED BY <1>0, LeastNat
<1>2. x \in 0 .. m /\ x # 0
  OBVIOUS
<1>3. x - 1 \in 0 .. m - 1 /\ x - 1 \notin T
  BY <1>1, <1>2
<1>4. x - 1 \in S /\ (x - 1) + 1 = x
  BY <1>2, <1>3
<1>. QED BY <1>3, <1>4

\* f tells of each n what the first n of the numbers add up to.
Sums(ns, f) == f = [n \in 0 .. Len(ns) |-> IF n = 0 THEN 0 ELSE f[n - 1] + ns[n]]

LEMMA SumsFacts ==
  ASSUME NEW ns \in Seq(Int), NEW f
  PROVE  Sums(ns, f) <=>
           /\ f \in [0 .. Len(ns) -> Int] /\ f[0] = 0
           /\ \A n \in 1 .. Len(ns) : f[n] = f[n - 1] + ns[n]
<1>0. Len(ns) \in Nat /\ \A n \in 1 .. Len(ns) : ns[n] \in Int
  OBVIOUS
<1>2. ASSUME Sums(ns, f)
      PROVE  /\ f = [n \in 0 .. Len(ns) |-> f[n]] /\ f[0] = 0
             /\ \A n \in 1 .. Len(ns) : f[n] = f[n - 1] + ns[n]
  <2>. DEFINE g == [n \in 0 .. Len(ns) |-> IF n = 0 THEN 0 ELSE f[n - 1] + ns[n]]
  <2>1. f = g
    BY <1>2 DEF Sums
  <2>2. /\ g = [n \in 0 .. Len(ns) |-> g[n]] /\ g[0] = 0
        /\ \A n \in 1 .. Len(ns) : g[n] = f[n - 1] + ns[n]
    BY <1>0
  <2>. HIDE DEF g
  <2>. QED BY <2>1, <2>2
<1>1. ASSUME Sums(ns, f) PROVE f \in [0 .. Len(ns) -> Int]
  <2>. DEFINE S == {n \in 0 .. Len(ns) : f[n] \in Int}
  <2>1. 0 \in S
    BY <1>0, <1>1, <1>2
  <2>2. ASSUME NEW n \in 0 .. Len(ns) - 1, n \in S PROVE n + 1 \in S
    <3>1. n + 1 \in 1 .. Len(ns) /\ (n + 1) - 1 = n
      BY <1>0
    <3>2. f[n + 1] = f[n] + ns[n + 1]
      BY <1>1, <1>2, <3>1
    <3>. QED BY <1>0, <2>2, <3>1, <3>2
  <2>3. \A n \in 0 .. Len(ns) : n \in S
    <3>. HIDE DEF S
    <3>. QED BY <1>0, <2>1, <2>2, Induction
  <2>. QED BY <1>1, <1>2, <2>3
<1>3. ASSUME f \in [0 .. Len(ns) -> Int], f[0] = 0, \A n \in 1 .. Len(ns) : f[n] = f[n - 1] + ns[n]
      PROVE Sums(ns, f)
  BY <1>3 DEF Sums
<1>. QED BY <1>1, <1>2, <1>3

LEMMA SumsUnique ==
  ASSUME NEW ns \in Seq(Int), NEW f, NEW g, Sums(ns, f), Sums(ns, g)
  PROVE  f = g
<1>. DEFINE S == {n \in 0 .. Len(ns) : f[n] = g[n]}
<1>0. Len(ns) \in Nat
  OBVIOUS
<1>1. 0 \in S
  BY SumsFacts
<1>2. ASSUME NEW n \in 0 .. Len(ns) - 1, n \in S PROVE n + 1 \in S
  BY <1>2, SumsFacts
<1>3. \A n \in 0 .. Len(ns) : n \in S
  <2>. HIDE DEF S
  <2>. QED BY <1>0, <1>1, <1>2, Induction
<1>. QED BY <1>3, SumsFacts

LEMMA AddUpIs ==
  ASSUME NEW ns \in Seq(Int), NEW f, Sums(ns, f)
  PROVE  AddUp(ns) = f[Len(ns)]
<1>. DEFINE g == CHOOSE upto : Sums(ns, upto)
<1>1. Sums(ns, g)
  OBVIOUS
<1>2. g = f
  BY <1>1, SumsUnique
<1>3. AddUp(ns) = g[Len(ns)]
  BY DEF AddUp, Sums
<1>. QED BY <1>2, <1>3

LEMMA SumsEmpty == Sums(<<>>, [n \in {0} |-> 0])
BY DEF Sums

LEMMA SumsAppend ==
  ASSUME NEW ns \in Seq(Int), NEW x \in Int, NEW f, Sums(ns, f)
  PROVE  Sums(Append(ns, x), [n \in 0 .. Len(ns) + 1 |->
              IF n = Len(ns) + 1 THEN f[Len(ns)] + x ELSE f[n]])
<1>. DEFINE ms == Append(ns, x)
<1>. DEFINE g == [n \in 0 .. Len(ns) + 1 |-> IF n = Len(ns) + 1 THEN f[Len(ns)] + x ELSE f[n]]
<1>1. /\ ms \in Seq(Int) /\ Len(ms) = Len(ns) + 1 /\ ms[Len(ns) + 1] = x
      /\ \A n \in 1 .. Len(ns) : ms[n] = ns[n]
      /\ Len(ns) \in Nat
  OBVIOUS
<1>2. /\ f \in [0 .. Len(ns) -> Int] /\ f[0] = 0
      /\ \A n \in 1 .. Len(ns) : f[n] = f[n - 1] + ns[n]
  BY SumsFacts
<1>3. g \in [0 .. Len(ns) + 1 -> Int] /\ g[0] = 0
  BY <1>1, <1>2
<1>4. ASSUME NEW n \in 1 .. Len(ns) + 1 PROVE g[n] = g[n - 1] + ms[n]
  <2>. HIDE DEF ms
  <2>1. CASE n = Len(ns) + 1
    BY <1>1, <2>1
  <2>2. CASE n \in 1 .. Len(ns)
    <3>1. f[n] = f[n - 1] + ns[n] /\ ms[n] = ns[n]
      BY <1>1, <1>2, <2>2
    <3>2. g[n] = f[n] /\ g[n - 1] = f[n - 1]
      BY <1>1, <2>2
    <3>. QED BY <3>1, <3>2
  <2>. QED BY <1>1, <2>1, <2>2
<1>. HIDE DEF g, ms
<1>5. Sums(ms, g)
  BY <1>1, <1>3, <1>4, SumsFacts
<1>. QED BY <1>5 DEF g, ms

LEMMA SumsExist ==
  ASSUME NEW ns \in Seq(Int)
  PROVE  \E f : Sums(ns, f)
<1>. DEFINE Upto(m) == SubSeq(ns, 1, m)
<1>. DEFINE S == {m \in 0 .. Len(ns) : \E f : Sums(Upto(m), f)}
<1>1. \A m \in 0 .. Len(ns) : /\ Upto(m) \in Seq(Int) /\ Len(Upto(m)) = m
                              /\ \A i \in 1 .. m : Upto(m)[i] = ns[i]
  BY SubSeqProperties
<1>0. Len(ns) \in Nat
  OBVIOUS
<1>2. 0 \in S
  <2>1. Upto(0) = <<>>
    BY <1>0, <1>1
  <2>2. \E f : Sums(Upto(0), f)
    BY <2>1, SumsEmpty, Zenon
  <2>. QED BY <1>0, <2>2
<1>3. ASSUME NEW m \in 0 .. Len(ns) - 1, m \in S PROVE m + 1 \in S
  <2>1. PICK g : Sums(Upto(m), g)
    BY <1>3
  <2>2. Upto(m + 1) = Append(Upto(m), ns[m + 1])
    BY <1>1
  <2>3. \E f : Sums(Upto(m + 1), f)
    <3>1. Upto(m) \in Seq(Int) /\ ns[m + 1] \in Int
      BY <1>0, <1>1
    <3>. HIDE DEF Upto
    <3>. QED BY <2>1, <2>2, <3>1, SumsAppend, Zenon
  <2>4. m + 1 \in 0 .. Len(ns)
    BY <1>0
  <2>. QED BY <2>3, <2>4, Zenon
<1>4. \A m \in 0 .. Len(ns) : m \in S
  <2>. HIDE DEF S
  <2>. QED BY <1>0, <1>2, <1>3, Induction
<1>5. Upto(Len(ns)) = ns
  BY <1>1
<1>6. Len(ns) \in S
  BY <1>0, <1>4
<1>7. \E f : Sums(Upto(Len(ns)), f)
  BY <1>6, Zenon
<1>. QED BY <1>5, <1>7, Zenon

\* A number more adds itself.
LEMMA AddUpAppend ==
  ASSUME NEW ns \in Seq(Int), NEW x \in Int
  PROVE  /\ AddUp(ns) \in Int
         /\ AddUp(Append(ns, x)) = AddUp(ns) + x
<1>1. PICK f : Sums(ns, f)
  BY SumsExist
<1>2. AddUp(ns) = f[Len(ns)] /\ f[Len(ns)] \in Int
  BY <1>1, AddUpIs, SumsFacts
<1>3. AddUp(Append(ns, x)) = f[Len(ns)] + x
  <2>. DEFINE g == [n \in 0 .. Len(ns) + 1 |-> IF n = Len(ns) + 1 THEN f[Len(ns)] + x ELSE f[n]]
  <2>1. Sums(Append(ns, x), g)
    BY <1>1, SumsAppend
  <2>2. g[Len(Append(ns, x))] = f[Len(ns)] + x
    OBVIOUS
  <2>3. Append(ns, x) \in Seq(Int)
    OBVIOUS
  <2>. HIDE DEF g
  <2>. QED BY <2>1, <2>2, <2>3, AddUpIs
<1>. QED BY <1>2, <1>3

\* Nothings add up to nothing.
LEMMA AddUpNone ==
  ASSUME NEW ns \in Seq(Int), \A n \in 1 .. Len(ns) : ns[n] = 0
  PROVE  AddUp(ns) = 0
<1>1. Sums(ns, [n \in 0 .. Len(ns) |-> 0])
  BY SumsFacts
<1>. QED BY <1>1, AddUpIs

-----------------------------------------------------------------------------
(* The card.  Sound is the invariant of the ledger by itself: it is stated *)
(* of any card, so that a transaction of several movements can be taken    *)
(* one movement at a time.                                                 *)

Accounts == Orders \cup {None} \cup {Key[v] : v \in Visits}

RowType ==
  [kind : Kinds, of : Accounts, points : Int, undoes : Nat, since : Nat]

Cards == [rows : Seq(RowType), balance : Int]

WellWritten(row, n) ==
  /\ row.points # 0
  /\ row.undoes \in 0 .. n - 1 /\ row.since \in 0 .. n - 1
  /\ (row.kind = "undo") = (row.undoes # 0)

Points(c)       == [i \in DOMAIN c.rows |-> c.rows[i].points]
UndoneBy(c, i)  == [j \in DOMAIN c.rows |-> IF c.rows[j].undoes = i THEN Size(c.rows[j].points) ELSE 0]

Sound(c) ==
  /\ c \in Cards
  /\ \A i \in 1 .. Len(c.rows) : WellWritten(c.rows[i], i)
  /\ c.balance = AddUp(Points(c))
  /\ c.balance >= 0 \/ Owes
  /\ \A i \in 1 .. Len(c.rows) : Undone(c, i) \in 0 .. Size(c.rows[i].points)

\* Card d is card c with rows appended to its ledger.
Longer(c, d) ==
  /\ Len(c.rows) <= Len(d.rows)
  /\ \A j \in 1 .. Len(c.rows) : d.rows[j] = c.rows[j]

LEMMA SizeFacts ==
  ASSUME NEW n \in Int
  PROVE  /\ Size(n) \in Nat
         /\ n # 0 => Size(n) > 0
         /\ n >= 0 => Size(n) = n
         /\ n <= 0 => Size(n) = -n
BY DEF Size

LEMMA MinMax ==
  ASSUME NEW a \in Int, NEW b \in Int
  PROVE  /\ Min({a, b}) = IF a <= b THEN a ELSE b
         /\ Max({a, b}) = IF a <= b THEN b ELSE a
<1>1. Min({a, b}) \in {a, b} /\ \A y \in {a, b} : Min({a, b}) <= y
  <2>1. \E x \in {a, b} : \A y \in {a, b} : x <= y
    <3>1. a <= b \/ b <= a
      OBVIOUS
    <3>. QED BY <3>1
  <2>. QED BY <2>1 DEF Min
<1>2. Max({a, b}) \in {a, b} /\ \A y \in {a, b} : y <= Max({a, b})
  <2>1. \E x \in {a, b} : \A y \in {a, b} : x >= y
    <3>1. a <= b \/ b <= a
      OBVIOUS
    <3>. QED BY <3>1
  <2>. QED BY <2>1 DEF Max
<1>. QED BY <1>1, <1>2

LEMMA MaxZero ==
  ASSUME NEW a \in Int
  PROVE  /\ Max({a, 0}) \in Int
         /\ Max({a, 0}) = IF a <= 0 THEN 0 ELSE a
<1>1. 0 \in Int
  OBVIOUS
<1>2. Max({a, 0}) = IF a <= 0 THEN 0 ELSE a
  BY <1>1, MinMax, Zenon
<1>. QED BY <1>2

\* A row more adds its points to the balance and to the ledger's total.
LEMMA PostCard ==
  ASSUME NEW c \in Cards, NEW row \in RowType, NEW d, d = Post(c, row)
  PROVE  /\ d \in Cards
         /\ Len(d.rows) = Len(c.rows) + 1 /\ d.rows[Len(c.rows) + 1] = row
         /\ Longer(c, d)
         /\ d.balance = c.balance + row.points
         /\ AddUp(Points(d)) = AddUp(Points(c)) + row.points
<1>1. /\ d.rows = Append(c.rows, row) /\ d.balance = c.balance + row.points
      /\ c.rows \in Seq(RowType) /\ c.balance \in Int /\ row.points \in Int
      /\ d = [rows |-> Append(c.rows, row), balance |-> c.balance + row.points]
  BY DEF Post, Cards, RowType
<1>2. /\ d.rows \in Seq(RowType) /\ Len(d.rows) = Len(c.rows) + 1
      /\ d.rows[Len(c.rows) + 1] = row
      /\ \A j \in 1 .. Len(c.rows) : d.rows[j] = c.rows[j]
      /\ Len(c.rows) \in Nat
      /\ DOMAIN d.rows = 1 .. Len(c.rows) + 1 /\ DOMAIN c.rows = 1 .. Len(c.rows)
  BY <1>1
<1>3. Points(c) \in Seq(Int) /\ Len(Points(c)) = Len(c.rows)
  <2>1. \A j \in 1 .. Len(c.rows) : c.rows[j] \in RowType
    BY <1>1
  <2>2. \A j \in 1 .. Len(c.rows) : c.rows[j].points \in Int
    BY <2>1 DEF RowType
  <2>. QED BY <1>2, <2>2 DEF Points
<1>4. Points(d) = Append(Points(c), row.points)
  BY <1>2, <1>3 DEF Points
<1>5. AddUp(Points(d)) = AddUp(Points(c)) + row.points
  BY <1>1, <1>3, <1>4, AddUpAppend
<1>6. d \in Cards
  BY <1>1, <1>2 DEF Cards
<1>7. Longer(c, d)
  BY <1>2 DEF Longer
<1>. QED BY <1>1, <1>2, <1>5, <1>6, <1>7

\* It adds its size to what is undone of the row it undoes, and nothing to any other's.
LEMMA PostUndone ==
  ASSUME NEW c \in Cards, NEW row \in RowType, NEW d, d = Post(c, row), NEW i \in Nat
  PROVE  /\ Undone(d, i) = Undone(c, i) + (IF row.undoes = i THEN Size(row.points) ELSE 0)
         /\ Undone(c, i) \in Int
<1>. DEFINE rest == IF row.undoes = i THEN Size(row.points) ELSE 0
<1>1. /\ d.rows = Append(c.rows, row) /\ c.rows \in Seq(RowType) /\ row.points \in Int
  BY DEF Post, Cards, RowType
<1>2. /\ Len(d.rows) = Len(c.rows) + 1 /\ d.rows[Len(c.rows) + 1] = row
      /\ \A j \in 1 .. Len(c.rows) : d.rows[j] = c.rows[j]
      /\ Len(c.rows) \in Nat
      /\ DOMAIN d.rows = 1 .. Len(c.rows) + 1 /\ DOMAIN c.rows = 1 .. Len(c.rows)
  BY <1>1
<1>3. UndoneBy(c, i) \in Seq(Int) /\ Len(UndoneBy(c, i)) = Len(c.rows) /\ rest \in Int
  <2>1. \A j \in 1 .. Len(c.rows) : c.rows[j] \in RowType
    BY <1>1
  <2>2. \A j \in 1 .. Len(c.rows) : Size(c.rows[j].points) \in Int
    BY <2>1, SizeFacts DEF RowType
  <2>3. rest \in Int
    BY <1>1, SizeFacts
  <2>. QED BY <1>2, <2>2, <2>3 DEF UndoneBy
<1>4. UndoneBy(d, i) = Append(UndoneBy(c, i), rest)
  BY <1>2, <1>3 DEF UndoneBy
<1>5. AddUp(UndoneBy(d, i)) = AddUp(UndoneBy(c, i)) + rest /\ AddUp(UndoneBy(c, i)) \in Int
  <2>. HIDE DEF rest
  <2>. QED BY <1>3, <1>4, AddUpAppend
<1>. QED BY <1>5 DEF Undone, UndoneBy

\* Nothing has been undone of a row that is not there yet.
LEMMA NotYetUndone ==
  ASSUME NEW c, Sound(c), NEW i \in Nat, i > Len(c.rows)
  PROVE  Undone(c, i) = 0
<1>1. c.rows \in Seq(RowType) /\ DOMAIN c.rows = 1 .. Len(c.rows) /\ Len(c.rows) \in Nat
  BY DEF Sound, Cards
<1>2. ASSUME NEW j \in 1 .. Len(c.rows) PROVE c.rows[j].undoes # i
  <2>1. c.rows[j].undoes \in 0 .. j - 1
    BY DEF Sound, WellWritten
  <2>. QED BY <1>1, <2>1
<1>3. UndoneBy(c, i) = [j \in 1 .. Len(c.rows) |-> 0]
  BY <1>1, <1>2 DEF UndoneBy
<1>4. AddUp(UndoneBy(c, i)) = 0
  BY <1>1, <1>3, AddUpNone
<1>. QED BY <1>4 DEF Undone, UndoneBy

\* A row that undoes no other, and what the trigger lets through.
LEMMA PostSound ==
  ASSUME NEW c, Sound(c), NEW row \in RowType,
         row.points # 0, row.undoes = 0, row.kind # "undo", row.since \in 0 .. Len(c.rows),
         c.balance + row.points >= 0 \/ Owes
  PROVE  /\ Sound(Post(c, row))
         /\ Longer(c, Post(c, row)) /\ Len(Post(c, row).rows) = Len(c.rows) + 1
         /\ Post(c, row).rows[Len(c.rows) + 1] = row
         /\ \A i \in 1 .. Len(c.rows) : Undone(Post(c, row), i) = Undone(c, i)
<1>. DEFINE n == Len(c.rows)
<1>0. PICK d : d = Post(c, row)
  OBVIOUS
<1>1. c \in Cards /\ n \in Nat /\ c.balance \in Int /\ row.points \in Int
  BY DEF Sound, Cards, RowType
<1>2. /\ d \in Cards /\ Len(d.rows) = n + 1 /\ d.rows[n + 1] = row /\ Longer(c, d)
      /\ d.balance = AddUp(Points(d)) /\ d.balance = c.balance + row.points
  BY <1>0, <1>1, PostCard DEF Sound
<1>3. ASSUME NEW i \in 1 .. n + 1 PROVE Undone(d, i) = Undone(c, i)
  <2>1. i \in Nat /\ row.undoes # i
    BY <1>1
  <2>2. /\ Undone(d, i) = Undone(c, i) + (IF row.undoes = i THEN Size(row.points) ELSE 0)
        /\ Undone(c, i) \in Int
    BY <1>0, <1>1, <2>1, PostUndone
  <2>. QED BY <2>1, <2>2
<1>4. ASSUME NEW i \in 1 .. n + 1
      PROVE  WellWritten(d.rows[i], i) /\ Undone(d, i) \in 0 .. Size(d.rows[i].points)
  <2>1. CASE i = n + 1
    <3>1. Undone(c, i) = 0
      BY <1>1, <2>1, NotYetUndone
    <3>2. Size(row.points) \in Nat
      BY <1>1, SizeFacts
    <3>. HIDE DEF n
    <3>. QED BY <1>1, <1>2, <1>3, <2>1, <3>1, <3>2 DEF WellWritten, n
  <2>2. CASE i \in 1 .. n
    BY <1>2, <1>3, <2>2 DEF Sound, Longer
  <2>. QED BY <1>1, <2>1, <2>2
<1>5. Sound(d)
  BY <1>1, <1>2, <1>4 DEF Sound
<1>. QED BY <1>0, <1>1, <1>2, <1>3, <1>5

\* Undoing part of row i leaves every other row's total alone, and takes of this one what
\* was asked for, or what is left of it; only a clawback may take less.
LEMMA ReverseFacts ==
  ASSUME NEW c, Sound(c), NEW i \in 1 .. Len(c.rows), NEW want \in Int, NEW spared \in BOOLEAN
  PROVE  /\ Sound(Reverse(c, i, want, spared))
         /\ Longer(c, Reverse(c, i, want, spared))
         /\ \A j \in 1 .. Len(Reverse(c, i, want, spared).rows) :
              j > Len(c.rows) => Reverse(c, i, want, spared).rows[j].kind = "undo"
         /\ \A j \in 1 .. Len(c.rows) :
              j # i => Undone(Reverse(c, i, want, spared), j) = Undone(c, j)
         /\ Undone(Reverse(c, i, want, spared), i) >= Undone(c, i)
         /\ c.rows[i].points < 0 /\ want > 0 =>
              Undone(Reverse(c, i, want, spared), i) =
                IF Undone(c, i) + want <= Size(c.rows[i].points)
                THEN Undone(c, i) + want ELSE Size(c.rows[i].points)
<1>. DEFINE left == Size(c.rows[i].points) - Undone(c, i)
<1>. DEFINE most == Min({want, left})
<1>. DEFINE amount == IF c.rows[i].points < 0 \/ Owes THEN most
                      ELSE IF c.rows[i].kind = "earn" /\ spared THEN 0
                      ELSE Clawable(c, most)
<1>. DEFINE row == [kind |-> "undo", of |-> c.rows[i].of, undoes |-> i, since |-> 0,
                    points |-> IF c.rows[i].points < 0 THEN amount ELSE -amount]
<1>. DEFINE d == Post(c, row)
<1>. DEFINE n == Len(c.rows)
<1>1. /\ c \in Cards /\ n \in Nat /\ c.balance \in Int /\ c.rows[i] \in RowType
      /\ c.rows[i].points \in Int /\ c.rows[i].of \in Accounts
      /\ Size(c.rows[i].points) \in Nat /\ Undone(c, i) \in 0 .. Size(c.rows[i].points)
      /\ i \in Nat /\ i > 0 /\ (c.balance >= 0 \/ Owes)
  <2>1. c \in Cards /\ c.rows \in Seq(RowType) /\ c.balance \in Int /\ n \in Nat
    BY DEF Sound, Cards
  <2>2. c.rows[i] \in RowType
    BY <2>1
  <2>3. c.rows[i].points \in Int /\ c.rows[i].of \in Accounts
    BY <2>2 DEF RowType
  <2>4. Size(c.rows[i].points) \in Nat
    BY <2>3, SizeFacts
  <2>5. Undone(c, i) \in 0 .. Size(c.rows[i].points) /\ (c.balance >= 0 \/ Owes)
    BY DEF Sound
  <2>. QED BY <2>1, <2>2, <2>3, <2>4, <2>5
<1>2. left \in Nat /\ most \in Int /\ most = IF want <= left THEN want ELSE left
  <2>1. left \in Nat
    BY <1>1
  <2>. HIDE DEF left
  <2>. QED BY <2>1, MinMax
<1>3. /\ amount \in Int /\ (amount > 0 => amount <= most)
      /\ c.rows[i].points < 0 => amount = most
      /\ c.rows[i].points < 0 \/ Owes \/ amount <= c.balance \/ amount <= 0
  <2>1. /\ Max({c.balance, 0}) \in Int
        /\ Max({c.balance, 0}) = IF c.balance <= 0 THEN 0 ELSE c.balance
    BY <1>1, MaxZero
  <2>2. Clawable(c, most) = IF most <= Max({c.balance, 0}) THEN most ELSE Max({c.balance, 0})
    <3>. HIDE DEF most
    <3>. QED BY <1>2, <2>1, MinMax DEF Clawable
  <2>. HIDE DEF most
  <2>3. CASE c.rows[i].points < 0 \/ Owes
    BY <1>2, <2>3
  <2>4. CASE ~(c.rows[i].points < 0 \/ Owes) /\ c.rows[i].kind = "earn" /\ spared
    <3>1. amount = 0 
      BY <2>4
    <3>. QED BY <3>1, <2>4
  <2>5. CASE ~(c.rows[i].points < 0 \/ Owes) /\ ~(c.rows[i].kind = "earn" /\ spared)
    BY <1>1, <1>2, <2>1, <2>2, <2>5
  <2>. QED BY <2>3, <2>4, <2>5
<1>4. Reverse(c, i, want, spared) = IF amount <= 0 THEN c ELSE d
  BY DEF Reverse
<1>. HIDE DEF amount, most, left
<1>5. CASE amount <= 0
  <2>1. Reverse(c, i, want, spared) = c
    BY <1>4, <1>5
  <2>2. c.rows[i].points < 0 /\ want > 0 => left <= 0
    BY <1>2, <1>3, <1>5
  <2>3. c.rows[i].points < 0 /\ want > 0 =>
          Undone(c, i) = IF Undone(c, i) + want <= Size(c.rows[i].points)
                         THEN Undone(c, i) + want ELSE Size(c.rows[i].points)
    BY <1>1, <2>2 DEF left
  <2>4. Undone(c, i) >= Undone(c, i)
    BY <1>1
  <2>. QED BY <2>1, <2>3, <2>4 DEF Longer
<1>6. CASE amount > 0
  <2>1. Reverse(c, i, want, spared) = d
    BY <1>3, <1>4, <1>6
  <2>2. /\ row \in RowType /\ row.undoes = i /\ row.kind = "undo" /\ row.since = 0
        /\ row.points # 0 /\ row.points \in Int
        /\ row.points = IF c.rows[i].points < 0 THEN amount ELSE -amount
    BY <1>1, <1>3, <1>6 DEF RowType, Kinds
  <2>3. Size(row.points) = amount
    BY <1>3, <1>6, <2>2, SizeFacts
  <2>. HIDE DEF row
  <2>0. d = Post(c, row)
    OBVIOUS
  <2>. HIDE DEF d
  <2>4. /\ d \in Cards /\ Len(d.rows) = n + 1 /\ d.rows[n + 1] = row /\ Longer(c, d)
        /\ d.balance = AddUp(Points(d)) /\ d.balance = c.balance + row.points
    <3>1. c \in Cards /\ row \in RowType /\ c.balance = AddUp(Points(c))
      BY <1>1, <2>2 DEF Sound
    <3>2. /\ d \in Cards /\ Len(d.rows) = n + 1 /\ d.rows[n + 1] = row /\ Longer(c, d)
          /\ d.balance = c.balance + row.points
          /\ AddUp(Points(d)) = AddUp(Points(c)) + row.points
      BY <2>0, <3>1, PostCard
    <3>. QED BY <3>1, <3>2, Zenon
  <2>5. ASSUME NEW j \in 1 .. n + 1
        PROVE  Undone(d, j) = Undone(c, j) + IF j = i THEN amount ELSE 0
    <3>1. c \in Cards /\ row \in RowType /\ j \in Nat
      BY <1>1, <2>2
    <3>2. Undone(d, j) = Undone(c, j) + IF row.undoes = j THEN Size(row.points) ELSE 0
      BY <2>0, <3>1, PostUndone
    <3>. QED BY <2>2, <2>3, <3>2
  <2>6. d.balance >= 0 \/ Owes
    BY <1>1, <1>3, <1>6, <2>2, <2>4
  <2>7. Undone(d, i) \in 0 .. Size(c.rows[i].points) /\ Undone(d, i) = Undone(c, i) + amount
    <3>1. Undone(d, i) = Undone(c, i) + amount
      BY <2>5
    <3>. QED BY <1>1, <1>2, <1>3, <1>6, <3>1 DEF left
  <2>8. ASSUME NEW j \in 1 .. n + 1
        PROVE  WellWritten(d.rows[j], j) /\ Undone(d, j) \in 0 .. Size(d.rows[j].points)
    <3>1. CASE j = n + 1
      <4>1. WellWritten(row, n + 1)
        BY <1>1, <2>2 DEF WellWritten
      <4>2. Undone(c, j) = 0 /\ j # i
        BY <1>1, <3>1, NotYetUndone
      <4>3. Undone(d, j) = 0 /\ Size(row.points) \in Nat
        BY <2>2, <2>5, <4>2, SizeFacts
      <4>. QED BY <2>4, <3>1, <4>1, <4>3
    <3>2. CASE j = i
      BY <2>4, <2>7, <3>2 DEF Sound, Longer
    <3>3. CASE j \in 1 .. n /\ j # i
      <4>1. Undone(c, j) \in 0 .. Size(c.rows[j].points) /\ WellWritten(c.rows[j], j)
        BY <3>3 DEF Sound
      <4>2. Undone(d, j) = Undone(c, j) /\ d.rows[j] = c.rows[j]
        BY <2>4, <2>5, <3>3, <4>1 DEF Longer
      <4>. QED BY <4>1, <4>2
    <3>. QED BY <1>1, <3>1, <3>2, <3>3
  <2>9. Sound(d)
    BY <2>4, <2>6, <2>8 DEF Sound
  <2>10. \A j \in 1 .. Len(d.rows) : j > n => d.rows[j].kind = "undo"
    BY <1>1, <2>2, <2>4
  <2>11. ASSUME NEW j \in 1 .. n, j # i PROVE Undone(d, j) = Undone(c, j)
    <3>1. Undone(c, j) \in 0 .. Size(c.rows[j].points)
      BY DEF Sound
    <3>. QED BY <1>1, <2>5, <2>11, <3>1
  <2>12. Undone(d, i) >= Undone(c, i)
    BY <1>1, <1>3, <1>6, <2>7
  <2>13. c.rows[i].points < 0 /\ want > 0 =>
           Undone(d, i) = IF Undone(c, i) + want <= Size(c.rows[i].points)
                          THEN Undone(c, i) + want ELSE Size(c.rows[i].points)
    BY <1>1, <1>2, <1>3, <2>7 DEF left
  <2>. QED BY <2>1, <2>4, <2>9, <2>10, <2>11, <2>12, <2>13
<1>. QED BY <1>3, <1>5, <1>6
-----------------------------------------------------------------------------
(* The invariant.  Of a reward it says what a void and a refund rely on:   *)
(* that it has one row, of its cost, written with its sale and not before, *)
(* and that a sale not yet placed has returned nothing.                    *)

Rewarded(c, o, status, b) ==
  /\ \A i, j \in Spent(c, o) : i = j
  /\ \A i \in Spent(c, o) : c.rows[i].points = -Cost[o]
  /\ status \notin {"placed", "voided"} => Spent(c, o) = {} /\ b.paid + b.free = 0
  /\ \A i \in Spent(c, o) :
       (status = "voided" \/ b.paid + b.free = Quantity[o]) => Undone(c, i) = Cost[o]

Returns == [money : Nat, paid : Nat, free : Nat]

Sales ==
  /\ sale \in [Orders -> {"none", "planned", "placed", "voided"}]
  /\ back \in [Orders -> Returns]
  /\ \A o \in Orders : back[o].money <= Total[o] /\ back[o].paid + back[o].free <= Quantity[o]
  /\ \A o \in Orders : sale[o] = "planned" => Cost[o] > 0

Requests(n) ==
  /\ judged \in [Orders -> [afford : BOOLEAN, replay : BOOLEAN, since : 0 .. n]]
  /\ press \in [Presses -> [of : Orders \cup {None}, since : 0 .. n]]
  /\ visit \in [Visits -> [act : {"earn", "redeem", "adjust"},
                           at : {"new", "asked", "done", "refused"}, since : 0 .. n]]
  /\ \A p \in Presses : press[p].of = None => press[p] = Idle

IInv ==
  /\ Sound(Now)
  /\ Sales
  /\ Requests(Len(rows))
  /\ \A o \in Orders : Rewarded(Now, o, sale[o], back[o])

LEMMA Division ==
  ASSUME NEW a \in Int, NEW b \in Nat \ {0}
  PROVE  a \div b \in Int /\ (a * b) \div b = a
OBVIOUS

\* A longer ledger with no new reward of the sale, and none of its reward undone.
LEMMA RewardedKept ==
  ASSUME NEW c, NEW d, Sound(c), Sound(d), Longer(c, d), NEW o \in Orders, NEW status, NEW b,
         \A j \in 1 .. Len(d.rows) : j > Len(c.rows) => ~(d.rows[j].kind = "redeem" /\ d.rows[j].of = o),
         \A i \in Spent(c, o) : Undone(d, i) = Undone(c, i)
  PROVE  /\ Spent(d, o) = Spent(c, o)
         /\ Rewarded(c, o, status, b) => Rewarded(d, o, status, b)
<1>1. /\ DOMAIN c.rows = 1 .. Len(c.rows) /\ DOMAIN d.rows = 1 .. Len(d.rows)
      /\ Len(c.rows) \in Nat /\ Len(d.rows) \in Nat
  BY DEF Sound, Cards
<1>2. Spent(d, o) = Spent(c, o)
  BY <1>1 DEF Spent, Written, Longer
<1>3. \A i \in Spent(c, o) : d.rows[i] = c.rows[i]
  BY <1>1 DEF Spent, Written, Longer
<1>. QED BY <1>2, <1>3 DEF Rewarded

\* What is undone of one row of a set is undone of no row outside it.
LEMMA ReverseAllFacts ==
  ASSUME NEW c, Sound(c), NEW S \in SUBSET (1 .. Len(c.rows)), NEW want \in Int, NEW spared \in BOOLEAN
  PROVE  /\ Sound(ReverseAll(c, S, want, spared))
         /\ Longer(c, ReverseAll(c, S, want, spared))
         /\ \A j \in 1 .. Len(ReverseAll(c, S, want, spared).rows) :
              j > Len(c.rows) => ReverseAll(c, S, want, spared).rows[j].kind = "undo"
         /\ \A j \in (1 .. Len(c.rows)) \ S : Undone(ReverseAll(c, S, want, spared), j) = Undone(c, j)
<1>1. CASE S = {}
  <2>1. ReverseAll(c, S, want, spared) = c
    BY <1>1 DEF ReverseAll
  <2>2. Longer(c, c) /\ \A j \in 1 .. Len(c.rows) : ~(j > Len(c.rows))
    BY DEF Longer, Sound, Cards
  <2>. QED BY <2>1, <2>2
<1>2. CASE S # {}
  <2>1. PICK i \in S : ReverseAll(c, S, want, spared) = Reverse(c, i, want, spared)
    BY <1>2 DEF ReverseAll
  <2>2. PICK d : d = Reverse(c, i, want, spared)
    OBVIOUS
  <2>3. i \in 1 .. Len(c.rows) /\ want \in Int /\ spared \in BOOLEAN /\ Sound(c)
    OBVIOUS
  <2>4. /\ Sound(d) /\ Longer(c, d)
        /\ \A j \in 1 .. Len(d.rows) : j > Len(c.rows) => d.rows[j].kind = "undo"
        /\ \A j \in 1 .. Len(c.rows) : j # i => Undone(d, j) = Undone(c, j)
    BY <2>2, <2>3, ReverseFacts, SMT
  <2>5. \A j \in (1 .. Len(c.rows)) \ S : j # i
    OBVIOUS
  <2>6. \A j \in (1 .. Len(c.rows)) \ S : Undone(d, j) = Undone(c, j)
    BY <2>4, <2>5, Zenon
  <2>. QED BY <2>1, <2>2, <2>4, <2>6, Zenon
<1>. QED BY <1>1, <1>2

\* Undoing rows of one sale leaves the rewards of the others alone.
LEMMA OthersRewarded ==
  ASSUME NEW c, Sound(c), NEW d, Sound(d), Longer(c, d), NEW o \in Orders, NEW status, NEW b,
         \A j \in 1 .. Len(d.rows) : j > Len(c.rows) => d.rows[j].kind = "undo",
         NEW S, \A j \in (1 .. Len(c.rows)) \ S : Undone(d, j) = Undone(c, j),
         S \cap Spent(c, o) = {}
  PROVE  Rewarded(c, o, status, b) => Rewarded(d, o, status, b)
<1>1. Spent(c, o) \subseteq 1 .. Len(c.rows)
  BY DEF Spent, Written, Sound, Cards
<1>2. \A i \in Spent(c, o) : Undone(d, i) = Undone(c, i)
  BY <1>1
<1>. QED BY <1>2, RewardedKept

LEMMA WrittenFacts ==
  ASSUME NEW c, Sound(c)
  PROVE  /\ \A o : Spent(c, o) \in SUBSET (1 .. Len(c.rows))
         /\ \A o : Earned(c, o) \in SUBSET (1 .. Len(c.rows))
         /\ \A o, p : Earned(c, o) \cap Spent(c, p) = {}
         /\ \A o, p : o # p => Spent(c, o) \cap Spent(c, p) = {}
         /\ Len(c.rows) \in Nat
BY DEF Sound, Cards, Spent, Earned, Written

\* All of a reward comes back to whoever asks for all of it.
LEMMA RewardUndone ==
  ASSUME NEW c, Sound(c), NEW o \in Orders, NEW i \in Spent(c, o), c.rows[i].points = -Cost[o],
         NEW want \in Int, want > 0
  PROVE  /\ Cost[o] \in Nat /\ Cost[o] > 0 /\ Undone(c, i) \in 0 .. Cost[o]
         /\ Undone(Reverse(c, i, want, FALSE), i) =
              IF Undone(c, i) + want <= Cost[o] THEN Undone(c, i) + want ELSE Cost[o]
<1>1. i \in 1 .. Len(c.rows) /\ Cost[o] \in Nat
  BY WrittenFacts, LoyaltyAssumption
<1>2. c.rows[i].points # 0 /\ Undone(c, i) \in 0 .. Size(c.rows[i].points)
  BY <1>1 DEF Sound, WellWritten
<1>3. Cost[o] > 0 /\ c.rows[i].points < 0 /\ Size(c.rows[i].points) = Cost[o]
  BY <1>1, <1>2 DEF Size
<1>4. Undone(Reverse(c, i, want, FALSE), i) =
        IF Undone(c, i) + want <= Size(c.rows[i].points)
        THEN Undone(c, i) + want ELSE Size(c.rows[i].points)
  BY <1>1, <1>3, ReverseFacts
<1>. QED BY <1>1, <1>2, <1>3, <1>4

\* Once all the units of the line are back, so is all of the reward.
LEMMA GivenBackFacts ==
  ASSUME NEW o \in Orders, NEW named \in BOOLEAN, NEW b \in Returns
  PROVE  /\ GivenBack(o, named, b) \in Int
         /\ named /\ b.paid + b.free = Quantity[o] => GivenBack(o, named, b) = Cost[o]
<1>1. /\ Cost[o] \in Nat /\ Units[o] \in Nat \ {0} /\ Quantity[o] \in Nat /\ Units[o] <= Quantity[o]
      /\ Total[o] \in Nat /\ b.paid \in Nat /\ b.free \in Nat
  BY LoyaltyAssumption DEF Returns
<1>. DEFINE more == b.paid - (Quantity[o] - Units[o])
<1>. DEFINE over == Max({more, 0})
<1>. DEFINE units == Min({b.free + over, Units[o]})
<1>2. more \in Int
  BY <1>1
<1>3. over \in Int /\ over = IF more <= 0 THEN 0 ELSE more
  <2>. HIDE DEF more
  <2>. QED BY <1>2, MaxZero
<1>4. units \in Int /\ units = IF b.free + over <= Units[o] THEN b.free + over ELSE Units[o]
  <2>1. b.free + over \in Int /\ Units[o] \in Int
    BY <1>1, <1>3
  <2>. HIDE DEF over
  <2>. QED BY <2>1, MinMax
<1>5. b.paid + b.free = Quantity[o] => units = Units[o]
  <2>. HIDE DEF units, over
  <2>. QED BY <1>1, <1>3, <1>4
<1>6. units = Returned(o, b)
  BY DEF Returned
<1>. HIDE DEF units
<1>7. (Cost[o] * units) \div Units[o] \in Int
  <2>1. Cost[o] * units \in Int
    BY <1>1, <1>4
  <2>. QED BY <1>1, <2>1, Division
<1>8. (Cost[o] * Units[o]) \div Units[o] = Cost[o]
  BY <1>1, Division
<1>. QED BY <1>1, <1>5, <1>6, <1>7, <1>8 DEF GivenBack

-----------------------------------------------------------------------------
(* The steps.                                                              *)

LEMMA InitInv == Init => IInv
<1>. SUFFICES ASSUME Init PROVE IInv
  OBVIOUS
<1>. DEFINE gift == Row("adjust", None, Gift, 0)
<1>1. Gift \in Nat \ {0} /\ gift \in RowType /\ gift.points = Gift
  BY LoyaltyAssumption DEF Row, RowType, Kinds, Accounts
<1>2. Sound(Now)
  <2>. DEFINE empty == [rows |-> <<>>, balance |-> 0]
  <2>1. Sound(empty)
    <3>1. Points(empty) = <<>>
      BY DEF Points
    <3>2. AddUp(<<>>) = 0
      <4>1. <<>> \in Seq(Int) /\ \A n \in 1 .. Len(<<>>) : <<>>[n] = 0
        OBVIOUS
      <4>. QED BY <4>1, AddUpNone, Zenon
    <3>. QED BY <3>1, <3>2 DEF Sound, Cards
  <2>2. Now = Post(empty, gift)
    BY <1>1 DEF Init, Now, Post
  <2>3. /\ gift.points # 0 /\ gift.undoes = 0 /\ gift.kind # "undo"
        /\ gift.since \in 0 .. Len(empty.rows) /\ empty.balance + gift.points >= 0
    BY <1>1 DEF Row
  <2>. HIDE DEF gift, empty
  <2>. QED BY <1>1, <2>1, <2>2, <2>3, PostSound
<1>3. Sales
  BY LoyaltyAssumption DEF Init, Sales, Returns
<1>4. Requests(Len(rows))
  BY <1>1 DEF Init, Requests, Unjudged, Idle
<1>5. ASSUME NEW o \in Orders PROVE Rewarded(Now, o, sale[o], back[o])
  <2>1. Spent(Now, o) = {}
    BY DEF Init, Now, Spent, Written, Row
  <2>. QED BY <2>1 DEF Init, Rewarded
<1>. QED BY <1>2, <1>3, <1>4, <1>5 DEF IInv

\* A step that writes nothing on the card.
LEMMA QuietInv ==
  ASSUME IInv, UNCHANGED card, Sales', Requests(Len(rows))',
         \A o \in Orders : Rewarded(Now, o, sale'[o], back'[o])
  PROVE  IInv'
<1>1. Now' = Now /\ rows' = rows
  BY DEF card, Now
<1>. QED BY <1>1 DEF IInv

\* A step that writes d on it.
LEMMA CommitInv ==
  ASSUME IInv, NEW d, Sound(d), Commit(d), Sales', Requests(Len(d.rows))',
         \A o \in Orders : Rewarded(d, o, sale'[o], back'[o])
  PROVE  IInv'
<1>1. Now' = d /\ rows' = d.rows
  BY DEF Now, Commit, Sound, Cards
<1>. QED BY <1>1 DEF IInv

LEMMA RequestsGrow ==
  ASSUME NEW n \in Nat, NEW m \in Nat, n <= m, Requests(n)
  PROVE  Requests(m)
<1>1. \A k \in 0 .. n : k \in 0 .. m
  OBVIOUS
<1>. QED BY <1>1 DEF Requests

\* What the requests and the sales do between two writings of the card.
LEMMA PlanInv == ASSUME IInv, NEW o \in Orders, NEW replay \in BOOLEAN, Plan(o, replay) PROVE IInv'
<1>1. Len(rows) \in Nat /\ rows' = rows /\ UNCHANGED card
  BY DEF IInv, Sound, Cards, Now, Plan, card
<1>2. Sales'
  BY DEF IInv, Sales, Plan
<1>3. Requests(Len(rows))'
  BY <1>1 DEF IInv, Requests, Plan
<1>4. ASSUME NEW p \in Orders PROVE Rewarded(Now, p, sale'[p], back'[p])
  BY DEF IInv, Sales, Rewarded, Plan
<1>. QED BY <1>1, <1>2, <1>3, <1>4, QuietInv

LEMMA PlaceRefusedInv == ASSUME IInv, NEW o \in Orders, PlaceRefused(o) PROVE IInv'
<1>1. Len(rows) \in Nat /\ rows' = rows /\ UNCHANGED card
  BY DEF IInv, Sound, Cards, Now, PlaceRefused, card
<1>2. Sales'
  BY DEF IInv, Sales, PlaceRefused
<1>3. Requests(Len(rows))'
  BY <1>1 DEF IInv, Requests, PlaceRefused, Unjudged
<1>4. ASSUME NEW p \in Orders PROVE Rewarded(Now, p, sale'[p], back'[p])
  BY LoyaltyAssumption DEF IInv, Sales, Rewarded, PlaceRefused
<1>. QED BY <1>1, <1>2, <1>3, <1>4, QuietInv

LEMMA RefuseInv == ASSUME IInv, NEW o \in Orders, Refuse(o) PROVE IInv'
<1>1. Len(rows) \in Nat /\ rows' = rows /\ UNCHANGED card
  BY DEF IInv, Sound, Cards, Now, Refuse, card
<1>2. Sales'
  BY DEF IInv, Sales, Refuse
<1>3. Requests(Len(rows))'
  BY <1>1 DEF IInv, Requests, Refuse, Unjudged
<1>4. ASSUME NEW p \in Orders PROVE Rewarded(Now, p, sale'[p], back'[p])
  BY DEF IInv, Sales, Rewarded, Refuse
<1>. QED BY <1>1, <1>2, <1>3, <1>4, QuietInv

LEMMA PlacePlainInv == ASSUME IInv, NEW o \in Orders, PlacePlain(o) PROVE IInv'
<1>1. rows' = rows /\ UNCHANGED card
  BY DEF PlacePlain, card
<1>2. Sales'
  BY DEF IInv, Sales, PlacePlain
<1>3. Requests(Len(rows))'
  BY <1>1 DEF IInv, Requests, PlacePlain
<1>4. ASSUME NEW p \in Orders PROVE Rewarded(Now, p, sale'[p], back'[p])
  BY LoyaltyAssumption DEF IInv, Sales, Rewarded, PlacePlain
<1>. QED BY <1>1, <1>2, <1>3, <1>4, QuietInv

LEMMA PressInv == ASSUME IInv, NEW p \in Presses, NEW o \in Orders, Press(p, o) PROVE IInv'
<1>1. Len(rows) \in Nat /\ rows' = rows /\ UNCHANGED card
  BY DEF IInv, Sound, Cards, Now, Press, card
<1>2. Sales' /\ sale' = sale /\ back' = back
  BY DEF IInv, Sales, Press
<1>3. Requests(Len(rows))'
  BY <1>1, LoyaltyAssumption DEF IInv, Requests, Press
<1>. QED BY <1>1, <1>2, <1>3, QuietInv DEF IInv

LEMMA AskInv == ASSUME IInv, NEW v \in Visits, NEW act \in Acts[v], Ask(v, act) PROVE IInv'
<1>1. Len(rows) \in Nat /\ rows' = rows /\ UNCHANGED card
  BY DEF IInv, Sound, Cards, Now, Ask, card
<1>2. Sales' /\ sale' = sale /\ back' = back
  BY DEF IInv, Sales, Ask
<1>3. act \in {"earn", "redeem", "adjust"}
  BY LoyaltyAssumption
<1>4. Requests(Len(rows))'
  <2>. DEFINE asked == [act |-> act,
        at |-> IF Prior(v, act) THEN "done"
               ELSE IF Reused(v, act) \/ (act = "adjust" /\ ~Covers(Now, Correction)) THEN "refused"
               ELSE "asked",
        since |-> IF act = "redeem" THEN Len(rows) ELSE 0]
  <2>1. asked \in [act : {"earn", "redeem", "adjust"},
                   at : {"new", "asked", "done", "refused"}, since : 0 .. Len(rows)]
    BY <1>1, <1>3
  <2>2. visit' = [visit EXCEPT ![v] = asked] /\ UNCHANGED <<judged, press>>
    BY DEF Ask
  <2>. HIDE DEF asked
  <2>. QED BY <1>1, <2>1, <2>2 DEF IInv, Requests
<1>. QED BY <1>1, <1>2, <1>4, QuietInv DEF IInv

\* One row appended by a transaction that takes back nothing.
LEMMA PostInv ==
  ASSUME IInv, NEW row \in RowType, NEW n, n = Len(rows) + 1,
         row.points # 0, row.undoes = 0, row.kind # "undo", row.since \in 0 .. Len(rows),
         balance + row.points >= 0 \/ Owes, Commit(Post(Now, row)),
         ~(row.kind = "redeem" /\ row.of \in Orders),
         UNCHANGED <<sale, back>>, Requests(n)'
  PROVE  IInv'
<1>1. PICK d : d = Post(Now, row)
  OBVIOUS
<1>2. Sound(Now) /\ Now.rows = rows /\ Now.balance = balance /\ Len(rows) \in Nat
  BY DEF IInv, Sound, Cards, Now
<1>3. /\ Sound(d) /\ Longer(Now, d) /\ Len(d.rows) = n
      /\ d.rows[n] = row
      /\ \A i \in 1 .. Len(rows) : Undone(d, i) = Undone(Now, i)
  BY <1>1, <1>2, PostSound
<1>4. ASSUME NEW o \in Orders PROVE Rewarded(d, o, sale'[o], back'[o])
  <2>1. \A j \in 1 .. Len(d.rows) : j > Len(rows) => ~(d.rows[j].kind = "redeem" /\ d.rows[j].of = o)
    BY <1>2, <1>3
  <2>2. \A i \in Spent(Now, o) : Undone(d, i) = Undone(Now, i)
    BY <1>2, <1>3, WrittenFacts
  <2>3. Rewarded(Now, o, sale[o], back[o])
    BY DEF IInv
  <2>. QED BY <1>2, <1>3, <2>1, <2>2, <2>3, RewardedKept
<1>5. Sales'
  BY DEF IInv, Sales
<1>6. Requests(Len(d.rows))'
  BY <1>3
<1>. QED BY <1>1, <1>3, <1>4, <1>5, <1>6, CommitInv

LEMMA PlaceWithRewardInv == ASSUME IInv, NEW o \in Orders, PlaceWithReward(o) PROVE IInv'
<1>1. PICK row : row = Row("redeem", o, -Cost[o], judged[o].since)
  OBVIOUS
<1>2. PICK d : d = Post(Now, row)
  OBVIOUS
<1>3. Sound(Now) /\ Now.rows = rows /\ Now.balance = balance /\ Len(rows) \in Nat /\ balance \in Int
  BY DEF IInv, Sound, Cards, Now
<1>4. /\ Cost[o] \in Nat /\ judged[o].since \in 0 .. Len(rows) /\ balance >= Cost[o]
      /\ Covers(Now, -Cost[o]) /\ sale[o] = "planned"
  BY LoyaltyAssumption DEF IInv, Requests, PlaceWithReward, PaysFor
<1>5. Cost[o] > 0
  BY <1>4 DEF IInv, Sales
<1>6. /\ row \in RowType /\ row.points = -Cost[o] /\ row.undoes = 0 /\ row.kind = "redeem"
      /\ row.of = o /\ row.since \in 0 .. Len(rows)
  BY <1>1, <1>3, <1>4 DEF Row, RowType, Kinds, Accounts
<1>7. /\ Sound(d) /\ Longer(Now, d) /\ Len(d.rows) = Len(rows) + 1
      /\ d.rows[Len(rows) + 1] = row
      /\ \A i \in 1 .. Len(rows) : Undone(d, i) = Undone(Now, i)
  BY <1>2, <1>3, <1>4, <1>5, <1>6, PostSound
<1>8. /\ Commit(d) /\ back' = back /\ sale' = [sale EXCEPT ![o] = "placed"]
      /\ judged' = [judged EXCEPT ![o] = Unjudged] /\ UNCHANGED <<press, visit>>
  BY <1>1, <1>2 DEF PlaceWithReward
<1>9. Sales'
  BY <1>8 DEF IInv, Sales
<1>10. Requests(Len(d.rows))'
  <2>1. PICK n \in Nat : n = Len(rows) + 1
    BY <1>3
  <2>2. Requests(n)
    BY <1>3, <2>1, RequestsGrow DEF IInv
  <2>3. Requests(n)'
    BY <1>8, <2>1, <2>2 DEF Requests, Unjudged
  <2>. QED BY <1>7, <2>1, <2>3
<1>11. ASSUME NEW p \in Orders, p # o PROVE Rewarded(d, p, sale'[p], back'[p])
  <2>1. \A j \in 1 .. Len(d.rows) : j > Len(rows) => ~(d.rows[j].kind = "redeem" /\ d.rows[j].of = p)
    BY <1>3, <1>6, <1>7, <1>11
  <2>2. \A i \in Spent(Now, p) : Undone(d, i) = Undone(Now, i)
    BY <1>3, <1>7, WrittenFacts
  <2>3. Rewarded(Now, p, sale[p], back[p]) /\ sale'[p] = sale[p] /\ back'[p] = back[p]
    BY <1>8, <1>11 DEF IInv, Sales
  <2>. QED BY <1>3, <1>7, <2>1, <2>2, <2>3, RewardedKept
<1>12. Rewarded(d, o, sale'[o], back'[o])
  <2>1. Spent(Now, o) = {} /\ back[o].paid + back[o].free = 0
    BY <1>4 DEF IInv, Rewarded
  <2>2. \A i \in Spent(d, o) : i = Len(rows) + 1
    <3>1. DOMAIN d.rows = 1 .. Len(rows) + 1 /\ DOMAIN rows = 1 .. Len(rows)
      BY <1>3, <1>7 DEF Sound, Cards
    <3>. QED BY <1>3, <1>7, <2>1, <3>1 DEF Spent, Written, Longer
  <2>3. sale'[o] = "placed" /\ back'[o].paid + back'[o].free = 0 /\ Quantity[o] # 0
    BY <1>8, <2>1, LoyaltyAssumption DEF IInv, Sales
  <2>. QED BY <1>6, <1>7, <2>2, <2>3 DEF Rewarded
<1>. QED BY <1>7, <1>8, <1>9, <1>10, <1>11, <1>12, CommitInv

LEMMA TrimmedFacts ==
  ASSUME NEW points \in Nat, balance \in Int
  PROVE  Trimmed(points) \in Nat
<1>1. Cap - balance \in Int
  BY LoyaltyAssumption
<1>2. PICK room : room = Max({Cap - balance, 0})
  OBVIOUS
<1>3. room \in Nat
  <2>1. PICK a \in Int : a = Cap - balance
    BY <1>1
  <2>. QED BY <1>2, <2>1, MaxZero
<1>4. Min({points, room}) = IF points <= room THEN points ELSE room
  BY <1>3, MinMax
<1>. QED BY <1>2, <1>3, <1>4 DEF Trimmed

\* A row of the counter's or of a press, whoever asked for it.
LEMMA RowFacts ==
  ASSUME NEW kind \in {"earn", "redeem", "adjust"}, NEW of \in Accounts, NEW points \in Int, points # 0,
         NEW n \in Nat, NEW since \in 0 .. n
  PROVE  /\ Row(kind, of, points, since) \in RowType
         /\ Row(kind, of, points, since).points = points /\ Row(kind, of, points, since).points # 0
         /\ Row(kind, of, points, since).undoes = 0
         /\ Row(kind, of, points, since).kind = kind /\ Row(kind, of, points, since).kind # "undo"
         /\ Row(kind, of, points, since).of = of
         /\ Row(kind, of, points, since).since = since
BY DEF Row, RowType, Kinds

LEMMA AwardInv == ASSUME IInv, NEW p \in Presses, Award(p) PROVE IInv'
<1>1. PICK o : o = press[p].of
  OBVIOUS
<1>2. PICK points : points = Trimmed(Worth[o])
  OBVIOUS
<1>3. /\ Len(rows) \in Nat /\ balance \in Int /\ o \in Orders /\ press[p].since \in 0 .. Len(rows)
      /\ (balance >= 0 \/ Owes)
  BY <1>1 DEF IInv, Sound, Cards, Now, Requests, Award
<1>4. points \in Nat
  BY <1>2, <1>3, TrimmedFacts, LoyaltyAssumption
<1>5. /\ press' = [press EXCEPT ![p] = Idle] /\ UNCHANGED <<sale, judged, back, visit>>
      /\ IF points > 0 /\ Earned(Now, o) = {}
         THEN Commit(Post(Now, Row("earn", o, points, press[p].since)))
         ELSE UNCHANGED card
  BY <1>1, <1>2 DEF Award
<1>6. ASSUME NEW n \in Nat, Requests(n) PROVE Requests(n)'
  BY <1>5, <1>6 DEF Requests, Idle
<1>7. CASE points > 0 /\ Earned(Now, o) = {}
  <2>1. PICK row : row = Row("earn", o, points, press[p].since)
    OBVIOUS
  <2>2. PICK n \in Nat : n = Len(rows) + 1
    BY <1>3
  <2>3. Requests(n)'
    <3>1. Requests(n)
      BY <1>3, <2>2, RequestsGrow DEF IInv
    <3>. QED BY <1>6, <3>1
  <2>4. /\ row \in RowType /\ row.points = points /\ row.points # 0 /\ row.undoes = 0
        /\ row.kind = "earn" /\ row.since \in 0 .. Len(rows)
    BY <1>3, <1>4, <1>7, <2>1, RowFacts DEF Accounts
  <2>5. balance + row.points >= 0 \/ Owes
    BY <1>3, <1>4, <2>4
  <2>6. Commit(Post(Now, row))
    BY <1>5, <1>7, <2>1
  <2>. QED BY <1>5, <2>2, <2>3, <2>4, <2>5, <2>6, PostInv
<1>8. CASE ~(points > 0 /\ Earned(Now, o) = {})
  <2>1. UNCHANGED card /\ rows' = rows /\ sale' = sale /\ back' = back
    BY <1>5, <1>8 DEF card
  <2>2. PICK n \in Nat : n = Len(rows)
    BY <1>3
  <2>3. Requests(Len(rows))' /\ Sales'
    BY <1>6, <2>1, <2>2 DEF IInv, Sales
  <2>. QED BY <2>1, <2>3, QuietInv DEF IInv
<1>. QED BY <1>7, <1>8

LEMMA MovementFacts ==
  ASSUME NEW act \in {"earn", "redeem", "adjust"}, balance \in Int, balance >= 0 \/ Owes
  PROVE  /\ Movement(act) \in Int
         /\ Movement(act) # 0 => balance + Movement(act) >= 0 \/ Owes
<1>1. CASE act = "earn"
  BY <1>1, TrimmedFacts, LoyaltyAssumption DEF Movement
<1>2. CASE act = "redeem"
  BY <1>2, LoyaltyAssumption DEF Movement
<1>3. CASE act = "adjust"
  BY <1>3, LoyaltyAssumption DEF Movement, Covers, Now
<1>. QED BY <1>1, <1>2, <1>3

LEMMA ServeInv == ASSUME IInv, NEW v \in Visits, Serve(v) PROVE IInv'
<1>1. PICK act : act = visit[v].act
  OBVIOUS
<1>2. PICK n : n = Movement(act)
  OBVIOUS
<1>3. PICK of : of = IF act = "adjust" THEN None ELSE Key[v]
  OBVIOUS
<1>4. /\ Len(rows) \in Nat /\ balance \in Int /\ visit[v].since \in 0 .. Len(rows)
      /\ act \in {"earn", "redeem", "adjust"} /\ (balance >= 0 \/ Owes)
  BY <1>1 DEF IInv, Sound, Cards, Now, Requests
<1>5. n \in Int /\ (n # 0 => balance + n >= 0 \/ Owes)
  BY <1>2, <1>4, MovementFacts
<1>6. PICK how \in {"done", "refused"}, new \in BOOLEAN :
        /\ visit' = [visit EXCEPT ![v] = [act |-> act, at |-> how, since |-> 0]]
        /\ UNCHANGED <<sale, judged, back, press>>
        /\ IF new THEN Commit(Post(Now, Row(act, of, n, visit[v].since))) ELSE UNCHANGED card
        /\ new => n # 0
  <2>. DEFINE new == n # 0 /\ ~Prior(v, act) /\ ~Reused(v, act)
  <2>. DEFINE how == IF new \/ (Prior(v, act) /\ (n # 0 \/ act = "earn")) THEN "done" ELSE "refused"
  <2>1. how \in {"done", "refused"} /\ new \in BOOLEAN /\ (new => n # 0)
    OBVIOUS
  <2>2. /\ visit' = [visit EXCEPT ![v] = [act |-> act, at |-> how, since |-> 0]]
        /\ UNCHANGED <<sale, judged, back, press>>
        /\ IF new THEN Commit(Post(Now, Row(act, of, n, visit[v].since))) ELSE UNCHANGED card
    BY <1>1, <1>2, <1>3, Zenon DEF Serve
  <2>. HIDE DEF how, new
  <2>. QED BY <2>1, <2>2
<1>7. ASSUME NEW m \in Nat, Requests(m) PROVE Requests(m)'
  BY <1>4, <1>6, <1>7 DEF Requests
<1>8. CASE new
  <2>1. PICK row : row = Row(act, of, n, visit[v].since)
    OBVIOUS
  <2>2. PICK m \in Nat : m = Len(rows) + 1
    BY <1>4
  <2>3. Requests(m)'
    <3>1. Requests(m)
      BY <1>4, <2>2, RequestsGrow DEF IInv
    <3>. QED BY <1>7, <3>1
  <2>4. of \in Accounts /\ of \notin Orders /\ n # 0
    BY <1>3, <1>6, <1>8, LoyaltyAssumption DEF Accounts
  <2>5. /\ row \in RowType /\ row.points = n /\ row.points # 0 /\ row.undoes = 0
        /\ row.kind # "undo" /\ row.of = of /\ row.since \in 0 .. Len(rows)
    <3>1. PICK since \in 0 .. Len(rows) : since = visit[v].since
      BY <1>4
    <3>2. row = Row(act, of, n, since)
      BY <2>1, <3>1
    <3>. QED BY <1>4, <1>5, <2>4, <3>1, <3>2, RowFacts
  <2>6. Commit(Post(Now, row))
    BY <1>6, <1>8, <2>1
  <2>7. balance + row.points >= 0 \/ Owes
    BY <1>5, <2>4, <2>5
  <2>. QED BY <1>6, <2>2, <2>3, <2>4, <2>5, <2>6, <2>7, PostInv
<1>9. CASE ~new
  <2>1. UNCHANGED card /\ rows' = rows /\ sale' = sale /\ back' = back
    BY <1>6, <1>9 DEF card
  <2>2. PICK m \in Nat : m = Len(rows)
    BY <1>4
  <2>3. Requests(Len(rows))' /\ Sales'
    BY <1>7, <2>1, <2>2 DEF IInv, Sales
  <2>. QED BY <2>1, <2>3, QuietInv DEF IInv
<1>. QED BY <1>8, <1>9

\* A void undoes the sale's reward, all of it, and then what is left of its earn.
LEMMA VoidInv == ASSUME IInv, NEW o \in Orders, Void(o) PROVE IInv'
<1>1. PICK c : c = ReverseAll(Now, Spent(Now, o), Cost[o], FALSE)
  OBVIOUS
<1>2. PICK spared \in BOOLEAN : Commit(ReverseAll(c, Earned(c, o), Worth[o], spared))
  BY <1>1, Zenon DEF Void
<1>3. PICK d : d = ReverseAll(c, Earned(c, o), Worth[o], spared)
  OBVIOUS
<1>4. /\ sale[o] = "placed" /\ sale' = [sale EXCEPT ![o] = "voided"]
      /\ UNCHANGED <<judged, back, press, visit>>
  BY DEF Void
<1>5. Sound(Now) /\ Now.rows = rows /\ Len(rows) \in Nat /\ Cost[o] \in Nat /\ Worth[o] \in Nat
  BY LoyaltyAssumption DEF IInv, Sound, Cards, Now
<1>6. /\ Spent(Now, o) \in SUBSET (1 .. Len(Now.rows))
      /\ \A p : o # p => Spent(Now, o) \cap Spent(Now, p) = {}
  BY <1>5, WrittenFacts
<1>7. /\ Sound(c) /\ Longer(Now, c)
      /\ \A j \in 1 .. Len(c.rows) : j > Len(Now.rows) => c.rows[j].kind = "undo"
      /\ \A j \in (1 .. Len(Now.rows)) \ Spent(Now, o) : Undone(c, j) = Undone(Now, j)
  <2>1. Cost[o] \in Int /\ FALSE \in BOOLEAN
    BY <1>5
  <2>. QED BY <1>1, <1>5, <1>6, <2>1, ReverseAllFacts, Zenon
<1>8. /\ Earned(c, o) \in SUBSET (1 .. Len(c.rows))
      /\ \A p : Earned(c, o) \cap Spent(c, p) = {}
  BY <1>7, WrittenFacts
<1>9. /\ Sound(d) /\ Longer(c, d)
      /\ \A j \in 1 .. Len(d.rows) : j > Len(c.rows) => d.rows[j].kind = "undo"
      /\ \A j \in (1 .. Len(c.rows)) \ Earned(c, o) : Undone(d, j) = Undone(c, j)
  <2>1. Worth[o] \in Int
    BY <1>5
  <2>. QED BY <1>3, <1>7, <1>8, <2>1, ReverseAllFacts, Zenon
<1>10. ASSUME NEW p \in Orders, p # o PROVE Rewarded(c, p, sale'[p], back'[p])
  <2>1. Rewarded(Now, p, sale[p], back[p]) /\ sale'[p] = sale[p] /\ back'[p] = back[p]
    BY <1>4, <1>10 DEF IInv, Sales
  <2>. QED BY <1>5, <1>6, <1>7, <1>10, <2>1, OthersRewarded
<1>11. Rewarded(c, o, sale'[o], back'[o])
  <2>1. Rewarded(Now, o, sale[o], back[o]) /\ sale'[o] = "voided" /\ back'[o] = back[o]
    BY <1>4 DEF IInv, Sales
  <2>2. Spent(c, o) = Spent(Now, o) /\ \A i \in Spent(c, o) : c.rows[i] = rows[i]
    <3>1. \A j \in 1 .. Len(c.rows) : j > Len(Now.rows) => ~(c.rows[j].kind = "redeem" /\ c.rows[j].of = o)
      BY <1>7
    <3>2. DOMAIN c.rows = 1 .. Len(c.rows) /\ DOMAIN rows = 1 .. Len(rows) /\ Len(c.rows) \in Nat
      BY <1>5, <1>7 DEF Sound, Cards
    <3>. QED BY <1>5, <1>6, <1>7, <3>1, <3>2 DEF Spent, Written, Longer
  <2>3. ASSUME NEW i \in Spent(Now, o) PROVE Undone(c, i) = Cost[o]
    <3>1. \A j \in Spent(Now, o) : j = i /\ Now.rows[j].points = -Cost[o]
      BY <2>1 DEF Rewarded
    <3>2. c = Reverse(Now, i, Cost[o], FALSE)
      BY <1>1, <3>1 DEF ReverseAll
    <3>3. Cost[o] > 0
      <4>1. Now.rows[i].points # 0
        BY <1>5, <1>6 DEF Sound, WellWritten
      <4>. QED BY <1>5, <3>1, <4>1
    <3>4. /\ Undone(Now, i) \in 0 .. Cost[o]
          /\ Undone(c, i) = IF Undone(Now, i) + Cost[o] <= Cost[o]
                            THEN Undone(Now, i) + Cost[o] ELSE Cost[o]
      <4>1. Cost[o] \in Int /\ Now.rows[i].points = -Cost[o]
        BY <1>5, <3>1
      <4>. QED BY <1>5, <3>2, <3>3, <4>1, RewardUndone, Zenon
    <3>. QED BY <1>5, <3>4
  <2>. QED BY <1>5, <2>1, <2>2, <2>3 DEF Rewarded
<1>12. ASSUME NEW p \in Orders PROVE Rewarded(d, p, sale'[p], back'[p])
  <2>1. Rewarded(c, p, sale'[p], back'[p])
    BY <1>10, <1>11
  <2>. QED BY <1>7, <1>8, <1>9, <2>1, OthersRewarded, Zenon
<1>13. Sales'
  BY <1>4 DEF IInv, Sales
<1>14. Requests(Len(d.rows))'
  <2>1. PICK n \in Nat : n = Len(d.rows)
    BY <1>9 DEF Sound, Cards
  <2>2. Len(rows) <= n
    <3>1. Len(c.rows) \in Nat /\ Len(rows) <= Len(c.rows) /\ Len(c.rows) <= Len(d.rows)
      BY <1>5, <1>7, <1>9 DEF Longer, Sound, Cards
    <3>. QED BY <1>5, <2>1, <3>1
  <2>3. Requests(n)
    BY <1>5, <2>1, <2>2, RequestsGrow DEF IInv
  <2>4. Requests(n)'
    BY <1>4, <2>3 DEF Requests
  <2>. QED BY <2>1, <2>4
<1>. QED BY <1>2, <1>3, <1>9, <1>12, <1>13, <1>14, CommitInv

\* A refund's clawback takes from the earn alone.
LEMMA FollowMoneyFacts ==
  ASSUME NEW c, Sound(c), NEW o \in Orders, NEW b \in Returns, NEW spared \in BOOLEAN,
         NEW p \in Orders, NEW status, NEW returned, Rewarded(c, p, status, returned)
  PROVE  LET d == FollowMoney(c, o, b, spared)
         IN Sound(d) /\ Longer(c, d) /\ Rewarded(d, p, status, returned)
<1>. DEFINE Share(e) == (c.rows[e].points * b.money) \div Total[o]
<1>1. PICK d : d = FollowMoney(c, o, b, spared)
  OBVIOUS
<1>2. CASE \E e \in Earned(c, o) : Share(e) > Undone(c, e)
  <2>1. PICK e : e = CHOOSE k \in Earned(c, o) : TRUE
    OBVIOUS
  <2>2. e \in Earned(c, o)
    BY <1>2, <2>1
  <2>3. e \in 1 .. Len(c.rows) /\ \A i \in Spent(c, p) : i # e
    BY <2>2, WrittenFacts
  <2>4. PICK want : want = Share(e) - Undone(c, e)
    OBVIOUS
  <2>5. d = Reverse(c, e, want, spared)
    BY <1>1, <1>2, <2>1, <2>4 DEF FollowMoney
  <2>6. want \in Int
    <3>1. c.rows[e].points \in Int /\ Undone(c, e) \in Int
      <4>1. c.rows \in Seq(RowType) /\ Undone(c, e) \in 0 .. Size(c.rows[e].points)
        BY <2>3 DEF Sound, Cards
      <4>2. c.rows[e] \in RowType
        BY <2>3, <4>1
      <4>3. c.rows[e].points \in Int
        BY <4>2 DEF RowType
      <4>4. Size(c.rows[e].points) \in Nat
        BY <4>3, SizeFacts
      <4>. QED BY <4>1, <4>3, <4>4
    <3>2. b.money \in Int /\ Total[o] \in Nat \ {0}
      BY LoyaltyAssumption DEF Returns
    <3>3. c.rows[e].points * b.money \in Int
      BY <3>1, <3>2
    <3>4. Share(e) \in Int
      BY <3>2, <3>3, Division
    <3>. QED BY <2>4, <3>1, <3>4
  <2>7. /\ Sound(d) /\ Longer(c, d)
        /\ \A j \in 1 .. Len(d.rows) : j > Len(c.rows) => d.rows[j].kind = "undo"
        /\ \A j \in 1 .. Len(c.rows) : j # e => Undone(d, j) = Undone(c, j)
    BY <2>3, <2>5, <2>6, ReverseFacts
  <2>8. \A j \in (1 .. Len(c.rows)) \ {e} : Undone(d, j) = Undone(c, j)
    BY <2>7
  <2>9. {e} \cap Spent(c, p) = {}
    BY <2>3
  <2>10. Rewarded(d, p, status, returned)
    <3>1. PICK S : S = {e}
      OBVIOUS
    <3>2. S \cap Spent(c, p) = {} /\ \A j \in (1 .. Len(c.rows)) \ S : Undone(d, j) = Undone(c, j)
      BY <2>8, <2>9, <3>1
    <3>3. Sound(c) /\ Sound(d) /\ Longer(c, d) /\ Rewarded(c, p, status, returned)
      BY <2>7
    <3>4. \A j \in 1 .. Len(d.rows) : j > Len(c.rows) => d.rows[j].kind = "undo"
      BY <2>7
    <3>5. p \in Orders
      OBVIOUS
    <3>. QED BY <3>2, <3>3, <3>4, <3>5, OthersRewarded, Zenon
  <2>. QED BY <1>1, <2>7, <2>10
<1>3. CASE ~\E e \in Earned(c, o) : Share(e) > Undone(c, e)
  <2>1. d = c
    BY <1>1, <1>3, Zenon DEF FollowMoney
  <2>. QED BY <1>1, <2>1 DEF Longer, Sound, Cards
<1>. QED BY <1>2, <1>3

\* Of a reward it gives back what is due, and all of it once all the units are back.
LEMMA RestoreFacts ==
  ASSUME NEW c, Sound(c), NEW o \in Orders, NEW b \in Returns, NEW named \in BOOLEAN,
         NEW units \in Nat, NEW before \in Returns, Rewarded(c, o, "placed", before),
         units > 0 => named, before.paid + before.free + units = b.paid + b.free
  PROVE  LET d == RestoreOnRefund(c, o, named, units, b)
         IN /\ Sound(d) /\ Longer(c, d)
            /\ \A j \in 1 .. Len(d.rows) : j > Len(c.rows) => d.rows[j].kind = "undo"
            /\ \A j \in (1 .. Len(c.rows)) \ Spent(c, o) : Undone(d, j) = Undone(c, j)
            /\ Rewarded(d, o, "placed", b)
<1>. DEFINE Due(i) == GivenBack(o, named, b) - Undone(c, i)
<1>. DEFINE full == b.paid + b.free = Quantity[o]
<1>1. PICK d : d = RestoreOnRefund(c, o, named, units, b)
  OBVIOUS
<1>0. PICK given : given = GivenBack(o, named, b)
  OBVIOUS
<1>2. /\ Spent(c, o) \in SUBSET (1 .. Len(c.rows)) /\ Len(c.rows) \in Nat
      /\ \A i, j \in Spent(c, o) : i = j
      /\ \A i \in Spent(c, o) : c.rows[i].points = -Cost[o]
      /\ \A i \in Spent(c, o) : before.paid + before.free = Quantity[o] => Undone(c, i) = Cost[o]
  BY WrittenFacts DEF Rewarded
<1>3. /\ before.paid + before.free \in Nat /\ b.paid + b.free \in Nat /\ Cost[o] \in Nat
      /\ given \in Int /\ (named /\ full => given = Cost[o])
      /\ units = 0 => before.paid + before.free = b.paid + b.free
  BY <1>0, GivenBackFacts, LoyaltyAssumption DEF Returns
<1>4. ASSUME NEW i \in Spent(c, o)
      PROVE  /\ Undone(c, i) \in 0 .. Cost[o] /\ i \in 1 .. Len(c.rows)
             /\ \A want \in Int : want > 0 =>
                  Undone(Reverse(c, i, want, FALSE), i) =
                    IF Undone(c, i) + want <= Cost[o] THEN Undone(c, i) + want ELSE Cost[o]
  <2>1. i \in 1 .. Len(c.rows) /\ c.rows[i].points = -Cost[o]
    BY <1>2
  <2>2. ASSUME NEW want \in Int, want > 0
        PROVE  /\ Undone(c, i) \in 0 .. Cost[o]
               /\ Undone(Reverse(c, i, want, FALSE), i) =
                    IF Undone(c, i) + want <= Cost[o] THEN Undone(c, i) + want ELSE Cost[o]
    BY <2>1, <2>2, RewardUndone, Zenon
  <2>3. 1 \in Int /\ 1 > 0
    OBVIOUS
  <2>. QED BY <2>1, <2>2, <2>3
<1>5. CASE \E i \in Spent(c, o) : Due(i) > 0 /\ (named => units > 0)
  <2>1. PICK i : i = CHOOSE k \in Spent(c, o) : TRUE
    OBVIOUS
  <2>2. i \in Spent(c, o)
    BY <1>5, <2>1
  <2>3. d = Reverse(c, i, Due(i), FALSE)
    BY <1>1, <1>5, <2>1, Zenon DEF RestoreOnRefund
  <2>4. Due(i) > 0 /\ (named => units > 0)
    BY <1>2, <1>5, <2>2
  <2>5. /\ Due(i) \in Int /\ i \in 1 .. Len(c.rows) /\ Undone(c, i) \in 0 .. Cost[o]
        /\ Due(i) = given - Undone(c, i)
    <3>1. i \in 1 .. Len(c.rows) /\ Undone(c, i) \in 0 .. Cost[o]
      BY <1>4, <2>2
    <3>. QED BY <1>0, <1>3, <3>1
  <2>. HIDE DEF Due
  <2>6. /\ Sound(d) /\ Longer(c, d)
        /\ \A j \in 1 .. Len(d.rows) : j > Len(c.rows) => d.rows[j].kind = "undo"
        /\ \A j \in 1 .. Len(c.rows) : j # i => Undone(d, j) = Undone(c, j)
    BY <2>3, <2>5, ReverseFacts, Zenon
  <2>7. Undone(d, i) = IF Undone(c, i) + Due(i) <= Cost[o] THEN Undone(c, i) + Due(i) ELSE Cost[o]
    BY <1>4, <2>2, <2>3, <2>4, <2>5
  <2>8. ASSUME full PROVE Undone(d, i) = Cost[o]
    <3>1. CASE named
      <4>1. given = Cost[o]
        BY <1>3, <2>8, <3>1
      <4>. HIDE DEF full
      <4>. QED BY <1>3, <2>5, <2>7, <4>1
    <3>2. CASE ~named
      <4>1. Undone(c, i) = Cost[o]
        <5>1. units = 0
          BY <3>2
        <5>. QED BY <1>2, <1>3, <2>2, <2>8, <5>1
      <4>. HIDE DEF full
      <4>. QED BY <1>3, <2>4, <2>5, <2>7, <4>1
    <3>. QED BY <3>1, <3>2
  <2>9. Spent(d, o) = Spent(c, o) /\ \A j \in Spent(c, o) : d.rows[j] = c.rows[j]
    <3>1. DOMAIN c.rows = 1 .. Len(c.rows) /\ DOMAIN d.rows = 1 .. Len(d.rows) /\ Len(d.rows) \in Nat
      BY <2>6 DEF Sound, Cards
    <3>. QED BY <1>2, <2>6, <3>1 DEF Spent, Written, Longer
  <2>10. Rewarded(d, o, "placed", b)
    <3>1. \A j \in Spent(d, o) : j = i /\ d.rows[j].points = -Cost[o]
      BY <1>2, <2>2, <2>9
    <3>. QED BY <2>8, <3>1 DEF Rewarded
  <2>. QED BY <1>1, <1>2, <2>2, <2>6, <2>10
<1>6. CASE ~\E i \in Spent(c, o) : Due(i) > 0 /\ (named => units > 0)
  <2>1. d = c
    BY <1>1, <1>6, Zenon DEF RestoreOnRefund
  <2>2. ASSUME NEW i \in Spent(c, o), full PROVE Undone(c, i) = Cost[o]
    <3>1. CASE named /\ units > 0
      <4>1. ~(given - Undone(c, i) > 0) /\ given = Cost[o]
        BY <1>0, <1>3, <1>6, <2>2, <3>1
      <4>2. Undone(c, i) \in 0 .. Cost[o]
        BY <1>4
      <4>. HIDE DEF full
      <4>. QED BY <1>3, <4>1, <4>2
    <3>2. CASE units = 0
      BY <1>2, <1>3, <2>2, <3>2
    <3>. QED BY <3>1, <3>2
  <2>3. Rewarded(d, o, "placed", b)
    BY <1>2, <2>1, <2>2 DEF Rewarded
  <2>4. Longer(c, c) /\ \A j \in 1 .. Len(c.rows) : ~(j > Len(c.rows))
    BY <1>2 DEF Longer
  <2>. QED BY <1>1, <2>1, <2>3, <2>4
<1>. QED BY <1>5, <1>6

LEMMA RefundInv ==
  ASSUME IInv, NEW o \in Orders, NEW money \in 1 .. Total[o],
         NEW paid \in 0 .. Quantity[o], NEW free \in 0 .. Quantity[o], NEW named \in BOOLEAN,
         Refund(o, money, paid, free, named)
  PROVE  IInv'
<1>1. PICK b : b = [money |-> back[o].money + money, paid |-> back[o].paid + paid,
                    free |-> back[o].free + free]
  OBVIOUS
<1>2. PICK before \in Returns : before = back[o]
  BY DEF IInv, Sales
<1>3. /\ Sound(Now) /\ Now.rows = rows /\ Len(rows) \in Nat
      /\ money \in Nat /\ paid \in Nat /\ free \in Nat
      /\ before.money \in Nat /\ before.paid \in Nat /\ before.free \in Nat
  BY LoyaltyAssumption DEF IInv, Sound, Cards, Now, Returns
<1>0. PICK units : units = paid + free
  OBVIOUS
<1>4. /\ b \in Returns /\ before.paid + before.free + units = b.paid + b.free
      /\ b.paid + b.free \in Nat /\ units \in Nat /\ (units > 0 => named)
  <2>1. b.money = before.money + money /\ b.paid = before.paid + paid /\ b.free = before.free + free
    BY <1>1, <1>2
  <2>2. before.money + money \in Nat /\ before.paid + paid \in Nat /\ before.free + free \in Nat
    BY <1>3
  <2>3. b \in Returns
    BY <1>1, <1>2, <2>2 DEF Returns
  <2>4. units > 0 => named
    BY <1>0 DEF Refund
  <2>5. /\ before.paid + before.free + units = b.paid + b.free
        /\ b.paid + b.free \in Nat /\ units \in Nat
    <3>1. /\ before.paid \in Nat /\ before.free \in Nat /\ paid \in Nat /\ free \in Nat
          /\ units = paid + free /\ b.paid = before.paid + paid /\ b.free = before.free + free
      BY <1>0, <1>3, <2>1
    <3>. QED BY ONLY <3>1
  <2>. QED BY <2>3, <2>4, <2>5
<1>5. PICK spared \in BOOLEAN :
         Commit(RestoreOnRefund(FollowMoney(Now, o, b, spared), o, named, units, b))
  BY <1>1, <1>0, Zenon DEF Refund
<1>6. /\ sale[o] = "placed" /\ b.money <= Total[o] /\ b.paid + b.free <= Quantity[o]
      /\ back' = [back EXCEPT ![o] = b] /\ UNCHANGED <<sale, judged, press, visit>>
  BY <1>1 DEF Refund
<1>7. PICK c : c = FollowMoney(Now, o, b, spared)
  OBVIOUS
<1>8. PICK d : d = RestoreOnRefund(c, o, named, units, b)
  OBVIOUS
<1>9. ASSUME NEW p \in Orders
      PROVE  Sound(c) /\ Longer(Now, c) /\ Rewarded(c, p, sale[p], back[p])
  <2>1. Rewarded(Now, p, sale[p], back[p])
    BY DEF IInv
  <2>. QED BY <1>3, <1>4, <1>7, <2>1, FollowMoneyFacts, Zenon
<1>10. /\ Sound(d) /\ Longer(c, d)
       /\ \A j \in 1 .. Len(d.rows) : j > Len(c.rows) => d.rows[j].kind = "undo"
       /\ \A j \in (1 .. Len(c.rows)) \ Spent(c, o) : Undone(d, j) = Undone(c, j)
       /\ Rewarded(d, o, "placed", b)
  <2>1. Rewarded(c, o, "placed", before)
    BY <1>2, <1>6, <1>9
  <2>2. Sound(c)
    BY <1>9
  <2>. QED BY <1>4, <1>8, <2>1, <2>2, RestoreFacts
<1>11. ASSUME NEW p \in Orders PROVE Rewarded(d, p, sale'[p], back'[p])
  <2>1. CASE p = o
    BY <1>6, <1>10, <2>1 DEF IInv, Sales
  <2>2. CASE p # o
    <3>1. Rewarded(c, p, sale'[p], back'[p])
      BY <1>6, <1>9, <2>2 DEF IInv, Sales
    <3>2. Spent(c, o) \cap Spent(c, p) = {}
      BY <1>9, <2>2, WrittenFacts
    <3>. QED BY <1>9, <1>10, <3>1, <3>2, OthersRewarded, Zenon
  <2>. QED BY <2>1, <2>2
<1>12. Sales'
  BY <1>4, <1>6 DEF IInv, Sales
<1>13. Requests(Len(d.rows))'
  <2>1. PICK n \in Nat : n = Len(d.rows)
    BY <1>10 DEF Sound, Cards
  <2>2. Len(rows) <= n
    <3>1. Len(c.rows) \in Nat /\ Len(rows) <= Len(c.rows) /\ Len(c.rows) <= Len(d.rows)
      BY <1>3, <1>9, <1>10 DEF Longer, Sound, Cards
    <3>. QED BY <1>3, <2>1, <3>1
  <2>3. Requests(n)
    BY <1>3, <2>1, <2>2, RequestsGrow DEF IInv
  <2>4. Requests(n)'
    BY <1>6, <2>3 DEF Requests
  <2>. QED BY <2>1, <2>4
<1>. QED BY <1>5, <1>7, <1>8, <1>10, <1>11, <1>12, <1>13, CommitInv

LEMMA StutterInv == ASSUME IInv, UNCHANGED vars PROVE IInv'
<1>1. UNCHANGED card /\ Sales' /\ sale' = sale /\ back' = back
  BY DEF vars, IInv, Sales
<1>2. Requests(Len(rows))'
  BY DEF vars, card, IInv, Requests
<1>. QED BY <1>1, <1>2, QuietInv DEF IInv

LEMMA NextInv == IInv /\ [Next]_vars => IInv'
<1>. SUFFICES ASSUME IInv, [Next]_vars PROVE IInv'
  OBVIOUS
<1>1. ASSUME NEW o \in Orders, Sell(o) PROVE IInv'
  BY <1>1, PlanInv, PlaceWithRewardInv, PlaceRefusedInv, RefuseInv, PlacePlainInv DEF Sell
<1>2. ASSUME NEW o \in Orders, Void(o) PROVE IInv'
  BY <1>2, VoidInv
<1>3. ASSUME NEW o \in Orders, Refunds(o) PROVE IInv'
  BY <1>3, RefundInv DEF Refunds
<1>4. ASSUME NEW p \in Presses, Award(p) PROVE IInv'
  BY <1>4, AwardInv
<1>5. ASSUME NEW p \in Presses, NEW o \in Orders, Press(p, o) PROVE IInv'
  BY <1>5, PressInv
<1>6. ASSUME NEW v \in Visits, Serve(v) PROVE IInv'
  BY <1>6, ServeInv
<1>7. ASSUME NEW v \in Visits, NEW act \in Acts[v], Ask(v, act) PROVE IInv'
  BY <1>7, AskInv
<1>8. CASE UNCHANGED vars
  BY <1>8, StutterInv
<1>. QED BY <1>1, <1>2, <1>3, <1>4, <1>5, <1>6, <1>7, <1>8 DEF Next

-----------------------------------------------------------------------------
(* What the invariant gives.                                               *)

\* The ledger of a card stays sound, whatever sales, refunds and visits do to it.
THEOREM LoyaltyInvariant == Spec => []IInv
BY InitInv, NextInv, PTL DEF Spec

\* The balance is always what the ledger adds up to, and a shop that clamps never owes a
\* member points.
THEOREM LoyaltyTypes == Spec => []TypeOK
<1>1. IInv => TypeOK
  <2>. SUFFICES ASSUME IInv PROVE TypeOK
    OBVIOUS
  <2>1. /\ Now.rows = rows /\ Now.balance = balance /\ Sound(Now)
        /\ rows \in Seq(RowType) /\ DOMAIN rows = 1 .. Len(rows) /\ Len(rows) \in Nat
    BY DEF IInv, Sound, Cards, Now
  <2>2. ASSUME NEW i \in DOMAIN rows
        PROVE  /\ rows[i].kind \in Kinds /\ rows[i].points \in Int \ {0}
               /\ rows[i].undoes \in 0 .. i - 1 /\ rows[i].since \in 0 .. i - 1
               /\ (rows[i].kind = "undo") = (rows[i].undoes # 0)
    <3>1. rows[i] \in RowType
      BY <2>1
    <3>2. WellWritten(rows[i], i)
      BY <2>1 DEF Sound
    <3>. QED BY <3>1, <3>2 DEF RowType, WellWritten
  <2>3. balance = LedgerTotal /\ (balance >= 0 \/ Owes)
    BY <2>1 DEF Sound, Points, LedgerTotal
  <2>4. \A o \in Orders : back[o].money \in 0 .. Total[o] /\ back[o].paid + back[o].free \in 0 .. Quantity[o]
    BY LoyaltyAssumption DEF IInv, Sales, Returns
  <2>5. Requests(Len(rows)) /\ sale \in [Orders -> {"none", "planned", "placed", "voided"}]
    BY DEF IInv, Sales
  <2>6. visit \in [Visits -> [act : Kinds, at : {"new", "asked", "done", "refused"}, since : 0 .. Len(rows)]]
    BY <2>5 DEF Requests, Kinds
  <2>. QED BY <2>2, <2>3, <2>4, <2>5, <2>6 DEF TypeOK, Requests
<1>. QED BY <1>1, LoyaltyInvariant, PTL

\* Points spent on a reward come back when the sale is voided or all its units are
\* returned, and never more of them than it cost.
THEOREM RewardsComeBack == Spec => []RewardComesBack
<1>1. IInv => RewardComesBack
  <2>. SUFFICES ASSUME IInv, NEW o \in Orders, NEW i \in Spent(Now, o)
                PROVE  /\ Undone(Now, i) <= Cost[o]
                       /\ (sale[o] = "voided" \/ back[o].paid + back[o].free = Quantity[o])
                            => Undone(Now, i) = Cost[o]
    BY DEF RewardComesBack
  <2>1. Sound(Now) /\ Rewarded(Now, o, sale[o], back[o])
    BY DEF IInv
  <2>2. Now.rows[i].points = -Cost[o] /\ Cost[o] \in Nat
    BY <2>1, LoyaltyAssumption DEF Rewarded
  <2>3. Undone(Now, i) \in 0 .. Size(Now.rows[i].points)
    BY <2>1, WrittenFacts DEF Sound
  <2>4. Undone(Now, i) <= Cost[o]
    BY <2>2, <2>3, SizeFacts
  <2>. QED BY <2>1, <2>4 DEF Rewarded
<1>. QED BY <1>1, LoyaltyInvariant, PTL

\* The replay of a sale that happened offline lands, whatever became of the points.
THEOREM ReplayedSalesLand == Spec => SaleSurvivesReward
<1>1. ASSUME IInv, [Next]_vars, NEW o \in Orders, sale[o] = "planned", judged[o].replay
      PROVE  sale'[o] # "none"
  <2>1. sale \in [Orders -> {"none", "planned", "placed", "voided"}]
    BY <1>1 DEF IInv, Sales
  <2>2. ASSUME NEW p \in Orders, Sell(p) PROVE sale'[o] # "none"
    <3>1. ASSUME Refuse(p) PROVE p # o
      <4>1. balance \in Int /\ Cost[p] \in Nat
        BY <1>1, LoyaltyAssumption DEF IInv, Sound, Cards, Now
      <4>2. PaysFor(p) => Covers(Now, -Cost[p])
        BY <4>1 DEF PaysFor, Covers, Now
      <4>3. ~PaysFor(p) /\ ~judged[p].replay
        BY <3>1, <4>2 DEF Refuse
      <4>. QED BY <1>1, <4>3
    <3>2. ASSUME Refuse(p) PROVE sale'[o] # "none"
      BY <1>1, <2>1, <3>1, <3>2 DEF Refuse
    <3>. QED BY <1>1, <2>1, <2>2, <3>2 DEF Sell, Plan, PlaceWithReward, PlaceRefused, PlacePlain
  <2>3. ASSUME NEW p \in Orders, Void(p) \/ Refunds(p) PROVE sale'[o] # "none"
    BY <1>1, <2>1, <2>3 DEF Void, Refunds, Refund
  <2>4. ASSUME UNCHANGED sale PROVE sale'[o] # "none"
    BY <1>1, <2>4
  <2>. QED BY <1>1, <2>2, <2>3, <2>4 DEF Next, Award, Press, Serve, Ask, vars
<1>2. IInv /\ [Next]_vars =>
        [\A o \in Orders : sale[o] = "planned" /\ judged[o].replay => sale'[o] # "none"]_vars
  BY <1>1
<1>. QED BY <1>2, LoyaltyInvariant, PTL DEF Spec, SaleSurvivesReward
=============================================================================
