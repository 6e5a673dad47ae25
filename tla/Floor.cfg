\* Two tables, two bills, a party and a transfer request.
\* When every bill has ended nothing more need happen: a run may stop.
CHECK_DEADLOCK FALSE
CONSTANTS
  w1 = w1
  w2 = w2
  t1 = t1
  t2 = t2
  b1 = b1
  b2 = b2
  p1 = p1
  x1 = x1
  Nobody = Nobody
  Workers = {w1, w2}
  Tables = {t1, t2}
  Bills = {b1, b2}
  Parties = {p1}
  Wishes = {x1}
  Wished <- WishesT2
SPECIFICATION Spec
SYMMETRY Symmetry
INVARIANTS
  TypeOK
  BillAtItsTable
PROPERTIES
  OnlyTransferUnseats
  WishResolvesOnce
