\* One bill of two rounds, a line each: the first goes to the kitchen, the second
\* has no station; a customer to name on the bill or at the till.
\* A paid or voided bill asks for nothing more: a run may stop.
CHECK_DEADLOCK FALSE
CONSTANTS
  w1 = w1
  w2 = w2
  b1 = b1
  r1 = r1
  r2 = r2
  l1 = l1
  l2 = l2
  c1 = c1
  NoOne = NoOne
  Workers = {w1, w2}
  Bills = {b1}
  Rounds = {r1, r2}
  RoundBill <- OnB1
  Openers = {r1}
  Lines = {l1, l2}
  LineRound <- LinesOf
  Routed = {l1}
  Modes = {"off", "kds", "till"}
  Customers = {c1}
SPECIFICATION Spec
SYMMETRY Symmetry
INVARIANTS
  TypeOK
  SubtotalIsLive
  ReadyIsClosed
  CustomerReachesSale
PROPERTIES
  FirstCloseWins
