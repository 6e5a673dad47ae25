\* One bill of two rounds of one line each.
\* A paid or voided bill asks for nothing more: a run may stop.
CHECK_DEADLOCK FALSE
CONSTANTS
  w1 = w1
  w2 = w2
  b1 = b1
  r1 = r1
  r2 = r2
  l1 = l1
  l2 = l2
  c1 = c1
  NoOne = NoOne
  Workers = {w1, w2}
  Bills = {b1}
  Rounds = {r1, r2}
  RoundBill <- OnB1
  Openers = {r1}
  Lines = {l1, l2}
  LineRound <- LinesOf
  Routed = {l1}
  Modes = {"kds", "till"}
  Customers = {}
SPECIFICATION Spec
INVARIANTS
  PaidInFull
