\* The instance of Loyalty.cfg, for one property.
\* When every sale has been given back nothing more need happen: a run may stop.
CHECK_DEADLOCK FALSE
CONSTANTS
  o1 = o1
  o2 = o2
  p = p
  v = v
  w = w
  k = k
  None = None
  Orders = {o1, o2}
  Worth <- MCWorth
  Cost <- MCCost
  Units <- MCUnits
  Quantity <- MCQuantity
  Total <- MCTotal
  Presses = {p}
  Visits = {v, w}
  Acts <- MCActs
  Key <- MCKey
  Stamps = 1
  CardSize = 2
  Correction <- MCCorrection
  Gift = 1
  Cap = 2
  Owes = FALSE

SPECIFICATION Spec

PROPERTIES
  VoidedEarnsNothing
