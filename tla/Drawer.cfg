\* Two tills, a pay-out and two corrections, refunds of one sale from both tills,
\* one of them from a device's queue.
\* The keys are used up in the end: a run may stop.
CHECK_DEADLOCK FALSE
CONSTANTS
  w1 = w1
  w2 = w2
  t1 = t1
  t2 = t2
  s1 = s1
  s2 = s2
  m1 = m1
  m2 = m2
  m3 = m3
  r1 = r1
  r2 = r2
  NoTill = NoTill
  NoMove = NoMove
  Workers = {w1, w2}
  SaleTill <- EachItsTill
  SaleMethod <- AllCard
  Total <- TwoUnits
  MoveTill <- MoveOnT1
  Corrects <- UndoesM1
  RefundTill <- RefundsFrom
  RefundSale <- RefundsOfS1
  RefundMethod <- RefundsIn
  RefundAmount <- RefundsPay
  Tills = {t1, t2}
  Sales = {s1}
  Moves = {m1, m2, m3}
  Refunds = {r1, r2}
  Queued = {r2}
SPECIFICATION FairSpec
INVARIANTS
  TypeOK
  NothingLeftOut
  VoidedOnce
  RefundsWithinSale
PROPERTIES
  ActsAtomically
  FirstCloseStands
  EveryRequestAnswered
