\* A transfer, a stocktake and an order at one bin, with a sale and a waste.
\* When every document has ended nothing more need happen: a run may stop.
CHECK_DEADLOCK FALSE
CONSTANTS
  u1 = u1
  u2 = u2
  b1 = b1
  b2 = b2
  t1 = t1
  s1 = s1
  p = p
  q = q
  x = x
  y = y
  None = None
  Users = {u1, u2}
  Bins = {b1, b2}
  Transfers = {t1}
  Counts = {s1}
  Orders = {p}
  Outs = {x, y}
  Sales = {x}
  Checked = {y}
  From <- MCFrom
  To <- MCTo
  InScope <- MCInScope
  Into <- MCInto
  Ordered <- MCOrdered
  OutOf <- MCOutOf
  Opening <- MCOpening
  MaxQty = 2
  MaxCount = 1

SPECIFICATION Spec
SYMMETRY Symmetry

INVARIANTS
  TypeOK
  TransferBalances
  ReceivedWithinOrder

PROPERTIES
  CountStands
  OnlyUncheckedOverdraw
