\* Two orders into one empty bin, a transfer and a stocktake.
\* When every document has ended nothing more need happen: a run may stop.
CHECK_DEADLOCK FALSE
CONSTANTS
  u1 = u1
  u2 = u2
  b1 = b1
  b2 = b2
  t1 = t1
  s1 = s1
  p = p
  q = q
  x = x
  y = y
  None = None
  Users = {u1, u2}
  Bins = {b1, b2}
  Transfers = {t1}
  Counts = {s1}
  Orders = {p, q}
  Outs = {}
  Sales = {}
  Checked = {}
  From <- MCFrom
  To <- MCTo
  InScope <- MCInScope
  Into <- MCInto
  Ordered <- MCOrdered
  OutOf <- MCOutOf
  Opening <- Empty
  MaxQty = 2
  MaxCount = 2

SPECIFICATION Spec

INVARIANTS
  AverageCoversAll
