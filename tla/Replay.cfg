\* A till with two operations and an old one with three, one of them held by both.
\* When every queue is empty nothing need happen: a run may stop.
CHECK_DEADLOCK FALSE
CONSTANTS
  a = a
  b = b
  o1 = o1
  o2 = o2
  o3 = o3
  o4 = o4
  c1 = c1
  c2 = c2
  NoOne = NoOne
  Tills = {a, b}
  Old = {b}
  Ops = {o1, o2, o3, o4}
  Unlisted = {o4}
  Money = {o2}
  Calls = {c1, c2}
  Queue <- MCQueue
  Needs <- MCNeeds
  Bars <- MCBars
  MaxBatch = 2
  RetryAttempts = 2
  MaxFaults = 2

SPECIFICATION Spec

INVARIANTS
  TypeOK
  AppliedOnce
  NothingLost

PROPERTIES
  DeliversAsPromised
  Drains
