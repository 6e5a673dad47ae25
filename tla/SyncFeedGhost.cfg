\* A pull that meets a purge before its watermark.
CONSTANTS
  e1 = e1
  e2 = e2
  s1 = s1
  s2 = s2
  d1 = d1
  Entities = {e1, e2}
  TimeBased = {e1, e2}
  Ageable = {e1, e2}
  Sessions = {s1}
  Devices = {d1}
  Limit = 1
  MaxSeq = 3
SPECIFICATION Spec
INVARIANTS
  NoGhost
