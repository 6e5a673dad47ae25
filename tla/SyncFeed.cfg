\* Every interleaving of two transactions, the sweeper and one device.
CONSTANTS
  e1 = e1
  e2 = e2
  s1 = s1
  s2 = s2
  d1 = d1
  Entities = {e1, e2}
  TimeBased = {e1}
  Ageable = {e1}
  Sessions = {s1, s2}
  Devices = {d1}
  Limit = 1
  MaxSeq = 4
SPECIFICATION FairSpec
INVARIANTS
  TypeOK
  NoSkippedChange
PROPERTIES
  NeverOlder
  MismatchIsExplained
  MeetsContract
  Converges
