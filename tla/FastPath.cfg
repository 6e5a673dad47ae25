\* One instance, a read, a writer, a lost listener; writers stop in the end.
CONSTANTS
  i1 = i1
  i2 = i2
  feed = feed
  grants = grants
  o1 = o1
  o2 = o2
  r1 = r1
  r2 = r2
  w1 = w1
  w2 = w2
  Instances = {i1}
  Facts = {feed, grants}
  Authz = {grants}
  Feeds = {feed}
  Orgs = {o1, o2}
  OrgOf <- TwoOrgs
  NoOrg = NoOrg
  Idle = Idle
  NoEntry = NoEntry
  Readers = {r1}
  Writers = {w1, w2}
  MaxCommits = 2
  MaxSessions = 2
SPECIFICATION FairSpec
INVARIANTS
  TypeOK
  StaleOnlyInFlight
  OwnWritesServed
  NudgedReadIsFresh
PROPERTIES
  FreshInTheEnd
