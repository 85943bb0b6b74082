SPECIFICATION FairSpec
CONSTANTS
  u1 = u1
  u2 = u2
  s1 = s1
  user = user
  session = session
  Keys <- MCKeys
  Types = {string}
  Expiries <- MCPersistent
  Nodes = {n1, n2}
  Buckets = 3
  Bucket <- MCBucket
  Prefix <- MCPrefix
  Limit = 3
  GroupCap = 1
  MaxChanges = 2
  Gone = Gone
INVARIANTS ListedOnce SteadyKeysShown
PROPERTY BrowseEnds
CHECK_DEADLOCK FALSE
