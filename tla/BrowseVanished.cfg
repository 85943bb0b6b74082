SPECIFICATION Spec
CONSTANTS
  u1 = u1
  u2 = u2
  s1 = s1
  user = user
  session = session
  Keys <- MCKeys
  Types = {string}
  Expiries <- MCExpiries
  Nodes = {n1}
  Buckets = 3
  Bucket <- MCBucket
  Prefix <- MCPrefix
  Limit = 4
  GroupCap = 2
  MaxChanges = 1
  Gone = Gone
INVARIANT VanishedKeysDropped
CHECK_DEADLOCK FALSE
