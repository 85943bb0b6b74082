SPECIFICATION FairLifecycle
CONSTANTS
  Handlers = {h1, h2}
  Janitor = Janitor
  Closer = Closer
  a1 = a1
  r1 = r1
  Keys = {a1}
  Leases = {anonymous}
  Anonymous = anonymous
  EmptyLease = EmptyLease
  Conns = {c1}
  IdleTimeout = 1
  MaxTime = 0
  None = None
  Tool <- MCTool
  MaxStrays = 1
PROPERTIES RequestsEnd AbortEndsQuery
