SPECIFICATION FairSpec
CONSTANTS
  Handlers = {h1, h2}
  Janitor = Janitor
  Closer = Closer
  Keys = {k1}
  Leases = {anonymous}
  Anonymous = anonymous
  EmptyLease = EmptyLease
  Conns = {c1, c2}
  IdleTimeout = 1
  MaxTime = 1
  None = None
PROPERTIES WaiterWakes CallsEnd ShutdownCloses IdleClientsEvicted
