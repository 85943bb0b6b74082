SPECIFICATION Spec
CONSTANTS
  Handlers = {h1, h2, h3}
  Janitor = Janitor
  Closer = Closer
  Keys = {k1}
  Leases = {anonymous, l1}
  Anonymous = anonymous
  EmptyLease = EmptyLease
  Conns = {c1, c2}
  IdleTimeout = 1
  MaxTime = 1
  None = None
SYMMETRY Symmetry
INVARIANTS
  TypeOK ActiveCountsUsers InUseStaysPooled SoleOwner SingleFlight NoOrphan
  WaitersHaveCreator
PROPERTIES
  ImplementsSharedClients LeasedClientKept
