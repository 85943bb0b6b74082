SPECIFICATION MCSpec
CONSTANTS
    None = None
    Nil = Nil
    New = New
    h1 = h1
    Listed = {a}
    HostOf <- MCHostOf
    Hosts = {h1}
    d1 = d1
    d2 = d2
    Fields = {d1, d2}
    FieldOf <- MCFieldOf
    MaxManual = 2
    MaxPolls = 0
    MaxOpen = 1
    MaxStray = 0
    Queried = {h1}
    Conns = {c1, c2}
    Namespaces = {n1, n2}
    MaxRenders = 3
    MaxChoices = 2
INVARIANTS PendingIsOwn SetsOfConnection
PROPERTY RerunKeepsLease
CHECK_DEADLOCK FALSE
