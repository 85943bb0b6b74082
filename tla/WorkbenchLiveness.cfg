SPECIFICATION LiveSpec
CONSTANTS
    None = None
    Nil = Nil
    New = New
    h1 = h1
    Listed = {a}
    HostOf <- MCHostOf
    Hosts = {h1}
    d1 = d1
    d2 = d1
    Fields = {d1}
    FieldOf <- MCFieldOf
    MaxManual = 1
    MaxPolls = 2
    MaxOpen = 1
    MaxStray = 1
    Queried = {}
    Conns = {c1, c2}
    Namespaces = {n1, n2}
    MaxRenders = 3
    MaxChoices = 2
PROPERTY RailConverges
