SPECIFICATION Spec
INVARIANTS
    InStep
    ExchangeIsComplete
    OnlyEmptyDDHangs
PROPERTY RouterImplementsNeighbor
CONSTANTS
    a = a
    b = b
    x = x
    NoPacket = NoPacket
    NoThread = NoThread
    TheSender = t
    Router = {1, 2}
    Header <- MCHeader
    NetworkLsa = {x}
    Database <- MCDatabase
    OwnLsa <- MCOwnLsa
    DDPacket <- MCDDPacket
    Options = {E}
    MyOptions = E
    MaxHdrs = 1
    Byte = 2
    Capacity = 3
    Lossy = TRUE
CHECK_DEADLOCK FALSE
