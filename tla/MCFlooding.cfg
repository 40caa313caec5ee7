SPECIFICATION Spec
INVARIANTS
    TypeOK
    DeletedAreOwn
    OneCopy
    QueuedAreOwn
    RequestsAreOpen
    ResendsAreCurrent
PROPERTIES
    DatabaseImplementsStore
SYMMETRY Symmetry
CONSTANTS
    SeqMod = 8
    ChecksumMod = 2
    AgeMod = 5
    MAX_AGE = 4
    MAX_AGE_DIFF = 3
    AgeCap = 1
    Me = 8
    Key <- MCKey
    Chunk = {c1, c2, c3}
    Junk = Junk
    p1 = p1
    p2 = p2
    Peer = {p1, p2}
    Outcome <- MCOutcome
    MyIp = MyIp
    NoIp = NoIp
    OwnRouter <- MCOwnRouter
    OwnNetwork <- MCOwnNetwork
    InitialSeq = 5
    MaxOriginated = 2
    WireLsa <- MCWireLsa
    DDHeader <- MCDDHeader
    NoLsa = NoLsa
