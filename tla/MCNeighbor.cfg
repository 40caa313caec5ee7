SPECIFICATION Spec
INVARIANTS
    TypeOK
    JoinsHaveTargets
    ExstartHasSender
    ListsEmptyBelowExchange
    PopsWhatItSent
    AdjacentIffWanted
    NoSenderIn2Way
PROPERTY HangIsPermanent
CONSTANTS
    r1 = r1
    r2 = r2
    bad = bad
    NoPacket = NoPacket
    NoThread = NoThread
    Senders = {t1, t2}
    Header <- MCHeader
    BadHeader <- MCBadHeader
    RouterId <- MCRouterId
    MyRouterId = 2
    Databases <- MCDatabases
    DDPacket <- MCDDPacket
    OwnHeader <- MCOwnHeader
    Options = {E}
    MyOptions = E
    MaxHdrs = 1
    SeqMod = 2
SYMMETRY Symmetric
CHECK_DEADLOCK FALSE
