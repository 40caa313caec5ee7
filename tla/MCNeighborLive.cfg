SPECIFICATION FairSpec
PROPERTIES
    InactivityCompletes
    SilentPeerDownOrHung
CONSTANTS
    r1 = r1
    r2 = r2
    bad = bad
    NoPacket = NoPacket
    NoThread = NoThread
    Senders = {t1, t2}
    Header <- MCHeader
    BadHeader <- MCBadHeader
    RouterId <- LiveRouterId
    MyRouterId = 2
    Databases <- LiveDatabases
    DDPacket <- LiveDDPacket
    OwnHeader <- MCOwnHeader
    Options = {E}
    MyOptions = E
    MaxHdrs = 1
    SeqMod = 2
CHECK_DEADLOCK FALSE
