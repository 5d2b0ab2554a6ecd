SPECIFICATION CovSpec
CONSTANTS
    HeaderSegmented = 2
    HeaderUnsegmented = 1
    MAX_APDU = 3
    MAX_SEGMENTS_ACCEPTED = 2
    WORD = 1024
    MaxSegsSpecified = 4
    MAX_TSM_TRANSACTIONS = 1
    MAX_TSM_PEERS = 1
    MAX_INVOKE_ID = 1
    p1 = p1
    p2 = p2
    o1 = o1
    o2 = o2
    Address = {p1, p2}
    NoAddress = NoAddress
    PeerInvokeID = {1}
    SEQ = 3
    ApduTimeout = 1
    SegTimeout = 1
    TIMER = 16
    BYTE = 4
    Retries = 0
    Windows = {1}
    MaxWindow = 1
    MaxPending = 1
    Service <- MCService
    MAX_COV_SUBCRIPTIONS = 2
    MAX_COV_ADDRESSES = 2
    Requests <- MCRequests
    Minutes = {0, 1}
    MinuteSeconds = 1
INVARIANTS AddressesShared SlotsHeld NoChangeLost
PROPERTY EveryoneTold
