SPECIFICATION RequestSpec
CONSTANTS
    HeaderSegmented = 2
    HeaderUnsegmented = 1
    MAX_APDU = 3
    MAX_SEGMENTS_ACCEPTED = 3
    WORD = 1024
    MaxSegsSpecified = 4
    MAX_TSM_TRANSACTIONS = 1
    MAX_TSM_PEERS = 1
    MAX_INVOKE_ID = 1
    Address = {p1}
    NoAddress = NoAddress
    PeerInvokeID = {1}
    SEQ = 8
    ApduTimeout = 4
    SegTimeout = 1
    TIMER = 16
    BYTE = 4
    Retries = 3
    Windows = {0, 1, 2, 3}
    MaxWindow = 3
    MaxPending = 1
    Service <- MCService
    Client = p1
    ClientInvokeID = 1
    Total = 3
    ProposedWindow = 2
    Handling <- MCHandling
INVARIANT ServedWhole
PROPERTY ImplementsTransfer
