SPECIFICATION Spec
CONSTANTS
    HeaderSegmented = 2
    HeaderUnsegmented = 1
    MAX_APDU = 3
    MAX_SEGMENTS_ACCEPTED = 2
    WORD = 1024
    MaxSegsSpecified = 4
    MAX_TSM_TRANSACTIONS = 2
    MAX_TSM_PEERS = 2
    MAX_INVOKE_ID = 3
    Address = {p1, p2}
    NoAddress = NoAddress
    PeerInvokeID = {1}
    SEQ = 3
    ApduTimeout = 4
    SegTimeout = 1
    TIMER = 16
    BYTE = 4
    Retries = 2
    Windows = {0, 1}
    MaxWindow = 1
    MaxPending = 1
    Service <- MCServiceTwo
SYMMETRY MCSymmetry
INVARIANT KeepsTheCopy
