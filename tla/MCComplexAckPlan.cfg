SPECIFICATION PlanSpec
CONSTANTS
    HeaderSegmented = 5
    HeaderUnsegmented = 3
    MAX_APDU = 12
    MAX_SEGMENTS_ACCEPTED = 6
    WORD = 65536
    MaxSegsSpecified = 8
    Lengths <- MCLengths
    MaxResponses = {0, 8, 11, 12, 20}
    MaxSegs = {0, 2, 4, 8, 9}
INVARIANTS PacketsTile WithinClientLimits
CHECK_DEADLOCK FALSE
