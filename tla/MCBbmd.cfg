SPECIFICATION Spec
CONSTANTS
    Nodes <- MCNodes
    Subnet <- MCSubnet
    BBMDs <- MCBBMDs
    BBMD_Table <- MCUnicast
    Foreign = {"fd"}
    BBMD_Address <- MCHome
    Guests <- MCGuests
    MAX_FD_ENTRIES = 2
    BBMD_TTL_Seconds = 1
    GRACE = 2
    UINT16_MAX = 65535
    MaxFaults = 1
INVARIANTS
    NoStorm
    NotBackToItsSubnet
    OneEntryEach
    StaysRegistered
PROPERTIES
    EveryoneHears
    ComesBack
