CONSTANTS
    Handles = {1, 2}
    TxRoom = 2
    MaxFaults = 1
    MaxRefused = 1
SPECIFICATION FairSpec
PROPERTY DisconnectIsFinal
CHECK_DEADLOCK FALSE
