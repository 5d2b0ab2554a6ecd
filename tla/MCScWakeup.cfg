CONSTANTS
    Handles = {1, 2}
    TxRoom = 2
    MaxFaults = 1
    MaxRefused = 1
SPECIFICATION Spec
INVARIANT WakeupKept
CHECK_DEADLOCK FALSE
