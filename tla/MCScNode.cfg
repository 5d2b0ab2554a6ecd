CONSTANTS
    Handles = {1, 2}
    TxRoom = 2
    MaxFaults = 2
    MaxRefused = 1
SPECIFICATION FairSpec
INVARIANTS ConnectorMatchesSocket WorkerPerSocket
PROPERTIES Reconnects StopEnds Flushed
CHECK_DEADLOCK FALSE
