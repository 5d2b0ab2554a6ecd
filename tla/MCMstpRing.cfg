SPECIFICATION Spec
CONSTANTS
    Stations = {0, 1, 2}
    Nmax_master = 2
    Nmax_info_frames = 2
    Npoll = 3
    Nretry_token = 1
    Tno_token = 4
    Tslot = 1
    Tusage_timeout = 1
    Treply_timeout = 3
    Treply_delay = 1
    MaxFaults = 0
    MaxData = 2
INVARIANTS
    OneToken
    OneTalker
PROPERTIES
    NeverLost
