SPECIFICATION Spec
CONSTANTS
    Stations = {0, 1}
    Nmax_master = 2
    Nmax_info_frames = 1
    Npoll = 3
    Nretry_token = 1
    Tno_token = 4
    Tslot = 1
    Tusage_timeout = 1
    Treply_timeout = 3
    Treply_delay = 1
    MaxFaults = 2
    MaxData = 1
INVARIANTS
    TypeOK
PROPERTIES
    RingRecovers
