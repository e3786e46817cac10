\* One transfer, the station losing and getting its address meanwhile.
SPECIFICATION Spec
CONSTANTS
    loadFW = loadFW
    loadCfg = loadCfg
    sendCfg = sendCfg
    Firmware = loadFW
    Load = {loadFW, loadCfg}
    Job = {loadFW, loadCfg, sendCfg}
    Total <- MCTotal
    Limit <- MCLimit
    Task = {"main", "event"}
    Cols = 2
    Rows = 8
    Bits = 2
    CharCols = 1
    ApRow = 0
    StaRow = 3
    MsgRow = 5
    PiStart = 6
    Blk = 2
    Word32 = 64
    MaxRetry = 1
    MaxIps = 1
    MaxTransfers = 1
INVARIANTS TypeOK BarShowsTicks TicksKeepPace StationGivesUpLate
PROPERTIES ApStays
ACTION_CONSTRAINT QuietStation
CONSTRAINT OneBoot
