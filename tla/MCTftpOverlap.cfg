\* Runs that overlap, with an early timeout.
SPECIFICATION Spec
CONSTANTS
    sendCfg = sendCfg
    sendFull = sendFull
    sendFw = sendFw
    sendLong = sendLong
    sendOther = sendOther
    readCfg = readCfg
    readFull = readFull
    Client = {sendFull, sendCfg, readCfg}
    MailBox = 3
    Blk = 2
    MaxCfg = 4
    CfgSize = 3
    HasPartition = TRUE
    AsksCrc = {sendCfg}
    MaxDrops = 0
    MaxFaults = 1
    MaxRetry = 2
    MaxEarly = 1
    MaxTroubles = 1
    MaxRuns = 3
    Patience = 1
    Sequential = FALSE
    MayKill = FALSE
    Mode <- MCMode
    Name <- MCName
    Size <- MCSize
INVARIANT DownloadIsPrefix
PROPERTIES EveryRunEnds
CHECK_DEADLOCK FALSE
