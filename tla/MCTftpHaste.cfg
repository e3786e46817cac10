\* An upload that its user stops, and the next right after it. Nothing is lost.
SPECIFICATION Spec
CONSTANTS
    sendCfg = sendCfg
    sendFull = sendFull
    sendFw = sendFw
    sendLong = sendLong
    sendOther = sendOther
    readCfg = readCfg
    readFull = readFull
    Client = {sendFull, sendCfg}
    MailBox = 3
    Blk = 2
    MaxCfg = 4
    CfgSize = 3
    HasPartition = TRUE
    AsksCrc = {sendCfg}
    MaxDrops = 0
    MaxFaults = 0
    MaxRetry = 3
    MaxEarly = 0
    MaxTroubles = 2
    MaxRuns = 2
    Patience = 1
    Sequential = TRUE
    MayKill = TRUE
    Mode <- MCMode
    Name <- MCName
    Size <- MCSize
PROPERTY RepeatIsSameClient
CHECK_DEADLOCK FALSE
