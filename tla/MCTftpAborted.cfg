\* A partition upload that its user stops. Nothing is lost.
SPECIFICATION Spec
CONSTANTS
    sendCfg = sendCfg
    sendFull = sendFull
    sendFw = sendFw
    sendLong = sendLong
    sendOther = sendOther
    readCfg = readCfg
    readFull = readFull
    Client = {sendFull}
    MailBox = 3
    Blk = 2
    MaxCfg = 4
    CfgSize = 3
    HasPartition = TRUE
    AsksCrc = {}
    MaxDrops = 0
    MaxFaults = 0
    MaxRetry = 3
    MaxEarly = 0
    MaxTroubles = 2
    MaxRuns = 1
    Patience = 1
    Sequential = TRUE
    MayKill = TRUE
    Mode <- MCMode
    Name <- MCName
    Size <- MCSize
INVARIANT PartitionIsWhole
CHECK_DEADLOCK FALSE
