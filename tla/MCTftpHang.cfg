\* A download that loses a datagram and an upload started meanwhile.
SPECIFICATION Spec
CONSTANTS
    sendCfg = sendCfg
    sendFull = sendFull
    sendFw = sendFw
    sendLong = sendLong
    sendOther = sendOther
    readCfg = readCfg
    readFull = readFull
    Client = {readFull, sendCfg}
    MailBox = 3
    Blk = 2
    MaxCfg = 4
    CfgSize = 3
    HasPartition = TRUE
    AsksCrc = {sendCfg}
    MaxDrops = 1
    MaxFaults = 0
    MaxRetry = 3
    MaxEarly = 0
    MaxTroubles = 2
    MaxRuns = 2
    Patience = 1
    Sequential = FALSE
    MayKill = FALSE
    Mode <- MCMode
    Name <- MCName
    Size <- MCSize
PROPERTY ServerReturns
CHECK_DEADLOCK FALSE
