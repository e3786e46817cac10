\* A partition download that loses one datagram.
SPECIFICATION Spec
CONSTANTS
    sendCfg = sendCfg
    sendFull = sendFull
    sendFw = sendFw
    sendLong = sendLong
    sendOther = sendOther
    readCfg = readCfg
    readFull = readFull
    Client = {readFull}
    MailBox = 3
    Blk = 2
    MaxCfg = 4
    CfgSize = 3
    HasPartition = TRUE
    AsksCrc = {}
    MaxDrops = 1
    MaxFaults = 0
    MaxRetry = 3
    MaxEarly = 0
    MaxTroubles = 2
    MaxRuns = 1
    Patience = 1
    Sequential = TRUE
    MayKill = FALSE
    Mode <- MCMode
    Name <- MCName
    Size <- MCSize
PROPERTY DownloadSurvivesLoss
CHECK_DEADLOCK FALSE
