\* Runs one after another, with losses, failures, early timeouts and runs
\* stopped by their user: whether they end and the server returns.
SPECIFICATION Spec
CONSTANTS
    sendCfg = sendCfg
    sendFull = sendFull
    sendFw = sendFw
    sendLong = sendLong
    sendOther = sendOther
    readCfg = readCfg
    readFull = readFull
    Client = {sendFull, sendFw, sendOther, readCfg}
    MailBox = 3
    Blk = 2
    MaxCfg = 4
    CfgSize = 3
    HasPartition = TRUE
    AsksCrc = {}
    MaxDrops = 2
    MaxFaults = 1
    MaxRetry = 3
    MaxEarly = 1
    MaxTroubles = 2
    MaxRuns = 2
    Patience = 2
    Sequential = TRUE
    MayKill = TRUE
    Mode <- MCMode
    Name <- MCName
    Size <- MCSize
PROPERTIES EveryRunEnds ServerReturns
CHECK_DEADLOCK FALSE
