\* One run after another, of every kind, with losses, early timeouts, runs
\* stopped by their user and runs begun in haste.
SPECIFICATION Spec
CONSTANTS
    sendCfg = sendCfg
    sendFull = sendFull
    sendFw = sendFw
    sendLong = sendLong
    sendOther = sendOther
    readCfg = readCfg
    readFull = readFull
    Client = {sendCfg, sendFull, sendFw, sendLong, sendOther, readCfg, readFull}
    MailBox = 3
    Blk = 2
    MaxCfg = 4
    CfgSize = 3
    HasPartition = TRUE
    AsksCrc = {sendCfg}
    MaxDrops = 2
    MaxFaults = 1
    MaxRetry = 3
    MaxEarly = 1
    MaxTroubles = 2
    MaxRuns = 2
    Patience = 2
    Sequential = TRUE
    MayKill = TRUE
    Mode <- MCMode
    Name <- MCName
    Size <- MCSize
INVARIANTS TypeOK UploadIsPrefix DownloadIsPrefix StoredIsOneFile
PROPERTIES NoSpuriousFailure UploadSurvivesLoss CompleteIsWhole ImplementsService
CHECK_DEADLOCK FALSE
