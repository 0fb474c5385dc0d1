\* Remotely managed process: set_config may reload the configuration.
CONSTANTS
    c1 = c1
    c2 = c2
    d1 = d1
    d2 = d2
    dBad = dBad
    ParseErr = ParseErr
    Configs <- MCConfigs
    Drafts <- MCDrafts
    Parse <- MCParse
    ParseError <- ParseErr
    InitConfig = c1
    IsLocal = FALSE
    ChanCap = 1
    MaxRequests = 3

SPECIFICATION FairSpec

INVARIANT ReconfigInv
INVARIANT ReloadAtMostOnce
INVARIANT DraftLostOnlyBySignal
PROPERTY AcceptedEventuallyReceived
PROPERTY SignalTakesEffect

\* The process really stops: after a signal the main loop and the runtime end.
CHECK_DEADLOCK FALSE
