\* Process started from a local config file (Args::is_local()).
CONSTANTS
    c1 = c1
    c2 = c2
    d1 = d1
    d2 = d2
    dBad = dBad
    ParseErr = ParseErr
    Configs <- MCConfigs
    Drafts <- MCDrafts
    Parse <- MCParse
    ParseError <- ParseErr
    InitConfig = c1
    IsLocal = TRUE
    ChanCap = 1
    MaxRequests = 3

SPECIFICATION Spec

INVARIANT ReloadProvenance

\* The process really stops: after a signal the main loop and the runtime end.
CHECK_DEADLOCK FALSE
