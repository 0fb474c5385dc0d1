\* Remotely managed process: the protocol refines its abstract specification.
CONSTANTS
    c1 = c1
    c2 = c2
    d1 = d1
    d2 = d2
    dBad = dBad
    ParseErr = ParseErr
    Configs <- MCConfigs
    Drafts <- MCDrafts
    Parse <- MCParse
    ParseError <- ParseErr
    InitConfig = c1
    IsLocal = FALSE
    ChanCap = 2
    MaxRequests = 3

SPECIFICATION Spec

PROPERTY Refinement


\* The process really stops: after a signal the main loop and the runtime end.
CHECK_DEADLOCK FALSE
