\* OCSE sends config and memory commands in consecutive cycles: the shared
\* countdown keeps the first command's valid pin high through the second.
CONSTANTS
    p1 = p1
    p2 = p2
    p3 = p3
    NULL = NULL
    Ptr <- MC_Ptr
    RespDl <- MC_RespDl
    RdCntBeats <- MC_RdCntBeats
    MaxBeats = 2
    CmdData <- MC_CmdData
    OcseCmds = {"none", "cfg", "mem"}
    AfuResps = {"none"}
    AfuCfgResps = {FALSE}
    AfuObeysRdCnt = TRUE
    AfuRespCollide = FALSE
    OcseReturns = {}
SPECIFICATION Spec
PROPERTY CmdPulsesOncePerCommand
