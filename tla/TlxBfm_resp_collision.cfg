\* The AFU drives an AFU response and a config response in the same cycle:
\* only one response reaches OCSE.
CONSTANTS
    p1 = p1
    p2 = p2
    p3 = p3
    NULL = NULL
    Ptr <- MC_Ptr
    RespDl <- MC_RespDl
    RdCntBeats <- MC_RdCntBeats
    MaxBeats = 2
    CmdData = {}
    OcseCmds = {"none"}
    AfuResps = {"none", "resp", "resp_data", "rdata"}
    AfuCfgResps = {FALSE, TRUE}
    AfuObeysRdCnt = TRUE
    AfuRespCollide = TRUE
    OcseReturns = {}
SPECIFICATION Spec
INVARIANT RespForwarded
