\* An AFU that asks for more beats than have arrived: the drain
\* dereferences a NULL rdata_head.
CONSTANTS
    p1 = p1
    p2 = p2
    p3 = p3
    NULL = NULL
    Ptr <- MC_Ptr
    RespDl <- MC_RespDl
    RdCntBeats <- MC_RdCntBeats
    MaxBeats = 2
    CmdData = {}
    OcseCmds = {"none"}
    AfuResps = {"none"}
    AfuCfgResps = {FALSE}
    AfuObeysRdCnt = FALSE
    AfuRespCollide = FALSE
    OcseReturns = {}
SPECIFICATION Spec
INVARIANT NoNullHeadDrain
