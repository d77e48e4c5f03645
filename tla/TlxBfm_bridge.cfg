\* The bridge with responses of 1-2 beats, config and AFU commands with data,
\* and a protocol-abiding AFU: list shape, FIFO refinement, delivery of
\* every requested beat, and one-cycle pulses.
CONSTANTS
    p1 = p1
    p2 = p2
    p3 = p3
    NULL = NULL
    Ptr <- MC_Ptr
    RespDl <- MC_RespDl
    RdCntBeats <- MC_RdCntBeats
    MaxBeats = 2
    CmdData <- MC_CmdData
    OcseCmds = {"none", "cfg", "mem"}
    AfuResps = {"none"}
    AfuCfgResps = {FALSE}
    AfuObeysRdCnt = TRUE
    AfuRespCollide = FALSE
    OcseReturns = {"resp_credit"}
SPECIFICATION Spec
INVARIANT TypeOK
INVARIANT ListWellFormed
PROPERTY PulsesLastOneCycle
PROPERTY RdataQueueRefined
PROPERTY RequestedBeatsDelivered
PROPERTY ReturnsPresentedOnce
