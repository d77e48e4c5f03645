\* OCSE acks a config response once: tlx_cfg_resp_ack is driven but never
\* cleared (afu_driver.c:747), so tlx_cfg0_resp_ack stays high on every
\* later clock-only cycle.  A reproducer of the hazard at line 747.
CONSTANTS
    p1 = p1
    p2 = p2
    p3 = p3
    NULL = NULL
    Ptr <- MC_Ptr
    RespDl <- MC_RespDl
    RdCntBeats <- MC_RdCntBeats
    MaxBeats = 2
    CmdData <- MC_CmdData
    OcseCmds = {"none"}
    AfuResps = {"none"}
    AfuCfgResps = {FALSE}
    AfuObeysRdCnt = TRUE
    AfuRespCollide = FALSE
    OcseReturns = {"cfg_ack"}
SPECIFICATION Spec
PROPERTY ReturnsPresentedOnce
