----------------------------- MODULE MC_TlxBfm -----------------------------
(***************************************************************************)
(* Model-checking instance of TlxBfm: three heap addresses, at most two    *)
(* beats per behaviour (the cfgs set MaxBeats = 2), responses of one or    *)
(* two beats (dl codes 1 and 2), read-count requests of one or two beats,  *)
(* one config data word.                                                   *)
(***************************************************************************)
EXTENDS TlxBfm

CONSTANTS p1, p2, p3

MC_Ptr == {p1, p2, p3}
MC_RespDl == {1, 2}
MC_RdCntBeats == {1, 2}
MC_CmdData == {5}

=============================================================================
