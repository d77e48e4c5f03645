------------------------------- MODULE TlxBfm -------------------------------
(***************************************************************************)
(* The TLX bus-functional bridge of afu_driver.c: the function tlx_bfm,   *)
(* called by the hardware simulator on every edge of tlx_clock.  On the    *)
(* rising edge (tlx_control) it blocks on the socket until OCSE sends the  *)
(* next clock event, which fills the shared AFU_EVENT structure.  On the   *)
(* falling edge it samples the AFU's output pins, forwards them to OCSE,   *)
(* and drives the TLX-to-AFU pins from the event structure:                *)
(*   - responses, whose data beats are split into a malloc'ed linked list *)
(*     (rdata_head/rdata_tail) and drained one beat per cycle while the   *)
(*     AFU's accumulated read count (rdata_rd_cnt) is positive;            *)
(*   - commands, on the config interface (cfg0) or the AFU interface;      *)
(*   - command data, and a config write's data one cycle late on the cfg0 *)
(*     data bus;                                                           *)
(*   - every valid pin is held for CLOCK_EDGE_DELAY calls by a countdown.  *)
(* All of it is gated by a two-call delayed copy of reset.                 *)
(*                                                                         *)
(* Data is abstracted: a beat is a number naming it, a command payload a   *)
(* member of CmdData.  OCSE (the peer, whose event encoding lives in       *)
(* tlx_interface.c, not in this repository) and the AFU hardware are the   *)
(* environment, chosen with \E in each step.                               *)
(***************************************************************************)
EXTENDS Naturals, Sequences, FiniteSets, Functions

CONSTANTS
    Ptr,            \* addresses malloc may return for a packet
    NULL,
    MaxBeats,       \* bound on the beats OCSE sends in one behaviour
    RespDl,         \* beat counts decode_dl may yield for a response
    RdCntBeats,     \* beat counts decode_rd_cnt may yield for a request
    CmdData,        \* command payloads (non-zero 32-bit words)
    OcseCmds,       \* the command kinds OCSE may send
    AfuResps,       \* what the AFU may drive on its response interface
    AfuCfgResps,    \* whether the AFU may drive a config response
    AfuObeysRdCnt,  \* the AFU asks only for beats that have arrived
    AfuRespCollide, \* the AFU may drive a response and a config response together
    OcseReturns     \* the credit returns and config response ack OCSE may send

ASSUME NULL \notin Ptr
ASSUME MaxBeats \in Nat /\ RespDl \subseteq 1..MaxBeats /\ RdCntBeats \subseteq Nat \ {0}
ASSUME 0 \notin CmdData
ASSUME OcseCmds \subseteq {"none", "cfg", "mem"} /\ "none" \in OcseCmds

NoData == 0

\* Variant holding every valid pin for one call more.
CLOCK_EDGE_DELAY_LONG == 3

CLOCK_EDGE_DELAY == 2

\* the countdowns clk_afu_resp_val, clk_afu_cmd_val, clk_afu_resp_dat_val, clk_afu_cmd_dat_val
Counters == {"resp", "cmd", "rdata", "cdata"}

\* the valid pins, and c_config_cmd_data_valid, which the cmd countdown also clears
Valids == {"resp", "cmd", "cfg0", "cfgdata", "rdata", "cdata"}

\* what the AFU drives on its response interface in one cycle: nothing, a
\* response header, a header with its first data beat, or a data beat alone
\* (a later beat of a multi-beat response, afu_tlx_rdata_valid only)
AfuRespKinds == {"none", "resp", "resp_data", "rdata"}
\* the four credit-return flags of the event, and the config response ack
Credits == {"resp_credit", "resp_data_credit", "cmd_credit", "cmd_data_credit"}
Returns == Credits \cup {"cfg_ack"}
ASSUME OcseReturns \subseteq Returns

ASSUME AfuResps \subseteq AfuRespKinds /\ "none" \in AfuResps
ASSUME AfuCfgResps \subseteq BOOLEAN /\ FALSE \in AfuCfgResps

VARIABLES
    clk,            \* level of tlx_clock at the next call of tlx_bfm
    reset,          \* the reset input
    resetD1,        \* c_reset_d1
    resetD2,        \* c_reset_d2
    connected,      \* OCSE still holds the socket open
    simError,       \* c_sim_error
    crashed,        \* the simulator process died on a NULL dereference
    ev,             \* the TLX-to-AFU half of the AFU_EVENT structure
    rq,             \* the response-data list: heap, rdata_head, rdata_tail, rdata_rd_cnt
    nextBeat,       \* beats created so far (names the next one)
    cnt,            \* the pulse countdowns
    pin,            \* the valid pins driven to the AFU
    rdataBus,       \* the beat on tlx_afu_resp_data_bus
    rdataBdi,       \* tlx_afu_resp_data_bdi
    cfgDataDel,     \* c_tlx_afu_cmd_data_del
    cfg0DataBus,    \* tlx_cfg0_data_bus
    respIn,         \* responses the AFU presented in the last falling-edge call
    respOut,        \* responses forwarded to OCSE in that call
    returnsSent     \* credits and acks OCSE sent since the last falling-edge call

vars == <<clk, reset, resetD1, resetD2, connected, simError, crashed, ev, rq,
          nextBeat, cnt, pin, rdataBus, rdataBdi, cfgDataDel,
          cfg0DataBus, respIn, respOut, returnsSent>>

bodyVars == <<ev, rq, nextBeat, cnt, pin, rdataBus, rdataBdi,
              cfgDataDel, cfg0DataBus, respIn, respOut, returnsSent>>

-----------------------------------------------------------------------------
(***************************************************************************)
(* The response-data list.                                                 *)
(***************************************************************************)

\* The packets reachable from rdata_head, in list order (at most |Ptr| hops).
RECURSIVE Walk(_, _, _)
Walk(q, p, fuel) ==
    IF p = NULL \/ fuel = 0 THEN <<>>
    ELSE <<p>> \o Walk(q, q.nxt[p], fuel - 1)

PtrSeq(q) == Walk(q, q.head, Cardinality(Ptr))

\* The beats the list holds, head first.
QueueSeq(q) == [i \in 1..Len(PtrSeq(q)) |-> q.pkt[PtrSeq(q)[i]]]

\* Variant testing rdata_tail instead of rdata_head for an empty list.
LinkOneTailTest(q, p, id) ==
    [q EXCEPT !.alloc = @ \cup {p},
              !.pkt[p] = id,
              !.nxt = IF q.tail = NULL THEN [@ EXCEPT ![p] = NULL]
                      ELSE [@ EXCEPT ![p] = NULL, ![q.tail] = p],
              !.head = IF q.tail = NULL THEN p ELSE @,
              !.tail = p]

\* Variant pushing the packet at the head of the list.
LinkOnePush(q, p, id) ==
    [q EXCEPT !.alloc = @ \cup {p},
              !.pkt[p] = id,
              !.nxt[p] = q.head,
              !.head = p,
              !.tail = IF q.head = NULL THEN p ELSE @]

\* One iteration of the loop at afu_driver.c:622-636: a fresh packet p
\* holding beat id is linked behind rdata_tail.
LinkOne(q, p, id) ==
    [q EXCEPT !.alloc = @ \cup {p},
              !.pkt[p] = id,
              !.nxt = IF q.head = NULL THEN [@ EXCEPT ![p] = NULL]
                      ELSE [@ EXCEPT ![p] = NULL, ![q.tail] = p],
              !.head = IF q.head = NULL THEN p ELSE @,
              !.tail = p]

\* The whole loop: packets ps[i] hold beats ids[i].
RECURSIVE LinkAll(_, _, _)
LinkAll(q, ps, ids) ==
    IF ps = <<>> THEN q
    ELSE LinkAll(LinkOne(q, Head(ps), Head(ids)), Tail(ps), Tail(ids))

\* afu_driver.c:715-718: drop the head packet and free it; rdata_tail is
\* left as it is, dangling once the last packet goes.  The freed packet's
\* contents are reset: nothing reads freed memory as long as
\* ListWellFormed holds.
Unlink(q) ==
    [q EXCEPT !.rdCnt = @ - 1,
              !.head = q.nxt[q.head],
              !.alloc = @ \ {q.head},
              !.nxt[q.head] = NULL,
              !.pkt[q.head] = 0]

\* Variant draining only while two or more beats are requested.
DrainReadyAfterTwo(q) == q.rdCnt > 1

\* afu_driver.c:706: `if (rdata_rd_cnt > 0)', a beat is drained this call.
DrainReady(q) == q.rdCnt > 0

\* Sequences of k distinct free addresses malloc may return.
FreshPtrs(q, k) == {f \in [1..k -> Ptr \ q.alloc] : IsInjective(f)}

-----------------------------------------------------------------------------
(***************************************************************************)
(* Valid pins and their countdowns.                                        *)
(***************************************************************************)

\* Drive pin v and restart countdown c at CLOCK_EDGE_DELAY.
Arm(s, c, v) ==
    [s EXCEPT !.cnt[c] = CLOCK_EDGE_DELAY, !.pin[v] = TRUE]

\* Variant decrementing without the `if (clk)' test.
CountdownUnguarded(s, c, vs) ==
    [s EXCEPT !.cnt[c] = @ - 1,
              !.pin = IF s.cnt[c] = 1
                        THEN [v \in Valids |-> IF v \in vs THEN FALSE ELSE @[v]]
                        ELSE @]

\* `if (clk) { --clk; if (!clk) <drop the pins vs> }'
Countdown(s, c, vs) ==
    IF s.cnt[c] = 0 THEN s
    ELSE [s EXCEPT !.cnt[c] = @ - 1,
                   !.pin = IF s.cnt[c] = 1
                             THEN [v \in Valids |-> IF v \in vs THEN FALSE ELSE @[v]]
                             ELSE @]

\* setDpiSignal32(sig, d, 32): the mask ~(0xFFFFFFFF << 32) shifts by the
\* full width, which C leaves undefined.  x86 masks the count to 0, giving
\* mask 0; a compiler folding the shift mathematically gives all ones.
DpiSignal32Full(d) == {0, d}

-----------------------------------------------------------------------------
(***************************************************************************)
(* Forwarding of the AFU's responses (afu_driver.c:474-550).  Both the AFU *)
(* response block and the config response block write the same globals   *)
(* c_afu_tlx_resp_*; the config block runs second, so its capptag and      *)
(* opcode win, and at most one response goes to OCSE per call.             *)
(***************************************************************************)
Presented(afuResp, cfgResp) ==
    (IF afuResp # "none" THEN {"afu"} ELSE {}) \cup (IF cfgResp THEN {"cfg"} ELSE {})

ForwardResp(afuResp, cfgResp) ==
    LET respValid  == afuResp \in {"resp", "resp_data"}
        rdataValid == afuResp \in {"resp_data", "rdata"}
        owner      == IF cfgResp THEN "cfg" ELSE "afu"
    IN  IF respValid /\ ~rdataValid THEN {owner}
        ELSE IF rdataValid \/ cfgResp THEN {owner}
        ELSE {}

(***************************************************************************)
(* The blocks of the falling-edge call that drive TLX-to-AFU pins from the *)
(* event, each on the record [cnt, pin].                                   *)
(***************************************************************************)

\* afu_driver.c:595-612: a pending response raises tlx_afu_resp_valid.
DriveResp(s) == IF ev.respValid THEN Arm(s, "resp", "resp") ELSE s

\* afu_driver.c:655-697: a config command (opcode 0xE0/0xE1) goes out on
\* cfg0 and latches its data word for the next call; any other command on
\* the AFU command interface.  Both restart the same countdown.
DriveCmd(s) ==
    CASE ev.cmd = "cfg" ->
           LET a == Arm(s, "cmd", "cfg0")
           IN  IF ev.cmdData # NoData THEN [a EXCEPT !.pin["cfgdata"] = TRUE] ELSE a
      [] ev.cmd = "mem" -> Arm(s, "cmd", "cmd")
      [] OTHER -> s

\* afu_driver.c:727-736: pending command data raises tlx_afu_cmd_data_valid.
DriveCmdData(s) == IF ev.cmdData # NoData THEN Arm(s, "cdata", "cdata") ELSE s

\* afu_driver.c:698-705: clk_afu_cmd_val, shared by both command interfaces,
\* drops tlx_afu_cmd_valid, tlx_cfg0_valid and c_config_cmd_data_valid.
CmdCountdown(s) == Countdown(s, "cmd", {"cmd", "cfg0", "cfgdata"})

\* afu_driver.c:722-726 and 737-741: the data-valid countdowns.
RdataCountdown(s) == Countdown(s, "rdata", {"rdata"})
CdataCountdown(s) == Countdown(s, "cdata", {"cdata"})

\* afu_driver.c:645-654: the cfg0 data bus carries the latched word while
\* c_config_cmd_data_valid, else 0 (both with setDpiSignal32(.., 32)).
DriveCfgData(cfgBus) == IF pin["cfgdata"] THEN cfgBus ELSE 0

\* afu_driver.c:742-747: each credit pin and tlx_cfg0_resp_ack is driven
\* from its flag in the event: the returns the AFU sees in this cycle.  The
\* pins are outputs only (the AFU is the environment), so they are not state.
DriveCredits(e) == e.returns

\* Mutant: the credit flags are not cleared after driving them.
ClearCreditsNone(e) == e

\* afu_driver.c:751-756: the four credit flags are cleared, "because a clock
\* only cycle will not update the event structure"; tlx_cfg_resp_ack is not.
ClearCredits(e) == [e EXCEPT !.returns = @ \ Credits]

\* afu_driver.c:574-587: afu_tlx_resp_rd_req adds decode_rd_cnt to rdata_rd_cnt.
AddRdCnt(q, rdReq) == [q EXCEPT !.rdCnt = @ + rdReq]

-----------------------------------------------------------------------------
Init ==
    /\ clk \in {0, 1}
    /\ reset = TRUE
    /\ resetD1 = TRUE
    /\ resetD2 = TRUE
    /\ connected = TRUE
    /\ simError = FALSE
    /\ crashed = FALSE
    /\ ev = [respValid |-> FALSE, respBeats |-> 0, respBdi |-> FALSE,
             cmd |-> "none", cmdData |-> NoData, returns |-> {}]
    /\ rq = [alloc |-> {}, nxt |-> [p \in Ptr |-> NULL], pkt |-> [p \in Ptr |-> 0],
             head |-> NULL, tail |-> NULL, rdCnt |-> 0]
    /\ nextBeat = 0
    /\ cnt = [c \in Counters |-> 0]
    /\ pin = [v \in Valids |-> FALSE]
    /\ rdataBus = 0
    /\ rdataBdi = FALSE
    /\ cfgDataDel = NoData
    /\ cfg0DataBus = 0
    /\ respIn = {}
    /\ respOut = {}
    /\ returnsSent = {}

\* c_reset = reset; ...; c_reset_d2 = c_reset_d1; c_reset_d1 = c_reset
ShiftReset ==
    /\ resetD2' = resetD1
    /\ resetD1' = reset

-----------------------------------------------------------------------------
(***************************************************************************)
(* The falling-edge call, afu_driver.c:398-756, in the order of the code:  *)
(* the AFU's response pins are forwarded, its read-count request is added  *)
(* to rdata_rd_cnt, a pending OCSE response is driven and its beats are    *)
(* linked onto the list, the cfg0 data bus is driven from the previous     *)
(* cycle's latch, a pending command is driven, one beat is drained if the  *)
(* read count is positive, pending command data is driven, and each        *)
(* countdown runs right after its own pins.  Draining with rdata_head =    *)
(* NULL dereferences NULL (line 711) and kills the simulator.              *)
(***************************************************************************)
FallingEdge(afuResp, cfgResp, rdReq, ps, cfgBus) ==
    LET k     == IF ev.respValid THEN ev.respBeats ELSE 0
        q0    == AddRdCnt(rq, rdReq)
        q1    == IF ev.respValid
                   THEN LinkAll(q0, ps, [i \in 1..k |-> nextBeat + i])
                   ELSE q0
        s0    == [cnt |-> cnt, pin |-> pin]
        s1    == DriveResp(s0)
        s2    == Countdown(s1, "resp", {"resp"})
        s3    == DriveCmd(s2)
        s4    == CmdCountdown(s3)
        drain == DrainReady(q1)
        s5    == IF drain THEN Arm(s4, "rdata", "rdata") ELSE s4
        s6    == RdataCountdown(s5)
        s7    == DriveCmdData(s6)
        s8    == CdataCountdown(s7)
    IN  /\ respIn' = Presented(afuResp, cfgResp)
        /\ respOut' = ForwardResp(afuResp, cfgResp)
        /\ nextBeat' = nextBeat + k
        /\ cfg0DataBus' = DriveCfgData(cfgBus)
        /\ cfgDataDel' = IF ev.cmd = "cfg" /\ ev.cmdData # NoData
                           THEN ev.cmdData ELSE cfgDataDel
        /\ crashed' = (drain /\ q1.head = NULL)
        /\ rq' = IF drain /\ q1.head # NULL THEN Unlink(q1) ELSE q1
        /\ rdataBus' = IF drain /\ q1.head # NULL THEN q1.pkt[q1.head] ELSE rdataBus
        /\ rdataBdi' = IF drain THEN ev.respBdi ELSE rdataBdi
        /\ cnt' = s8.cnt
        /\ pin' = s8.pin
        /\ returnsSent' = {}
        /\ ev' = ClearCredits([ev EXCEPT !.respValid = FALSE, !.cmd = "none",
                                         !.cmdData = NoData])

\* tlx_bfm with tlx_clock = 0.  The AFU's pins are the environment; with
\* AfuObeysRdCnt it never asks for beats that have not arrived, without
\* AfuRespCollide it never drives both response interfaces in one cycle.
ClockLow ==
    /\ ~crashed
    /\ clk = 0
    /\ clk' = 1
    /\ ShiftReset
    /\ IF resetD2
         THEN UNCHANGED <<bodyVars, crashed>>
         ELSE \E afuResp \in AfuResps, cfgResp \in AfuCfgResps,
                 rdReq \in {0} \cup RdCntBeats,
                 cfgBus \in DpiSignal32Full(cfgDataDel),
                 ps \in FreshPtrs(rq, IF ev.respValid THEN ev.respBeats ELSE 0) :
                /\ AfuRespCollide \/ afuResp = "none" \/ ~cfgResp
                /\ AfuObeysRdCnt => rq.rdCnt + rdReq <= Len(QueueSeq(rq))
                /\ FallingEdge(afuResp, cfgResp, rdReq, ps, cfgBus)
    /\ UNCHANGED <<reset, connected, simError>>

\* What one OCSE clock event may carry: a response (with 0 or more data
\* beats), a command (config or AFU), and a command data word.
RespChoice ==
    {[valid |-> FALSE, beats |-> 0, bdi |-> FALSE]}
      \cup [valid : {TRUE}, beats : {0}, bdi : {FALSE}]
      \cup [valid : {TRUE}, beats : RespDl, bdi : BOOLEAN]

\* afu_driver.c:757-760 with 221-225: the rising-edge call clears c_sim_error
\* and then calls tlx_control, which sets it when the socket is closed.
SimErrorAfterCall(open) == ~open

\* tlx_bfm with tlx_clock = 1: tlx_control (afu_driver.c:204-227) waits for
\* the next clock event from OCSE; once the socket is closed every call
\* sets c_sim_error and leaves the event as it was.
ClockHigh ==
    /\ ~crashed
    /\ clk = 1
    /\ clk' = 0
    /\ ShiftReset
    /\ IF resetD2
         THEN UNCHANGED <<ev, simError, returnsSent>>
         ELSE IF connected
           THEN /\ simError' = SimErrorAfterCall(connected)
                /\ \E r \in RespChoice, c \in OcseCmds,
                      d \in {NoData} \cup CmdData, rs \in SUBSET OcseReturns :
                     /\ nextBeat + r.beats <= MaxBeats
                     /\ Cardinality(rq.alloc) + r.beats <= Cardinality(Ptr)
                     /\ ev' = [respValid |-> r.valid,
                               respBeats |-> IF r.valid THEN r.beats ELSE ev.respBeats,
                               respBdi   |-> IF r.valid THEN r.bdi ELSE ev.respBdi,
                               cmd       |-> c,
                               cmdData   |-> d,
                               returns   |-> ev.returns \cup rs]
                     /\ returnsSent' = rs
           ELSE /\ simError' = SimErrorAfterCall(connected)
                /\ returnsSent' = {}
                /\ UNCHANGED ev
    /\ UNCHANGED <<reset, connected, crashed, rq, nextBeat, cnt, pin, rdataBus,
                   rdataBdi, cfgDataDel, cfg0DataBus, respIn, respOut>>

\* The testbench drops reset once.
ReleaseReset ==
    /\ reset
    /\ reset' = FALSE
    /\ UNCHANGED <<clk, resetD1, resetD2, connected, simError, crashed, bodyVars>>

\* OCSE closes the socket.
Disconnect ==
    /\ connected
    /\ connected' = FALSE
    /\ UNCHANGED <<clk, reset, resetD1, resetD2, simError, crashed, bodyVars>>

Next == ClockLow \/ ClockHigh \/ ReleaseReset \/ Disconnect

\* The simulator keeps calling tlx_bfm on both clock edges, and OCSE keeps
\* sending clock events (or the closed socket returns at once).
Spec == Init /\ [][Next]_vars /\ WF_vars(ClockLow) /\ WF_vars(ClockHigh)

-----------------------------------------------------------------------------
(***************************************************************************)
(* Properties.                                                             *)
(***************************************************************************)

TypeOK ==
    /\ clk \in {0, 1}
    /\ {reset, resetD1, resetD2, connected, simError, crashed} \subseteq BOOLEAN
    /\ ev \in [respValid : BOOLEAN, respBeats : 0..MaxBeats, respBdi : BOOLEAN,
               cmd : {"none", "cfg", "mem"}, cmdData : {NoData} \cup CmdData,
               returns : SUBSET Returns]
    /\ rq.alloc \subseteq Ptr
    /\ rq.nxt \in [Ptr -> Ptr \cup {NULL}]
    /\ rq.pkt \in [Ptr -> 0..MaxBeats]
    /\ rq.head \in Ptr \cup {NULL}
    /\ rq.tail \in Ptr \cup {NULL}
    /\ rq.rdCnt \in Nat
    /\ nextBeat \in 0..MaxBeats
    /\ cnt \in [Counters -> 0..CLOCK_EDGE_DELAY]
    /\ pin \in [Valids -> BOOLEAN]
    /\ rdataBus \in 0..MaxBeats
    /\ rdataBdi \in BOOLEAN
    /\ cfgDataDel \in {NoData} \cup CmdData
    /\ cfg0DataBus \in {0} \cup CmdData
    /\ respIn \subseteq {"afu", "cfg"} /\ respOut \subseteq {"afu", "cfg"}
    /\ returnsSent \subseteq Returns

\* A step that is a falling-edge call past reset.
FallingStep == clk = 0 /\ clk' = 1 /\ ~resetD2 /\ ~crashed

(***************************************************************************)
(* The linked list stays well formed across enqueues, drains and the       *)
(* dangling rdata_tail left by draining the last packet: the packets       *)
(* reachable from rdata_head are exactly the live ones, with no cycle, and *)
(* while the list is non-empty rdata_tail is its last packet, so the       *)
(* rdata_tail->_next store of line 633 never writes a freed packet.        *)
(***************************************************************************)
ListWellFormed ==
    LET ps == PtrSeq(rq)
    IN  /\ Range(ps) = rq.alloc
        /\ Len(ps) = Cardinality(rq.alloc)
        /\ rq.head # NULL => rq.tail = ps[Len(ps)] /\ rq.nxt[rq.tail] = NULL

(***************************************************************************)
(* The response, response-data and command-data valid pins are each high  *)
(* after a falling-edge call only if that call drove a new response, a new *)
(* beat or new command data: every countdown drops its pin after one       *)
(* cycle, so the AFU never latches the same transfer twice.                *)
(***************************************************************************)
PulsesLastOneCycle ==
    [][FallingStep =>
         /\ pin'["resp"] => ev.respValid
         /\ pin'["rdata"] => rdataBus' # rdataBus
         /\ pin'["cdata"] => ev.cmdData # NoData]_vars

(***************************************************************************)
(* A command is presented to the AFU for exactly one cycle: after a        *)
(* falling-edge call tlx_cfg0_valid, tlx_afu_cmd_valid and                 *)
(* c_config_cmd_data_valid are high only if that very call drove a new     *)
(* config or memory command, so the AFU never latches a command (or a      *)
(* config write's data) twice.  Both interfaces share clk_afu_cmd_val      *)
(* (afu_driver.c:671, 691, 698-705).                                       *)
(***************************************************************************)
CmdPulsesOncePerCommand ==
    [][FallingStep =>
         /\ pin'["cfg0"] => ev.cmd = "cfg"
         /\ pin'["cfgdata"] => ev.cmd = "cfg"
         /\ pin'["cmd"] => ev.cmd = "mem"]_vars

(***************************************************************************)
(* Every credit return and config response ack OCSE sends reaches the AFU *)
(* for exactly one cycle: after a falling-edge call a credit pin or        *)
(* tlx_cfg0_resp_ack is high only if OCSE's clock event of that cycle      *)
(* carried it.  A credit seen twice would let the AFU issue past its       *)
(* credit pool (afu_driver.c:742-756).                                      *)
(***************************************************************************)
ReturnsPresentedOnce ==
    [][FallingStep => DriveCredits(ev) \subseteq returnsSent]_vars

(***************************************************************************)
(* Draining never finds an empty list: the bridge never dereferences a     *)
(* NULL rdata_head at line 711, whatever read counts the AFU requests      *)
(* (spec 4.4: draining an exhausted queue is a non-fatal underrun).        *)
(***************************************************************************)
NoNullHeadDrain == ~crashed

(***************************************************************************)
(* Every response the AFU presents in a cycle, on the AFU response         *)
(* interface or the config response interface, is forwarded to OCSE.      *)
(***************************************************************************)
RespForwarded == respOut = respIn

(***************************************************************************)
(* The response-data list implements the abstract queue of RdataQueue:    *)
(* beats reach the AFU in arrival order, none lost or repeated.            *)
(***************************************************************************)
RQ == INSTANCE RdataQueue WITH
        queue <- QueueSeq(rq), pending <- rq.rdCnt, bus <- rdataBus,
        Beats <- 1..MaxBeats,
        MaxReq <- CHOOSE m \in RdCntBeats : \A n \in RdCntBeats : n <= m,
        MaxDl <- CHOOSE m \in RespDl : \A n \in RespDl : n <= m

RdataQueueRefined == RQ!Spec

(***************************************************************************)
(* Every beat the AFU asks for is eventually driven to it.                 *)
(***************************************************************************)
RequestedBeatsDelivered == rq.rdCnt > 0 ~> rq.rdCnt = 0

=============================================================================
