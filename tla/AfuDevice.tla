------------------------------ MODULE AfuDevice ------------------------------
(***************************************************************************)
(* The test AFU's main loop, AFU::start (test/afu/AFU.cpp:79-293): one     *)
(* iteration per event OCSE sends.  In code order an iteration dispatches  *)
(* a TLX command (resolve_tlx_afu_cmd), processes a response to one of the *)
(* AFU's own commands and a config-response ack (resolve_tlx_afu_resp),    *)
(* hands response data and command data to the handler whose state waits  *)
(* for it, and advances the lifecycle: IDLE -> READY (enable bit seen      *)
(* after a config write) -> RUNNING (a context found in MMIO), where it    *)
(* polls the application's status word and issues commands.               *)
(*                                                                         *)
(* Data is abstracted away (AfuDataPath models it): a command is its kind, *)
(* its capptag and what its address hits.  The host and OCSE are the       *)
(* environment: the host queues commands (HostSend), OCSE delivers them,   *)
(* the command data and response data the AFU asks for, and responses to  *)
(* the AFU's own commands, any of them in any event.                      *)
(*                                                                         *)
(* Never reached from start: RESET (set only by resolve_control_event,     *)
(* which nothing calls), WAITING_FOR_LAST_RESPONSES and HALT.              *)
(***************************************************************************)
EXTENDS Naturals, FiniteSets

CONSTANTS
    Tags,           \* capptags the host may use
    HostKinds,      \* host command kinds issued: cfg_rd, cfg_wr, pr_rd, pr_wr
    HostTargets,    \* what a host command's address may hit
    HostOverlap,    \* the host may issue a command while another is open
    EnableInit,     \* possible values of the enable bit (vsec 0x50c bit 24) at start
    DescReset,      \* the reset bit of AFU descriptor 0x50c (bit 23)
    CmdCredits,     \* commands the AFU may have outstanding (TLX command credits)
    MaxOwed         \* response-data beats OCSE holds for the AFU at most

ASSUME HostKinds \subseteq {"cfg_rd", "cfg_wr", "pr_rd", "pr_wr"}
ASSUME HostTargets \subseteq {"enable", "ctx", "other"}
ASSUME EnableInit \subseteq BOOLEAN /\ DescReset \in BOOLEAN /\ CmdCredits \in Nat
ASSUME MaxOwed \in Nat \ {0}

\* what an OCSE response to one of the AFU's own commands reports
RespOps == {"read", "write"}

VARIABLES
    state,          \* the lifecycle state
    configState,    \* config_state: IDLE, or READY awaiting config write data
    memState,       \* mem_state: IDLE, READY (pr_wr data) or WAITING_FOR_DATA
    enableReset,    \* afu_enable_reset
    enableBit,      \* bit 24 of VSEC register 0x50c
    ctxWord,        \* a context word 0x1000*c of the MMIO space is non-zero
    mcs,            \* context_to_mc is not empty
    rrc, wrc,       \* read_resp_completed, write_resp_completed
    nextCmd,        \* next_cmd
    cmdReady,       \* cmd_ready
    insertCycle,    \* insert_cycle
    statusRespValid,\* status_resp_valid
    statusFF,       \* status_data[0] == 0xff
    evTag,          \* afu_event.tlx_afu_cmd_capptag of the latest command
    evPa,           \* what afu_event.tlx_afu_cmd_pa of the latest command hits
    host,           \* tag -> [kind, pa, st]: st free, queued (at OCSE) or delivered
    dataReq,        \* command-data beats requested (cmd_rd_req) and not delivered
    outRd, outWr,   \* AFU read / write commands awaiting their response
    respDataReq,    \* response-data beats requested and not delivered
    cfgAckDue,      \* a config response OCSE has not acked yet
    respSent,       \* responses sent to the host in the last iteration: [tag, kind]
    consumers       \* handlers that took the last iteration's command data beat

afuVars == <<state, configState, memState, enableReset, enableBit, ctxWord, mcs,
             rrc, wrc, nextCmd, cmdReady, insertCycle, statusRespValid, statusFF,
             evTag, evPa>>
envVars == <<host, dataReq, outRd, outWr, respDataReq, cfgAckDue,
             respSent, consumers>>
vars == <<afuVars, envVars>>

\* The whole state as a record, for the sequential body of an iteration.
S == [state |-> state, configState |-> configState, memState |-> memState,
      enableReset |-> enableReset, enableBit |-> enableBit, ctxWord |-> ctxWord,
      mcs |-> mcs, rrc |-> rrc, wrc |-> wrc, nextCmd |-> nextCmd,
      cmdReady |-> cmdReady, insertCycle |-> insertCycle,
      statusRespValid |-> statusRespValid, statusFF |-> statusFF,
      evTag |-> evTag, evPa |-> evPa, host |-> host, dataReq |-> dataReq,
      outRd |-> outRd, outWr |-> outWr, respDataReq |-> respDataReq,
      cfgAckDue |-> cfgAckDue,
      respSent |-> {}, consumers |-> {}]

Commit(s) ==
    /\ state' = s.state /\ configState' = s.configState /\ memState' = s.memState
    /\ enableReset' = s.enableReset /\ enableBit' = s.enableBit
    /\ ctxWord' = s.ctxWord /\ mcs' = s.mcs /\ rrc' = s.rrc /\ wrc' = s.wrc
    /\ nextCmd' = s.nextCmd /\ cmdReady' = s.cmdReady
    /\ insertCycle' = s.insertCycle /\ statusRespValid' = s.statusRespValid
    /\ statusFF' = s.statusFF /\ evTag' = s.evTag /\ evPa' = s.evPa
    /\ host' = s.host /\ dataReq' = s.dataReq /\ outRd' = s.outRd
    /\ outWr' = s.outWr /\ respDataReq' = s.respDataReq
    /\ cfgAckDue' = s.cfgAckDue
    /\ respSent' = s.respSent /\ consumers' = s.consumers

-----------------------------------------------------------------------------
(***************************************************************************)
(* Sending.  A response to the host carries afu_event.tlx_afu_cmd_capptag, *)
(* the tag of the latest command event, whichever command it answers.      *)
(* The response credit (TagManager, not in this repository) is taken to be *)
(* available.  write_app_status and read_app_status call the send routine *)
(* unconditionally and ignore its result; the credit test is the send      *)
(* library's (tlx_interface.c, not in this repository), taken from spec    *)
(* 4.2: without a command credit the send is refused and changes nothing.  *)
(***************************************************************************)
Respond(s, kind) ==
    [s EXCEPT !.respSent = @ \cup {[tag |-> s.evTag, kind |-> kind]},
              !.host = IF s.evTag \in Tags
                         THEN [@ EXCEPT ![s.evTag].st = "free"] ELSE @]

SendAfuCmdOverCredit(s, op) ==
    IF s.outRd + s.outWr > CmdCredits THEN s
    ELSE IF op = "read" THEN [s EXCEPT !.outRd = @ + 1]
    ELSE [s EXCEPT !.outWr = @ + 1]

SendAfuCmd(s, op) ==
    IF s.outRd + s.outWr >= CmdCredits THEN s
    ELSE IF op = "read" THEN [s EXCEPT !.outRd = @ + 1]
    ELSE [s EXCEPT !.outWr = @ + 1]

-----------------------------------------------------------------------------
(***************************************************************************)
(* The command handlers.  Config and partial-write handlers run twice per  *)
(* command: the first call (state IDLE) asks OCSE for the data beat and    *)
(* moves to READY; the second (READY) takes the beat, stores it and        *)
(* answers.  A call while mem_state is WAITING_FOR_DATA does nothing.      *)
(* "ctx" is a write of a context word 0x1000*c, "enable" one of VSEC       *)
(* register 0x50c, which stores 0x50c (the assignment in the if at 721)    *)
(* and so clears the enable bit 24.                                        *)
(***************************************************************************)
tlx_afu_config_read(s) ==
    [Respond(s, "cfg_rd") EXCEPT !.cfgAckDue = TRUE]

tlx_afu_config_write_noreq(s) ==
    IF s.configState = "IDLE"
      THEN [s EXCEPT !.configState = "READY"]
      ELSE [Respond(s, "cfg_wr") EXCEPT
              !.enableReset = TRUE,
              !.enableBit = IF s.evPa = "enable" THEN FALSE ELSE @,
              !.configState = "IDLE"]

\* Mutant: config_state left READY after the data phase.
tlx_afu_config_write_staysready(s) ==
    IF s.configState = "IDLE"
      THEN [s EXCEPT !.dataReq = @ + 1, !.configState = "READY"]
      ELSE [Respond(s, "cfg_wr") EXCEPT
              !.enableReset = TRUE,
              !.enableBit = IF s.evPa = "enable" THEN FALSE ELSE @]

tlx_afu_config_write(s) ==
    IF s.configState = "IDLE"
      THEN [s EXCEPT !.dataReq = @ + 1, !.configState = "READY"]
      ELSE [Respond(s, "cfg_wr") EXCEPT
              !.enableReset = TRUE,
              !.enableBit = IF s.evPa = "enable" THEN FALSE ELSE @,
              !.configState = "IDLE"]

tlx_pr_rd_mem(s) == Respond(s, "pr_rd")

tlx_pr_wr_mem(s) ==
    CASE s.memState = "IDLE" ->
           [s EXCEPT !.dataReq = @ + 1, !.memState = "READY"]
      [] s.memState = "READY" ->
           [Respond(s, "pr_wr") EXCEPT
              !.ctxWord = @ \/ s.evPa = "ctx",
              !.memState = "IDLE"]
      [] OTHER -> s

\* The dispatch for the four type-0 commands the host sends (AFU.cpp:
\* 436-474).  A config command with tlx_afu_cmd_t = 1, or an opcode the
\* switch does not list, would be taken and never answered; no host sends one.
resolve_tlx_afu_cmd_fallthrough(s, t) ==
    LET s1 == [s EXCEPT !.evTag = t, !.evPa = s.host[t].pa,
                        !.host[t].st = "delivered"]
        k  == s.host[t].kind
    IN  CASE k = "cfg_rd" -> tlx_afu_config_read(s1)
          [] k = "cfg_wr" -> tlx_afu_config_write(s1)
          [] k = "pr_rd"  -> tlx_pr_wr_mem(tlx_pr_rd_mem(s1))
          [] k = "pr_wr"  -> tlx_pr_wr_mem(s1)

\* resolve_tlx_afu_cmd: the capptag and address of the new command are
\* latched into afu_event, then the opcode selects the handler.
resolve_tlx_afu_cmd(s, t) ==
    LET s1 == [s EXCEPT !.evTag = t, !.evPa = s.host[t].pa,
                        !.host[t].st = "delivered"]
        k  == s.host[t].kind
    IN  CASE k = "cfg_rd" -> tlx_afu_config_read(s1)
          [] k = "cfg_wr" -> tlx_afu_config_write(s1)
          [] k = "pr_rd"  -> tlx_pr_rd_mem(s1)
          [] k = "pr_wr"  -> tlx_pr_wr_mem(s1)

(***************************************************************************)
(* resolve_tlx_afu_resp.  While mem_state is WAITING_FOR_DATA any call     *)
(* reads response data (into status_data when status_resp_valid) and      *)
(* returns mem_state to IDLE, whatever the call was made for; otherwise    *)
(* it reads a response, sets read_resp_completed, and a READ_RESP asks for *)
(* its data while a WRITE_RESP sends the command data.  op is the opcode  *)
(* read: "nop" when the call reads no response (a config-response ack).    *)
(* status is the status byte the data carries (0xff or not).               *)
(***************************************************************************)
resolve_tlx_afu_resp(s, op, status) ==
    IF s.memState = "WAITING_FOR_DATA"
      THEN [s EXCEPT !.statusFF = IF s.statusRespValid THEN status ELSE @,
                     !.statusRespValid = FALSE,
                     !.memState = "IDLE"]
      ELSE CASE op = "read" ->
                  [s EXCEPT !.rrc = TRUE, !.respDataReq = @ + 1,
                            !.memState = "WAITING_FOR_DATA"]
             [] op = "write" ->
                  [s EXCEPT !.rrc = TRUE, !.wrc = TRUE]
             [] OTHER -> [s EXCEPT !.rrc = TRUE]

\* afu_is_enabled reads bit 24 of VSEC 0x50c; afu_is_reset bit 23 of the
\* AFU descriptor's 0x50c, which no host access changes.
afu_is_enabled(s) == s.enableBit

afu_is_reset == DescReset

(***************************************************************************)
(* get_machine_context: a non-zero context word creates a new              *)
(* MachineController (always under key 0) and answers TRUE.                *)
(***************************************************************************)
get_machine_context(s) == IF s.ctxWord THEN [s EXCEPT !.mcs = TRUE] ELSE s

\* write_app_status and read_app_status; read sets status_resp_valid first.
write_app_status(s) == SendAfuCmd(s, "write")

read_app_status(s) == SendAfuCmd([s EXCEPT !.statusRespValid = TRUE], "read")

\* The round-robin loop over context_to_mc: MachineController::send_command
\* (not in this repository) may send a read, a write or nothing.
SendMachineCommand(s, mc) ==
    IF s.mcs /\ mc # "none" THEN SendAfuCmd(s, mc) ELSE s

-----------------------------------------------------------------------------
(***************************************************************************)
(* The lifecycle step at the end of an iteration (AFU.cpp:181-257).        *)
(* In RUNNING the three branches write the status word (with one inserted  *)
(* iteration), poll it until the status byte last received is 0xff, and   *)
(* issue one command of the controller.  mc is what send_command does.    *)
(***************************************************************************)
Lifecycle(s, mc) ==
    CASE s.state = "IDLE" ->
           IF s.enableReset /\ afu_is_enabled(s)
             THEN [s EXCEPT !.state = "READY", !.enableReset = FALSE]
             ELSE s
      [] s.state = "READY" ->
           IF s.ctxWord THEN [get_machine_context(s) EXCEPT !.state = "RUNNING"]
           ELSE s
      [] s.state = "RUNNING" ->
           IF (s.rrc \/ s.wrc) /\ ~s.nextCmd /\ ~s.cmdReady
             THEN IF ~s.insertCycle
                    THEN [write_app_status(s) EXCEPT !.insertCycle = TRUE]
                    ELSE [s EXCEPT !.insertCycle = FALSE, !.rrc = FALSE,
                                   !.wrc = FALSE, !.nextCmd = TRUE]
           ELSE IF s.nextCmd
             THEN LET r == read_app_status(s)
                  IN  IF r.statusFF
                        THEN get_machine_context(
                               [r EXCEPT !.nextCmd = FALSE, !.cmdReady = TRUE])
                        ELSE r
           ELSE IF s.cmdReady
             THEN SendMachineCommand([s EXCEPT !.cmdReady = FALSE], mc)
           ELSE s

(***************************************************************************)
(* One event from OCSE.  e.cmd is the tag of the host command delivered   *)
(* (0 for none); cmdData, resp, respData and cfgAck the other parts of the *)
(* event.  OCSE only sends what is owed: data beats that were requested,  *)
(* responses to outstanding AFU commands, an ack of a config response.     *)
(* A read response waits while MaxOwed beats are still owed to the AFU.    *)
(***************************************************************************)
NoTag == 0

Events ==
    [cmd: {NoTag} \cup {t \in Tags : host[t].st = "queued"},
     cmdData: IF dataReq > 0 THEN BOOLEAN ELSE {FALSE},
     resp: {"none"} \cup {o \in RespOps : IF o = "read"
                                            THEN outRd > 0 /\ respDataReq < MaxOwed
                                            ELSE outWr > 0},
     respData: IF respDataReq > 0 THEN BOOLEAN ELSE {FALSE},
     cfgAck: IF cfgAckDue THEN BOOLEAN ELSE {FALSE},
     status: BOOLEAN,
     mc: {"none"} \cup RespOps]

\* what OCSE no longer owes once the event is sent
Delivered(s, e) ==
    [s EXCEPT !.dataReq = IF e.cmdData THEN @ - 1 ELSE @,
              !.respDataReq = IF e.respData THEN @ - 1 ELSE @,
              !.outRd = IF e.resp = "read" THEN @ - 1 ELSE @,
              !.outWr = IF e.resp = "write" THEN @ - 1 ELSE @,
              !.cfgAckDue = IF e.cfgAck THEN FALSE ELSE @]

\* One iteration of the loop of AFU::start, in code order.
Tick(e) ==
    LET s0 == Delivered(S, e)
        s1 == IF e.cmd # NoTag THEN resolve_tlx_afu_cmd(s0, e.cmd) ELSE s0
        s2 == IF e.resp # "none" THEN resolve_tlx_afu_resp(s1, e.resp, e.status)
              ELSE s1
        s3 == IF e.cfgAck THEN resolve_tlx_afu_resp(s2, "nop", e.status) ELSE s2
        s4 == IF e.respData /\ s3.memState = "WAITING_FOR_DATA"
                THEN resolve_tlx_afu_resp(s3, "nop", e.status) ELSE s3
        s5 == IF e.cmdData /\ s4.configState = "READY"
                THEN [tlx_afu_config_write(s4) EXCEPT !.consumers = @ \cup {"config"}]
                ELSE s4
        s6 == IF e.cmdData /\ s5.memState = "READY"
                THEN [tlx_pr_wr_mem(s5) EXCEPT !.consumers = @ \cup {"mem"}]
                ELSE s5
        s7 == IF s6.enableReset /\ afu_is_reset
                THEN [s6 EXCEPT !.enableReset = FALSE] ELSE s6
    IN  Commit(Lifecycle(s7, e.mc))

AfuStep == \E e \in Events : Tick(e)

(***************************************************************************)
(* The host (through libocxl and OCSE) queues a command with a free tag.   *)
(* A sequential host, like tests/lpc_mem.c, waits for each answer.         *)
(***************************************************************************)
Targets(k) ==
    IF k \in {"cfg_rd", "cfg_wr"} THEN HostTargets \ {"ctx"}
    ELSE HostTargets \ {"enable"}

HostSend(t, k, pa) ==
    /\ host[t].st = "free"
    /\ HostOverlap \/ \A u \in Tags : host[u].st = "free"
    /\ host' = [host EXCEPT ![t] = [kind |-> k, pa |-> pa, st |-> "queued"]]
    /\ respSent' = {} /\ consumers' = {}
    /\ UNCHANGED <<afuVars, dataReq, outRd, outWr, respDataReq, cfgAckDue>>

Init ==
    /\ state = "IDLE" /\ configState = "IDLE" /\ memState = "IDLE"
    /\ enableReset = FALSE /\ enableBit \in EnableInit
    /\ ctxWord = FALSE /\ mcs = FALSE
    /\ rrc = FALSE /\ wrc = FALSE /\ nextCmd = FALSE /\ cmdReady = TRUE
    /\ insertCycle = FALSE /\ statusRespValid = FALSE /\ statusFF = FALSE
    /\ evTag = NoTag /\ evPa = "other"
    /\ host = [t \in Tags |-> [kind |-> "cfg_rd", pa |-> "other", st |-> "free"]]
    /\ dataReq = 0 /\ outRd = 0 /\ outWr = 0 /\ respDataReq = 0
    /\ cfgAckDue = FALSE
    /\ respSent = {} /\ consumers = {}

Next ==
    \/ \E t \in Tags, k \in HostKinds : \E pa \in Targets(k) : HostSend(t, k, pa)
    \/ AfuStep

(***************************************************************************)
(* OCSE keeps sending events, and delivers every queued command, requested *)
(* beat, owed response and config ack in some later event.                 *)
(***************************************************************************)
Fairness ==
    /\ WF_vars(AfuStep)
    /\ WF_vars(\E e \in Events : e.cmd # NoTag /\ Tick(e))
    /\ WF_vars(\E e \in Events : e.cmdData /\ Tick(e))
    /\ WF_vars(\E e \in Events : e.resp # "none" /\ Tick(e))
    /\ WF_vars(\E e \in Events : e.respData /\ Tick(e))
    /\ WF_vars(\E e \in Events : e.cfgAck /\ Tick(e))

Spec == Init /\ [][Next]_vars /\ Fairness

-----------------------------------------------------------------------------
(* Properties *)

TypeOK ==
    /\ state \in {"IDLE", "READY", "RUNNING"}
    /\ configState \in {"IDLE", "READY"}
    /\ memState \in {"IDLE", "READY", "WAITING_FOR_DATA"}
    /\ {enableReset, enableBit, ctxWord, mcs, rrc, wrc, nextCmd, cmdReady,
        insertCycle, statusRespValid, statusFF, cfgAckDue} \subseteq BOOLEAN
    /\ evTag \in Tags \cup {NoTag} /\ evPa \in HostTargets \cup {"other"}
    /\ \A t \in Tags : host[t].st \in {"free", "queued", "delivered"}
    /\ {dataReq, respDataReq} \subseteq Nat
    /\ outRd + outWr <= CmdCredits
    /\ respDataReq <= MaxOwed
    /\ consumers \subseteq {"config", "mem"}

(***************************************************************************)
(* Every response the AFU sends in an iteration (afu_tlx_send_resp,        *)
(* afu_tlx_send_resp_and_data, afu_cfg_send_resp_and_data, all with the   *)
(* capptag latched in afu_event) answers a command the host has open, of  *)
(* the kind that handler serves, and no command gets two answers.          *)
(***************************************************************************)
RespondsToOpenCommand ==
    [][\A r \in respSent' :
         /\ r.tag \in Tags
         /\ host[r.tag].st # "free"
         /\ host[r.tag].kind = r.kind
         /\ \A q \in respSent' : q.tag = r.tag => q = r]_vars

(***************************************************************************)
(* A command-data beat (tlx_afu_cmd_data_valid) is taken by at most one of *)
(* the two handlers that test it in the same iteration (AFU.cpp:169-178).  *)
(***************************************************************************)
DataBeatTakenOnce == Cardinality(consumers) <= 1

(***************************************************************************)
(* The AFU implements the host's view of its access machines (HostAccess, *)
(* spec 4.5): a config or partial read is answered in the iteration that   *)
(* delivers it; a config or partial write asks OCSE for exactly one data  *)
(* beat (cmd_rd_req) and is answered in the iteration that receives it.    *)
(* A delivered command not yet answered is in its data phase.              *)
(***************************************************************************)
HostPhase(t) ==
    CASE host[t].st = "free" -> "free"
      [] host[t].st = "queued" -> "queued"
      [] OTHER -> "awaitData"

HA == INSTANCE HostAccess WITH
        phase <- [t \in Tags |-> HostPhase(t)],
        kind <- [t \in Tags |-> host[t].kind],
        req <- dataReq,
        Kinds <- HostKinds

HostAccessRefined == HA!Spec

(***************************************************************************)
(* Every command the host sends is eventually answered: the two-phase      *)
(* config and partial-write handshakes complete.                           *)
(***************************************************************************)
HostCommandAnswered ==
    \A t \in Tags : host[t].st # "free" ~> host[t].st = "free"

====
