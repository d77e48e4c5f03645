# TLA+ models of the OCSE TLX bridge and test AFU

This directory holds TLA+ models of the C/C++ code under `src/`. TLC checks
them. Four parts are modelled so far:

- the TLX bus-functional bridge that connects an HDL simulation to OCSE
  (`src/afu_driver/src/afu_driver.c`);
- the DPI conversions between the simulator's four-state words and the
  bridge's C integers and buffers (`afu_driver.c:101-193`), at their call sites;
- the data path of the test AFU (`src/test/afu/AFU.cpp`);
- the test AFU's main loop: command dispatch, the two-phase handshakes, response handling and the lifecycle (`AFU.cpp`).

`PROJECT.json` lists every component, every run, the mutants, the map from
definitions to source lines, the findings and the hazards.

## 1. The system

| Part | Source | State | Operations |
|---|---|---|---|
| TLX bridge `tlx_bfm` | afu_driver.c:230-765 | the `AFU_EVENT` structure `event`: the pending response, command and command data; the response-data linked list `rdata_head`/`rdata_tail`/`rdata_rd_cnt`; the four pulse countdowns `clk_afu_*`; the reset pipeline `c_reset_d1/d2`; the config data latch `c_tlx_afu_cmd_data_del`/`c_config_cmd_data_valid`; `c_sim_error` | one call per clock edge. The rising edge (`tlx_control`) blocks until OCSE sends the next clock event. The falling edge samples the AFU pins, forwards responses, counts `rd_req`, queues response beats, drives commands and data, drains one beat and runs the countdowns. |
| Bridge start-up | afu_driver.c:767-783 | the socket | `tlx_bfm_init` port search |
| DPI conversions | afu_driver.c:101-193 | the sampled buffers `c_afu_tlx_cmd_ea_or_obj`, `c_afu_tlx_rdata_bus`, `c_afu_tlx_cdata_bus`, which persist between calls | `getMy64Bit`, `getMyCacheLine`, `getMyByteArray`, `setMyCacheLine`, `setDpiSignal32`, `setDpiSignal64` |
| Test AFU main loop | AFU.cpp:29-582, 916-966 | `state` (IDLE, READY, RUNNING, RESET, WAITING_FOR_LAST_RESPONSES, HALT), `config_state`, `mem_state`, `afu_enable_reset`, the `MachineController` map, `cmd_ready` | main loop `start`, `resolve_tlx_afu_cmd`, `resolve_tlx_afu_resp`, round-robin command issue |
| Test AFU data path | AFU.cpp:584-913 | VSEC registers and MMIO space (in `Descriptor`), `afu_tlx_rdata_bus` | `tlx_afu_config_read`, `tlx_afu_config_write`, `tlx_pr_rd_mem`, `tlx_pr_wr_mem`, `byte_shift` |
| Command machines | Machine.cpp | the config words, enable/once/restart flags, delay | `read_machine_config`, `attempt_new_command`, `process_response` |
| LPC memory | Lpc.cpp | `lpc_memory`, `addr_list` | `lpc_addr_exist`, `read_lpc_mem`, `write_lpc_mem` |
| Host test | tests/lpc_mem.c | none | a sequential libocxl client |
| Headers | mmio.h, libocxl_lpc.h | none | declarations only |

**How the parts interact.**

- The HDL simulator calls `tlx_bfm` on both edges of `tlx_clock`.
- OCSE sends one event per cycle over a socket. The event carries a response with its data, a command, command data and credits.
- The bridge converts the event into TLX-to-AFU pins.
- The AFU answers with:
  - responses on the AFU and cfg0 interfaces;
  - `resp_rd_req`/`cmd_rd_req` read requests, which pull queued response beats or command data.
- The event encoding (`tlx_interface.c`), `TagManager`, `MachineController` and `Descriptor` are not in this repository. They appear only as the environment of the models, written from `spec.md`.

**The hard behaviours.**

- The bridge keeps its state across calls in globals and in a malloc'ed list.
- Several pin groups share one countdown.
- The AFU decides independently when to ask for beats.
- Two response interfaces write the same globals in one call.
- The AFU handlers move data through 64-byte beats with byte offsets and truncating casts.

## 2. Modules

### `RdataQueue` — the abstract response-data FIFO

- **State:** `queue` (the beats not yet handed over), `pending` (beats asked for) and `bus` (the last beat driven).
- **Step:** a `Cycle` adds a request and the beats of a response, then drives the head beat if anything is pending.

This is the promise of spec 4.4.

### `TlxBfm` — the bridge, `tlx_bfm`

**Data abstraction.**

- A beat is a number.
- A command is `"cfg"` (opcode 0xE0/0xE1), `"mem"` or `"none"`.
- Command data is a member of `CmdData`.
- The heap is a set of model values `Ptr`. `rq` holds the packets' `_next` pointers and beats, plus `head`, `tail` and `rdCnt`.
- `pin` holds the valid pins and `cnt` the countdowns.

**Actions.**

- **`ClockLow`:** the falling-edge call behind the `c_reset_d2` gate and the clock test (355-358). The AFU's pins are chosen here. The call is one `FallingEdge` step (574-756, in code order), built from:
  - `ForwardResp`, `AddRdCnt`, `DriveResp`;
  - `LinkAll`/`LinkOne` (the loop at 621-637);
  - `Countdown` and its three uses: `CmdCountdown` (one countdown shared by the command, cfg0 and config-data pins, 698-705), `RdataCountdown`, `CdataCountdown`;
  - `DriveCmd`, `DriveCmdData`, `DriveCfgData` (the config data latch, 645-654);
  - `DrainReady`/`Unlink` (706-718).

  Three parts of the call are not modelled: the initial-credit send of the first cycle (362-372), the forwarding of the AFU's own commands and command data to OCSE (401-472), and the `cmd_rd_req` forwarding (551-566). Lines 380-397 are commented out.
- **`ClockHigh`:** `tlx_control`. OCSE's next event is chosen by `\E`. Once the socket is closed, the call sets `c_sim_error` instead.
- **`ReleaseReset`** and **`Disconnect`:** the testbench and OCSE.
- Both edges shift the reset pipeline (`ShiftReset`).

**Environment.**

- The AFU's pins are chosen in `ClockLow`.
- `AfuObeysRdCnt` restricts `rd_req` to beats that have already arrived.
- `AfuRespCollide` allows both response interfaces in one cycle.
- The AFU response interface drives nothing, a header, a header with data, or a data beat alone (`rdata`: a later beat of a multi-beat response). `ForwardResp` sends the last one with `afu_tlx_send_resp_and_data` and the header latched from an earlier cycle (541).

**Undefined behaviour.**

- `setDpiSignal32(..., 32)` may yield the data or 0 (`DpiSignal32Full`).
- A NULL `rdata_head` dereference sets `crashed`, and the model stops there.

**Refinement.** `RQ == INSTANCE RdataQueue WITH queue <- QueueSeq(rq), pending <- rq.rdCnt, bus <- rdataBus`. `QueueSeq` walks the linked list from `rdata_head`.

**Command pulses.** `CmdPulsesOncePerCommand` says that after a falling edge the cfg0, config-data and command pins are high only if the event of that cycle carried a command of that kind. The three pin groups share the countdown `c_tlx_afu_cmd_and_cfg_valid_dly` (698-705), so a config command followed in the next cycle by a memory command keeps `tlx_cfg0_valid` high a second cycle (`bfm_cmd_repeat`).

**Credit returns.** An OCSE event may carry the four credit-return flags and the config response ack (`OcseReturns`; `ev.returns`). A clock-only event leaves them as they were. The falling edge drives them to the credit pins and `tlx_cfg0_resp_ack` (`DriveCredits`, 742-747), then clears the four credit flags but not the ack (`ClearCredits`, 751-756). The pins are outputs only, so they are not state. The history variable `returnsSent` holds what OCSE sent since the last falling edge. `ReturnsPresentedOnce` says that every return driven was sent in that cycle. `bfm_bridge` checks it with the response credit; the four flags are handled by identical lines. `TlxBfm_ack_repeat.cfg` sends the ack instead, and TLC finds the property violated: after one ack, the pin stays high on every later cycle (a hazard in `PROJECT.json`, not a run for lack of run budget).

`TlxBfm_underrun.cfg` is kept as a reproducer but is not a run. With `AfuObeysRdCnt = FALSE`, an AFU that asks for beats that have not arrived makes `rdata_head` NULL at line 711, and TLC finds `NoNullHeadDrain` violated. It needs an AFU that breaks the protocol, so the run budget went to `bfm_cmd_repeat`, which a correct AFU triggers.

### `DpiConv` — the DPI conversion helpers

Pure operators, one per helper of afu_driver.c:101-193.

- **Words.** TLC's integers are signed 32-bit, so `0xFFFFFFFF` and 64-bit values cannot be numbers. A 32-bit word is a function from byte positions 0..3 to 0..255, byte 0 least significant. A 64-bit value has eight bytes.
- **Byte order.** The cast `(uint32_t*)myCacheData` reads four buffer bytes in the host's order. The bridge runs on little-endian hosts, so buffer byte `4i+k` is byte `k` of word `i` (`WordAt`).
- **Shifts.** `ShlWord`, `NotWord` and `AndWord` are `<<`, `~` and `&` on such words.
- **Undefined behaviour.** `Mask(size)` is the set of masks `~(0xFFFFFFFF << size)` can produce. Below 32 there is one. At 32 the shift is undefined: the x86 `shl` instruction masks the count to 0, giving mask 0, and a constant-folding compiler gives all ones. `setDpiSignal32` returns a set of pin values.
- **Loops.** `CacheWordIndex` is the word index the three loops store at: `j = i`. The reversal `j = n-(i+1)` is commented out in the code. `ArrayWords` is the loop bound `arrayLength/4` of `getMyByteArray`. Bytes past the last whole word keep their old value.
- **Scale.** `LineWords` scales the cacheline down from 16 words.

### `DpiBoundary` — the conversions at the bridge's call sites

- **State:** the buffers `getMyByteArray` and `getMyCacheLine` fill, which are C globals that persist from cycle to cycle (`arrBuf`, `lineBuf`); the signals they were last filled from (`arrSig`, `lineSig`); and `last`, the most recent conversion with its input and output.
- **Actions:** one per kind of call site.
  - `SampleArray`: the object handle at 413 and the config read data at 510.
  - `SampleLine`: the command and response data at 440 and 520.
  - `Sample64`: the byte-enable mask at 422, and `set_simulation_time`.
  - `Drive32`: every `setDpiSignal32` field at 597-749. The pin gets any value the build can produce.
  - `Drive64`: the PA and byte-enable fields.
  - `DriveLine`: the response and command data beats at 711 and 730.
- **Inputs:**
  - words 0, `0x12345678` and `0xFFFFFFFF`;
  - a bval of 0 or with X/Z in bit 0;
  - the sizes the call sites use.

### `AfuDataPath` — the test AFU's data handlers

Each action is one host access carried through the handler:

| Action | Code | What it does |
|---|---|---|
| `ConfigRead` | `tlx_afu_config_read` | lane switch, memcpy, `byte_shift` RIGHT |
| `ConfigWrite` | `tlx_afu_config_write`, READY branch | `byte_shift` LEFT; `if(config_data = 0x50c)`; store at `cmd_pa & 0xFFC` |
| `PrRdMem` | `tlx_pr_rd_mem` | shift by the full `pa` cast to `uint8_t` |
| `PrWrMem` | `tlx_pr_wr_mem`, READY branch | |

- `byte_shift` is `ShiftRight`, a recursive loop that keeps the overlap behaviour, and `ShiftLeft`.
- The registers and MMIO space are byte maps.
- `hostVsec` and `hostMmio` record what the host wrote; they are the reference a read is checked against.
- Initial bytes and written bytes are distinct within a word, so a byte in the wrong lane is visible.
- The rd_req/credit/response handshake around the data is left to the lifecycle module (plan, §6).

### `HostAccess` — the abstract host-access machines

This is the promise of spec 4.5, seen from the host.

- **State:** `phase[t]` (free, queued, awaitData) for each capptag, `kind[t]` (the kind last sent with it), and `req` (data beats asked for and not delivered).
- **Actions:** `Send`, then `DeliverRead` (a read-class command is answered at delivery), or `DeliverWrite` (a write-class command asks for one beat) followed by `DataArrives` (the beat arrives and the command is answered).

`AfuDevice` implements it for a sequential host. `HostAccessRefined` is `HA!Spec` under the mapping `phase <- HostPhase(t)` (from `host[t].st`), `kind <- host[t].kind`, `req <- dataReq`.

### `AfuDevice` — the test AFU's main loop, `AFU::start`

One `Tick` is one iteration of the `while(1)` loop for one OCSE event, in code order:

1. `resolve_tlx_afu_cmd` for a delivered command: its capptag and address are latched into `evTag`/`evPa` (the `afu_event` fields), then `tlx_afu_config_read`, `tlx_afu_config_write`, `tlx_pr_rd_mem` or `tlx_pr_wr_mem` runs.
2. `resolve_tlx_afu_resp` for a response, then again for a config-response ack (which carries no response: opcode `"nop"`), then for response data if `mem_state` is `WAITING_FOR_DATA`.
3. `tlx_afu_config_write` and then `tlx_pr_wr_mem` for a command-data beat, each if its state is READY.
4. The `afu_enable_reset` clear (`afu_is_reset`), then `Lifecycle`: IDLE → READY, READY → RUNNING (`get_machine_context`), and the three RUNNING branches (write status, poll status, round-robin issue).

**Data abstraction.**

- A host command is its kind (`cfg_rd`, `cfg_wr`, `pr_rd`, `pr_wr`), a tag from `Tags`, and what its address hits (`enable` = VSEC 0x50c, `ctx` = a context word of the MMIO space, `other`). The data itself is `AfuDataPath`'s business.
- `host[t].st` is the OCSE/host view of the command: free, queued at OCSE, or delivered to the AFU.
- A response is recorded in `respSent` as `[tag, kind]`: the capptag the AFU sent (always `afu_event.tlx_afu_cmd_capptag`) and the handler that sent it.
- `consumers` records which handlers took the iteration's command-data beat (`DataBeatTakenOnce`, checked only by a reproducer; see §3).

**Environment.**

- `HostSend` queues a host command. With `HostOverlap = FALSE` the host waits for each answer, like `tests/lpc_mem.c`.
- `Events` is every event OCSE may send. It only delivers what it owes: requested data beats (`dataReq`, `respDataReq`), responses to the AFU's own commands (`outRd`, `outWr`), and an ack of a config response.
- `MachineController::send_command` sends a read, a write or nothing (`SendMachineCommand`).
- The response credit is assumed available.
- An AFU command needs one of `CmdCredits` (`SendAfuCmd`). `write_app_status` and `read_app_status` call the send routine unconditionally after `TagManager::request_tag` and ignore its return code. The credit test is in the send library (`tlx_interface.c`, not in this repository). The model takes it from spec 4.2: a send without a credit is refused and changes nothing. So a refused status read is lost while `status_resp_valid` is already set. `SendAfuCmd` is spec-modelled in `PROJECT.json`.
- `resolve_tlx_afu_cmd` is modelled for the four type-0 commands the host sends. A config read or write with `tlx_afu_cmd_t == 1` (456-462, 466-472), or an opcode the switch does not list, is taken and never answered. No host in the runs sends one: it would keep its capptag forever.
- Every event carries fresh valid flags. The AFU clears the response, response-data, ack and credit flags itself, but never `tlx_afu_cmd_valid` or `tlx_afu_cmd_data_valid`. Whether they survive into the next event depends on `tlx_get_tlx_events` (`tlx_interface.c`, not in this repository). If they do, as the bridge's comment at afu_driver.c:752 says of the same function, old commands and data beats are handled again. Two hazards in `PROJECT.json` record this; no run checks it.

**Not reached.** `RESET`, `WAITING_FOR_LAST_RESPONSES` and `HALT`: only `resolve_control_event` sets RESET, and nothing calls it.

### MC modules

- `MC_TlxBfm` defines three pointer model values and small sets for `RespDl` and `RdCntBeats`.
- `MC_AfuDataPath` defines the register and MMIO offsets.
- `MC_AfuDevice` defines the tag sets and the host command kinds of each run.
- `MC_DpiBoundary` defines the word values, the `setDpiSignal32` sizes of the call sites, and the array lengths: 4 (the config read data) or 9 (the object handle).

## 3. Runs

| Run | Cfg | Expect | Checks | What it shows |
|---|---|---|---|---|
| bfm_bridge | TlxBfm_bridge.cfg | pass (243,816 states) | TypeOK, ListWellFormed, PulsesLastOneCycle, RdataQueueRefined, RequestedBeatsDelivered, ReturnsPresentedOnce | With a well-behaved AFU, the malloc'ed list stays acyclic and exact, and `rdata_tail` is its last packet while it is non-empty. The list implements the FIFO, every requested beat is delivered, and the response, response-data and command-data pins last exactly one cycle under all three command kinds. Each credit return reaches the AFU for exactly one cycle. |
| bfm_cmd_repeat | TlxBfm_cmd_repeat.cfg | violation | CmdPulsesOncePerCommand | A config command followed in the next cycle by a memory command keeps `tlx_cfg0_valid` and `c_config_cmd_data_valid` high through the second cycle, so the AFU sees the config command twice (698). |
| bfm_resp_collision | TlxBfm_resp_collision.cfg | violation | RespForwarded | AFU and cfg0 responses in one cycle: the AFU's is lost. |
| dp_aligned | AfuDataPath_aligned.cfg | pass (1,487 states) | TypeOK, ReadReturnsWritten, NoBusOverflow | Word config reads and word/double-word partial memory accesses return what was written, and the shifts stay on the bus. |
| dp_cfg_write | AfuDataPath_cfg_write.cfg | violation | ReadReturnsWritten | Every config write stores 0x50c. |
| dp_mmio_high | AfuDataPath_mmio_high.cfg | violation | NoBusOverflow | `tlx_pr_rd_mem` at MMIO offset 0x1048 shifts past the bus. |
| dev_host | AfuDevice_host.cfg | pass (1,439 states) | RespondsToOpenCommand, HostCommandAnswered, HostAccessRefined | A sequential host, with the AFU enabled but never finding a context: every command gets exactly one answer, of its kind, and eventually gets it. The handlers implement the abstract access machines of `HostAccess`: a write-class command asks for exactly one beat and is answered when it arrives. |
| dev_running | AfuDevice_running.cfg | pass (213,983 states) | TypeOK, RespondsToOpenCommand | The same while the AFU runs, writes and polls the status word and issues its own commands: answers still match and carry the capptag of the command they answer, with two tags in use. |
| dev_overlap | AfuDevice_overlap.cfg | violation | RespondsToOpenCommand | A partial write waiting for data and a config write: one beat completes both, and both answers carry the config write's tag. |
| dev_pr_wr_dropped | AfuDevice_clobber.cfg | violation | HostCommandAnswered | A partial write while the AFU waits for its status data is dropped (or its READY is overwritten by a READ_RESP) and never answered. |
| dpi_pins | DpiBoundary_pins.cfg | pass (20,677 states) | TypeOK, CacheLineWordOrder, Field64LowWordFirst, FieldsMaskedToWidth | Cachelines and 64-bit fields cross the boundary in a fixed word order, low word first, and round-trip exactly. The X/Z flag is reported exactly when a word has X/Z. Every field below 32 bits is masked to its width with no X/Z left. |
| dpi_cfg0_data | DpiBoundary_cfg0_data.cfg | violation | FieldsMaskedToWidth | `setDpiSignal32(..., 32)` (the config data at 647) shifts by 32, which is undefined. A build where `shl` masks the count drives 0 instead of the data. |

Every property of a passing run has a mutant in `PROJECT.json`: a variant of one mapped definition, defined just before it, that TLC must catch. The variants are:

- a countdown without its zero test;
- the credit flags not cleared after driving them;
- the empty-list test done on `rdata_tail`;
- a push at the head;
- a drain that waits for two requested beats;
- a longer `CLOCK_EDGE_DELAY`;
- `cmd_pa` masked with 0x0FFC;
- an unshifted LEFT copy;
- a RIGHT loop running once too often;
- a `switch` case of `resolve_tlx_afu_cmd` missing its `break` (partial read falls into partial write);
- a config write whose `cmd_rd_req` is never sent;
- a config write that leaves `config_state` READY after its data phase;
- an AFU command sent with no credit left (`>` for `>=`);
- the commented-out cacheline word reversal;
- `setDpiSignal64` driving the high word first;
- a mask one bit wide (`size + 1`);
- `setDpiSignal32` leaving bval as X.

`ByteArraysFilled` is checked by no run. For the whole-word lengths the bridge passes everywhere else (4), it holds by arithmetic. `DpiBoundary_obj_handle.cfg` is not a run of the project. It sets the array length to 9, the object handle of line 413, and TLC finds `ByteArraysFilled` violated: `9/4 = 2` words are copied, so byte 8 keeps the previous command's value, and X/Z in the third word is not reported. The hazard at afu_driver.c:413 in `PROJECT.json` records it.

`AfuDevice_data_race.cfg` is not a run either. `DataBeatTakenOnce` can fail only when `config_state` and `mem_state` are READY together, which a sequential host never reaches. With a config write and a partial write open at once, TLC finds it violated in a few steps: both handlers take the one data beat (AFU.cpp:169-178). `dev_overlap` shows the consequence, a misanswered command.

## 4. Bounds

**`TlxBfm`.**

- Three heap addresses and `MaxBeats` = 2 in `bfm_bridge`.
- Responses of 1 or 2 beats and requests of 1 or 2 beats.
- With these bounds the list is filled, emptied to a dangling tail, and refilled. Two beats are queued while one is drained. Both countdown restarts overlap.
- Command data is one value, because the properties only ask whether data is present.

**`AfuDataPath`.**

- Two registers, one of them at offset 60 of a 64-byte window, so that a shift ending at the bus edge is reached.
- Two MMIO words, so that the word at `w+4` is distinct from `w`.
- Three accesses, enough for a write followed by reads of both halves.

**`AfuDevice`.**

- Two tags: with a sequential host, or two open at once in `dev_overlap`. Two tags also in `dev_running`, so a response carrying the previous command's capptag (which the AFU keeps latched while it runs its own commands) is told apart from a correct one.
- `CmdCredits` = 1 or 2 and `MaxOwed` = 1. OCSE sends a read response only while fewer than `MaxOwed` response beats are owed. Without that bound, the early end of WAITING_FOR_DATA (`dev_resp_data`) lets owed beats pile up without limit.
- These bounds reach every handler branch: both handshakes, a command during WAITING_FOR_DATA, a READ_RESP over READY, status polling with a stale 0xff, and a send refused for lack of credit.

**`DpiBoundary`.**

- `LineWords` = 2: the word order is visible with two words, and every cacheline over three word values is enumerated.
- The word values are 0, `0x12345678` (four distinct bytes, so a byte in the wrong lane shows) and all ones (so every mask bit shows).
- The sizes 2, 3, 4, 6, 8, 16, 18 and 24 are those of the call sites. They cross every byte boundary. Size 32 is the UB case, checked alone in `dpi_cfg0_data`.

## 5. Fairness

`Spec` of `TlxBfm` has weak fairness on `ClockLow` and `ClockHigh`. The simulator keeps calling `tlx_bfm` on both edges. `tlx_control` returns once OCSE sends the next clock event, or at once after the socket closes. That justifies the fairness, and it is all that `RequestedBeatsDelivered` relies on.

`AfuDevice`'s `Spec` has weak fairness on a loop iteration, and on iterations that deliver a queued command, a requested data beat, an owed response, owed response data and a config ack. OCSE is a simulator that keeps sending events and serves its queues. `HostCommandAnswered` relies on exactly that.

`AfuDataPath` and `DpiBoundary` have no liveness property. Its runs stop after `MaxOps` host accesses, which is why deadlock checking is off there.

## 6. Plan and what is not modelled

The modules were built in this order:

1. The response-data list and its FIFO refinement, the riskiest state in the bridge.
2. The pulse countdowns.
3. The AFU data path.
4. The AFU main loop (`AfuDevice`).
5. The DPI conversions and their call sites (`DpiConv`, `DpiBoundary`).

Left for later, most important first:

1. A liveness property of command issue in RUNNING: the round-robin loop clears `cmd_ready` even when no machine sends.
2. Runs for the hazards modelled but not checked:
   - `rd_req` beyond the queued beats (afu_driver.c:711), kept as `TlxBfm_underrun.cfg`;
   - the stale bdi flag on queued beats (713). A run for it was retired to stay within the project's run budget; the model kept the flag only for that property;
   - the WAITING_FOR_DATA wait ended by a header or an ack (AFU.cpp:502), retired for the same reason;
   - sub-word config reads (AFU.cpp:602);
   - the host enable write never leading out of IDLE (AFU.cpp:193).
3. The write port 0x40c of `tlx_afu_config_write` (AFU.cpp:724-737). It moves data between the AFU descriptor and the read port 0x410 through `Descriptor`, which is not in this repository. Because of the `=` test at line 722, every port write selects descriptor offset 0x50c, whatever offset the host wrote.
4. Response credits (`TagManager`) as a counted resource, so that a dropped answer (AFU.cpp:745) is reached.

Not modelled:

- the initial-credit values and `tlx_afu_ready` (748-750): constants of the event, driven every cycle;
- `tlx_bfm_init` (socket I/O). It calls `tlx_serv_afu_event` twice per port. A success of the second call is discarded and the loop moves on to the next port. The loop also keeps going after a version error and after port 65535. All of these are one hazard in `PROJECT.json`;
- partial memory commands with pl 0 or 1 (their `data_size` is uninitialised; a hazard in `PROJECT.json`);
- **`Machine`** (Machine.cpp). The AFU sets `cmd_ready` only together with `get_machine_context` (AFU.cpp:231-235), and `get_machine_context` creates a fresh `MachineController` each time (AFU.cpp:351). So a machine never lives past its first send attempt, and its delay, `once` and restart logic never runs. `Machine::process_response` is empty, and nothing calls `resolve_response_event` or `resolve_control_event`. Command completion lives in the `Command` classes, which are not in this repository. `AfuDevice` therefore abstracts a send attempt to read, write or nothing. Two hazards of `attempt_new_command` and `read_machine_config` are listed in `PROJECT.json` without a property.
- **`Lpc`** (Lpc.cpp). Nothing in the repository calls it.
- **`tests/lpc_mem.c`**. It is a sequential client that writes 64 bytes, reads them back and prints them without checking. `HostOverlap = FALSE` is its model.
- a composition of `TlxBfm` with `AfuDevice`. Both are servers OCSE connects to (`tlx_serv_afu_event` in `tlx_bfm_init` and in the `AFU` constructor), one for an HDL AFU in a simulator and one for the C++ test AFU. They never talk to each other, so each is composed with its own environment: the AFU's pins for the bridge, OCSE's events for the test AFU.
- the headers (`mmio.h`, `libocxl_lpc.h`): declarations of code (`mmio.c`, libocxl) that is not in this repository.
