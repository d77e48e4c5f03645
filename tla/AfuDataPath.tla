----------------------------- MODULE AfuDataPath -----------------------------
(***************************************************************************)
(* The data path of the test AFU's config and partial-memory handlers     *)
(* (test/afu/AFU.cpp): tlx_afu_config_read, the data phase of              *)
(* tlx_afu_config_write, tlx_pr_rd_mem, the data phase of tlx_pr_wr_mem    *)
(* and byte_shift.  Each action is one host access carried through the    *)
(* handler to the register file or MMIO space and, for a read, back to the *)
(* bytes the host takes from the 64-byte response beat.  The handshake     *)
(* around the data (rd_req, credits, response) is not part of this module. *)
(*                                                                         *)
(* Besides the code's state the module keeps what the host has written     *)
(* (hostVsec, hostMmio): the reference a read is compared with.            *)
(***************************************************************************)
EXTENDS Naturals, FiniteSets, TLC

CONSTANTS
    CfgRegs,    \* 4-aligned VSEC register offsets the host accesses
    CfgPl,      \* partial-length codes of the config commands issued
    MemWords,   \* 8-aligned MMIO offsets the host accesses
    MemPl,      \* partial-length codes of the pr_rd_mem / pr_wr_mem issued
    CfgWrites,  \* whether the host issues config writes
    MaxOps      \* host accesses explored

\* The write port 0x40c has its own semantics and is not a plain register.
ASSUME \h40c \notin CfgRegs /\ \A r \in CfgRegs : r % 4 = 0 /\ r < \h1000
ASSUME \A w \in MemWords : w % 8 = 0 /\ w < \h10000
ASSUME CfgPl \subseteq {0, 1, 2} /\ MemPl \subseteq {2, 3} /\ CfgWrites \in BOOLEAN

BusBytes == 64     \* afu_tlx_rdata_bus and tlx_afu_cmd_data_bus are 64 bytes
Garbage == 0       \* bytes of a data beat outside the bytes written

\* Content of byte a at start, and the bytes the host writes in its k-th
\* access: all distinct within a word and from Garbage, so that a byte
\* taken from or stored to the wrong lane is seen.
Initial(a) == 100 + (a % 64)
WriteValue(k, i) == 200 + 10 * k + i
Values == 0..WriteValue(MaxOps, 7)

\* Little-endian bytes of a 32-bit word, as memcpy lays them out on x86.
WordBytes(w) == [i \in 0..3 |-> (w \div (256 ^ i)) % 256]

CfgBytes == {r + i : r \in CfgRegs, i \in 0..3}
MmioBytes == {w + i : w \in MemWords, i \in 0..7}

\* Size in bytes of a partial access of length code pl.
PlSize(pl) == 2 ^ pl

VARIABLES
    vsec,       \* byte address -> value: descriptor's VSEC registers
    mmio,       \* byte address -> value: descriptor's MMIO space
    rdataBus,   \* afu_event.afu_tlx_rdata_bus, kept from one read to the next
    overflow,   \* a byte_shift has touched a byte past the 64-byte bus
    hostVsec,   \* reference: the VSEC bytes as the host wrote them
    hostMmio,   \* reference: the MMIO bytes as the host wrote them
    lastRead,   \* [got, want] of the latest read, or NoRead
    ops         \* host accesses made

vars == <<vsec, mmio, rdataBus, overflow, hostVsec, hostMmio, lastRead, ops>>

NoRead == [got |-> <<>>, want |-> <<>>]

(***************************************************************************)
(* Register file and MMIO space (Descriptor, not under src/): a store of   *)
(* bytes; a store to an address never used before creates it.             *)
(***************************************************************************)
StoreBytes(m, addr, bytes) ==
    [a \in {addr + i : i \in DOMAIN bytes} |-> bytes[a - addr]] @@ m

LoadBytes(m, addr, n) == [i \in 0..n-1 |-> m[addr + i]]

(***************************************************************************)
(* byte_shift.  RIGHT copies array[i] to array[offset+i] for ascending i,  *)
(* so with 0 < offset < size it reads bytes it has already overwritten;    *)
(* the loop is kept.  LEFT copies array[offset+i] to array[i]: it only     *)
(* reads bytes at or above the one it writes, which the loop has not yet   *)
(* touched, so it is the simultaneous copy.  An index past the bus is a   *)
(* write (RIGHT) or read (LEFT) outside the array: it sets over.           *)
(***************************************************************************)
\* Variant of ShiftRight whose loop runs once too often (i <= size).
RECURSIVE ShiftRightPlusOne(_, _, _, _)
ShiftRightPlusOne(s, size, offset, i) ==
    IF i > size THEN s
    ELSE ShiftRightPlusOne(
           IF offset + i < BusBytes
             THEN [s EXCEPT !.bus[offset + i] = s.bus[i]]
             ELSE [s EXCEPT !.over = TRUE],
           size, offset, i + 1)

RECURSIVE ShiftRight(_, _, _, _)
ShiftRight(s, size, offset, i) ==
    IF i >= size THEN s
    ELSE ShiftRight(
           IF offset + i < BusBytes
             THEN [s EXCEPT !.bus[offset + i] = s.bus[i]]
             ELSE [s EXCEPT !.over = TRUE],
           size, offset, i + 1)

\* Variant of ShiftLeft that copies the bottom of the beat, unshifted.
ShiftLeftUnshifted(bus, size, offset) ==
    [bus |-> bus, over |-> offset + size > BusBytes]

ShiftLeft(bus, size, offset) ==
    [bus  |-> [j \in 0..BusBytes-1 |->
                 IF j < size /\ offset + j < BusBytes THEN bus[offset + j]
                 ELSE bus[j]],
     over |-> offset + size > BusBytes]

(* The 64-byte beat carrying the host's write of bytes at pa: the data at  *)
(* byte pa & 0x3F of the beat, the rest garbage.                           *)
HostBeat(pa, n, k) ==
    [j \in 0..BusBytes-1 |->
        IF pa % 64 <= j /\ j < (pa % 64) + n THEN WriteValue(k, j - (pa % 64))
        ELSE Garbage]

(***************************************************************************)
(* cmd_pa = tlx_afu_cmd_pa & 0x0000FFFC (pa < 2^16 here).                 *)
(***************************************************************************)
\* Variant with the config-space mask 0x0FFC.
CmdPaMaskFFC(pa) == (pa % \h1000) - (pa % 4)

CmdPa(pa) == pa - (pa % 4)

\* vsec_offset = cmd_pa & 0x00000FFC in tlx_afu_config_write.
VsecWriteOffset(cmdPa) == (cmdPa % \h1000) - (cmdPa % 4)

(***************************************************************************)
(* tlx_afu_config_read: the register at vsec_offset = pa & 0xFFFC; the     *)
(* switch on vsec_offset picks the byte (pl 0) or half-word (pl 1) whose   *)
(* lane is vsec_offset itself, and leaves the whole register otherwise.   *)
(***************************************************************************)
CfgReadLane(vsecOffset, pl) ==
    CASE pl = 0 /\ vsecOffset \in 0..3   -> vsecOffset
      [] pl = 1 /\ vsecOffset \in {0, 2} -> vsecOffset
      [] OTHER                            -> 0

ConfigRead(pa, pl) ==
    LET vsecOffset == CmdPa(pa)
        byteOffset == pa % 64
        size       == PlSize(pl)
        vsecData   == LoadBytes(vsec, vsecOffset, 4)
        lane       == CfgReadLane(vsecOffset, pl)
        copied     == [j \in 0..BusBytes-1 |->
                         IF j < size THEN vsecData[lane + j] ELSE rdataBus[j]]
        shifted    == ShiftRight([bus |-> copied, over |-> FALSE],
                                 size, byteOffset, 0)
    IN  /\ rdataBus' = shifted.bus
        /\ overflow' = (overflow \/ shifted.over)
        /\ lastRead' = [got  |-> [i \in 0..size-1 |-> shifted.bus[byteOffset + i]],
                        want |-> LoadBytes(hostVsec, pa, size)]
        /\ UNCHANGED <<vsec, mmio, hostVsec, hostMmio>>

(***************************************************************************)
(* tlx_afu_config_write, config_state READY: data_size is 4 whatever the   *)
(* command's pl; the beat is shifted LEFT by pa & 0x3F and the 4 bytes     *)
(* stored at cmd_pa & 0xFFC.  The test `if(config_data = 0x50c)' assigns: *)
(* config_data is 0x50c whatever the beat held (and afu_enable_reset is    *)
(* set, which only the AFU lifecycle reads).                               *)
(***************************************************************************)
ConfigDataAfterResetTest(configData) == WordBytes(\h50c)

ConfigWrite(pa, pl) ==
    LET n       == PlSize(pl)
        shifted == ShiftLeft(HostBeat(pa, n, ops), 4, pa % 64)
        data    == [i \in 0..3 |-> shifted.bus[i]]
    IN  /\ vsec' = StoreBytes(vsec, VsecWriteOffset(CmdPa(pa)),
                              ConfigDataAfterResetTest(data))
        /\ hostVsec' = StoreBytes(hostVsec, pa,
                                  [i \in 0..n-1 |-> WriteValue(ops, i)])
        /\ overflow' = (overflow \/ shifted.over)
        /\ lastRead' = NoRead
        /\ UNCHANGED <<mmio, rdataBus, hostMmio>>

(***************************************************************************)
(* tlx_pr_rd_mem: data_size bytes at mem_offset = pa, copied to the bottom *)
(* of the response bus and shifted RIGHT by mem_offset, which byte_shift   *)
(* takes as a uint8_t: pa mod 256, where the host takes the data from     *)
(* byte pa & 0x3F.                                                         *)
(***************************************************************************)
PrRdMem(pa, pl) ==
    LET size    == PlSize(pl)
        memData == LoadBytes(mmio, pa, size)
        copied  == [j \in 0..BusBytes-1 |->
                      IF j < size THEN memData[j] ELSE rdataBus[j]]
        shifted == ShiftRight([bus |-> copied, over |-> FALSE],
                              size, pa % 256, 0)
    IN  /\ rdataBus' = shifted.bus
        /\ overflow' = (overflow \/ shifted.over)
        /\ lastRead' = [got  |-> [i \in 0..size-1 |-> shifted.bus[(pa % 64) + i]],
                        want |-> LoadBytes(hostMmio, pa, size)]
        /\ UNCHANGED <<vsec, mmio, hostVsec, hostMmio>>

(***************************************************************************)
(* tlx_pr_wr_mem, mem_state READY: the beat shifted LEFT by pa & 0x3F,     *)
(* data_size bytes stored at cmd_pa = pa & 0xFFFC.                         *)
(***************************************************************************)
PrWrMem(pa, pl) ==
    LET size    == PlSize(pl)
        shifted == ShiftLeft(HostBeat(pa, size, ops), size, pa % 64)
        memData == [i \in 0..size-1 |-> shifted.bus[i]]
    IN  /\ mmio' = StoreBytes(mmio, CmdPa(pa), memData)
        /\ hostMmio' = StoreBytes(hostMmio, pa,
                                  [i \in 0..size-1 |-> WriteValue(ops, i)])
        /\ overflow' = (overflow \/ shifted.over)
        /\ lastRead' = NoRead
        /\ UNCHANGED <<vsec, rdataBus, hostVsec>>

(***************************************************************************)
(* The host's accesses: naturally aligned, of a length code it issues.     *)
(***************************************************************************)
CfgAccesses == {<<r + l, pl>> : r \in CfgRegs, l \in 0..3, pl \in CfgPl}
MemAccesses == {<<w + l, pl>> : w \in MemWords, l \in 0..7, pl \in MemPl}
Aligned(acc) == acc[1] % PlSize(acc[2]) = 0

Init ==
    /\ vsec = [a \in CfgBytes |-> Initial(a)]
    /\ mmio = [a \in MmioBytes |-> Initial(a)]
    /\ rdataBus = [j \in 0..BusBytes-1 |-> 0]
    /\ overflow = FALSE
    /\ hostVsec = vsec
    /\ hostMmio = mmio
    /\ lastRead = NoRead
    /\ ops = 0

Next ==
    /\ ops < MaxOps
    /\ ops' = ops + 1
    /\ \/ \E acc \in CfgAccesses : Aligned(acc) /\ ConfigRead(acc[1], acc[2])
       \/ \E acc \in CfgAccesses : CfgWrites /\ Aligned(acc) /\ ConfigWrite(acc[1], acc[2])
       \/ \E acc \in MemAccesses : Aligned(acc) /\ PrRdMem(acc[1], acc[2])
       \/ \E acc \in MemAccesses : Aligned(acc) /\ PrWrMem(acc[1], acc[2])

Spec == Init /\ [][Next]_vars

-----------------------------------------------------------------------------
ByteMap(f, D) == DOMAIN f = D /\ \A x \in D : f[x] \in Values

TypeOK ==
    /\ ByteMap(vsec, CfgBytes) /\ ByteMap(hostVsec, CfgBytes)
    /\ ByteMap(mmio, MmioBytes) /\ ByteMap(hostMmio, MmioBytes)
    /\ ByteMap(rdataBus, 0..BusBytes-1)
    /\ overflow \in BOOLEAN
    /\ \E n \in {0, 1, 2, 4, 8} : ByteMap(lastRead.got, 0..n-1)
    /\ ops \in 0..MaxOps

(* Every config read and pr_rd_mem returns, in the bytes the host takes    *)
(* from the beat, what the host last wrote to those addresses (or their   *)
(* initial content): the lane selection of tlx_afu_config_read, the store  *)
(* offsets of config_write and pr_wr_mem and the two byte_shift directions *)
(* agree with each other for every aligned access.                         *)
ReadReturnsWritten == lastRead.got = lastRead.want

(* byte_shift never reads or writes past the 64-byte data bus, whatever   *)
(* offset the handlers hand it.                                            *)
NoBusOverflow == ~overflow

====
