---------------------------- MODULE DpiBoundary ----------------------------
(***************************************************************************)
(* The bridge's use of the DPI conversions of DpiConv at its call sites.   *)
(* On every rising edge tlx_bfm samples the AFU's buses with getMy*        *)
(* into global C buffers that persist from cycle to cycle (afu_driver.c    *)
(* 405-523, 785-789); on every falling edge it drives its fields onto the  *)
(* simulator's pins with setDpiSignal32/64 and setMyCacheLine (595-750).   *)
(*                                                                         *)
(* The state is what persists: the byte buffers getMyByteArray and         *)
(* getMyCacheLine fill (c_afu_tlx_cmd_ea_or_obj, c_afu_tlx_rdata_bus,      *)
(* c_afu_tlx_cdata_bus) with the signal they were last filled from, and    *)
(* the most recent conversion, whose input and output the properties       *)
(* relate.  Each step is one call at one kind of call site, with any       *)
(* input the small constant sets allow.                                    *)
(***************************************************************************)
EXTENDS DpiConv, Sequences

CONSTANTS
    WordNats,      \* word values (below 2^31) the sampled and driven words carry
    DriveSizes,    \* size arguments of the setDpiSignal32 call sites
    ArrayLengths   \* arrayLength arguments of the getMyByteArray call sites

ASSUME WordNats \subseteq 0..(2^30)
ASSUME DriveSizes \subseteq 0..32 /\ ArrayLengths \subseteq 1..64

VARIABLES
    arrBuf,    \* arrBuf[len]: the buffer getMyByteArray(.., len, ..) fills
    arrSig,    \* arrSig[len]: the signal it was last filled from
    lineBuf,   \* the cacheline buffer getMyCacheLine fills
    lineSig,   \* the signal it was last filled from
    last       \* the most recent conversion: its op, input and output

vars == <<arrBuf, arrSig, lineBuf, lineSig, last>>

Words == {ToWord(v) : v \in WordNats} \cup {OnesWord}
XZWords == {ZeroWord, ToWord(1)}           \* bval: no X/Z, or X/Z in bit 0
Signals(n) == [0..n-1 -> [aval : Words, bval : XZWords]]
\* Cachelines whose words are in Words, laid out on the host.
LinesOfWords == {[k \in 0..CACHELINE_BYTES-1 |-> ws[k \div 4][k % 4]] :
                    ws \in [0..LineWords-1 -> Words]}
NoSig == <<>>                            \* the empty function: nothing sampled yet
ArrayWordsOf(len) == (len + 3) \div 4      \* words on the bus for len bytes
HasXZ(sig, n) == \E i \in 0..n-1 : sig[i].bval # ZeroWord

\* The 64-bit value whose low word is lo and whose high word is hi.
Join64(lo, hi) == [k \in Bytes64 |-> IF k < 4 THEN lo[k] ELSE hi[k - 4]]

\* The low size bits of a word: the field masked to N bits.
LowBits(w, size) ==
    [k \in Bytes32 |-> w[k] % 2^(IF size >= 8*(k+1) THEN 8
                                 ELSE IF size <= 8*k THEN 0 ELSE size - 8*k)]

\* The C globals are zero-initialised; nothing has been sampled yet.
Init ==
    /\ arrBuf = [len \in ArrayLengths |-> [k \in 0..len-1 |-> 0]]
    /\ arrSig = [len \in ArrayLengths |-> NoSig]
    /\ lineBuf = [k \in 0..CACHELINE_BYTES-1 |-> 0]
    /\ lineSig = NoSig
    /\ last = [op |-> "none"]

(***************************************************************************)
(* Rising edge: getMyByteArray into a byte array (the 9-byte object handle *)
(* of a command, 413; the 4-byte config read data at its offset, 510).     *)
(***************************************************************************)
SampleArray(len, sig) ==
    LET r == getMyByteArray(sig, len, arrBuf[len])
    IN /\ arrBuf' = [arrBuf EXCEPT ![len] = r.data]
       /\ arrSig' = [arrSig EXCEPT ![len] = sig]
       /\ last' = [op |-> "getArray", err |-> r.err]
       /\ UNCHANGED <<lineBuf, lineSig>>

(***************************************************************************)
(* Rising edge: getMyCacheLine into the command or response data buffer    *)
(* (440, 520).                                                             *)
(***************************************************************************)
SampleLine(sig) ==
    LET r == getMyCacheLine(sig, lineBuf)
    IN /\ lineBuf' = r.data
       /\ lineSig' = sig
       /\ last' = [op |-> "getLine", err |-> r.err]
       /\ UNCHANGED <<arrBuf, arrSig>>

(***************************************************************************)
(* getMy64Bit: the command byte-enable mask (422) and set_simulation_time  *)
(* (785-789).                                                              *)
(***************************************************************************)
Sample64(sig) ==
    LET r == getMy64Bit(sig)
    IN /\ last' = [op |-> "get64", sig |-> sig, conv |-> r.conv, err |-> r.err]
       /\ UNCHANGED <<arrBuf, arrSig, lineBuf, lineSig>>

(***************************************************************************)
(* Falling edge: setDpiSignal32 of a field (597-606, 647/652, 660-664,     *)
(* 679-688, 748-749); the pin gets any value the build can produce.        *)
(***************************************************************************)
Drive32(w, size) ==
    /\ \E pin \in setDpiSignal32(w, size) :
          last' = [op |-> "set32", in |-> w, size |-> size, pin |-> pin]
    /\ UNCHANGED <<arrBuf, arrSig, lineBuf, lineSig>>

\* setDpiSignal64 of a PA or byte-enable mask (661, 683, 686).
Drive64(lo, hi) ==
    /\ last' = [op |-> "set64", in |-> Join64(lo, hi),
                pin |-> setDpiSignal64(Join64(lo, hi))]
    /\ UNCHANGED <<arrBuf, arrSig, lineBuf, lineSig>>

\* setMyCacheLine of a response or command data beat (711, 730).
DriveLine(buf) ==
    /\ last' = [op |-> "setLine", in |-> buf, pin |-> setMyCacheLine(buf)]
    /\ UNCHANGED <<arrBuf, arrSig, lineBuf, lineSig>>

Next ==
    \/ \E len \in ArrayLengths : \E sig \in Signals(ArrayWordsOf(len)) : SampleArray(len, sig)
    \/ \E sig \in Signals(LineWords) : SampleLine(sig)
    \/ \E sig \in Signals(2) : Sample64(sig)
    \/ \E w \in Words, size \in DriveSizes : Drive32(w, size)
    \/ \E lo, hi \in Words : Drive64(lo, hi)
    \/ \E buf \in LinesOfWords : DriveLine(buf)

Spec == Init /\ [][Next]_vars

-----------------------------------------------------------------------------
Lines == [0..CACHELINE_BYTES-1 -> 0..255]
Conversions ==
    {[op |-> "none"]}
    \cup [op : {"getArray", "getLine"}, err : {0, 1}]
    \cup [op : {"get64"}, sig : Signals(2), conv : [Bytes64 -> 0..255], err : {0, 1}]
    \cup [op : {"set32"}, in : Words, size : DriveSizes,
          pin : [aval : [Bytes32 -> 0..255], bval : {ZeroWord}]]
    \cup [op : {"set64"}, in : [Bytes64 -> 0..255],
          pin : [0..1 -> [aval : [Bytes32 -> 0..255], bval : {ZeroWord}]]]
    \cup [op : {"setLine"}, in : Lines,
          pin : [0..LineWords-1 -> [aval : [Bytes32 -> 0..255], bval : {ZeroWord}]]]

TypeOK ==
    /\ \A len \in ArrayLengths : arrBuf[len] \in [0..len-1 -> 0..255]
    /\ \A len \in ArrayLengths : arrSig[len] \in Signals(ArrayWordsOf(len)) \cup {NoSig}
    /\ lineBuf \in Lines
    /\ lineSig \in Signals(LineWords) \cup {NoSig}
    /\ last \in Conversions

(***************************************************************************)
(* Cachelines cross the boundary in a fixed, non-reversed word order       *)
(* (spec 6): the buffer getMyCacheLine filled holds signal word i as bytes *)
(* 4i..4i+3, lowest byte first, and the call returned 1 exactly when a     *)
(* word had X/Z; the beat setMyCacheLine drove has buffer bytes 4i..4i+3   *)
(* in word i and no X/Z.                                                   *)
(***************************************************************************)
CacheLineWordOrder ==
    /\ lineSig # NoSig =>
         \A k \in 0..CACHELINE_BYTES-1 : lineBuf[k] = ByteOf(lineSig[k \div 4].aval, k % 4)
    /\ last.op = "getLine" => ((last.err = 1) <=> HasXZ(lineSig, LineWords))
    /\ last.op = "setLine" =>
         \A i \in 0..LineWords-1 :
            /\ last.pin[i].bval = ZeroWord
            /\ \A k \in 0..3 : ByteOf(last.pin[i].aval, k) = last.in[4*i + k]

(***************************************************************************)
(* A 64-bit field travels low word first: setDpiSignal64 drives the low    *)
(* 32 bits in the first word and getMy64Bit reads the pins back to the     *)
(* same value; getMy64Bit returns 1 exactly when either word has X/Z.      *)
(***************************************************************************)
Field64LowWordFirst ==
    /\ last.op = "set64" =>
         /\ last.pin[0].aval = [k \in Bytes32 |-> last.in[k]]
         /\ getMy64Bit(last.pin) = [conv |-> last.in, err |-> 0]
    /\ last.op = "get64" => ((last.err = 1) <=> HasXZ(last.sig, 2))

(***************************************************************************)
(* Every field setDpiSignal32 drives is its value masked to size bits with *)
(* no X/Z, whatever mask the build computed (spec 6: mask an integer field *)
(* to N bits before driving it outward).                                   *)
(***************************************************************************)
FieldsMaskedToWidth ==
    last.op = "set32" => last.pin = [aval |-> LowBits(last.in, last.size), bval |-> ZeroWord]

(***************************************************************************)
(* Each byte array getMyByteArray filled holds all of its len bytes from   *)
(* the signal it was last sampled from, none left over from an earlier     *)
(* cycle.                                                                  *)
(***************************************************************************)
ByteArraysFilled ==
    \A len \in ArrayLengths :
        arrSig[len] # NoSig =>
            \A k \in 0..len-1 : arrBuf[len][k] = ByteOf(arrSig[len][k \div 4].aval, k % 4)

=============================================================================
