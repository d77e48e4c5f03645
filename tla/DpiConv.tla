------------------------------ MODULE DpiConv ------------------------------
(***************************************************************************)
(* The signal-adaptation helpers of afu_driver.c (lines 101-192): the      *)
(* conversions between the simulator's four-state svLogicVecVal words and  *)
(* the C integers and byte buffers of the bridge.                          *)
(*                                                                         *)
(* A 32-bit word is a function from byte positions 0..3 to 0..255, byte  *)
(* 0 least significant: TLC's integers are signed 32-bit, so 0xFFFFFFFF    *)
(* and 64-bit values cannot be numbers here, and the shifts and masks of   *)
(* the code are stated on bytes.  A 64-bit value is eight such bytes.  A   *)
(* byte buffer is a function from offsets to 0..255.  The cast             *)
(* (uint32_t* )myCacheData reads four buffer bytes as one word in the      *)
(* host's byte order; the bridge runs on little-endian hosts, so buffer    *)
(* byte 4*i+k is byte k of word i.  A svLogicVecVal is a record            *)
(* [aval, bval] of two words; bval # 0 marks X or Z bits.                  *)
(*                                                                         *)
(* CACHELINE_BYTES is 64 in the code (16 words); LineWords scales the      *)
(* cacheline down so that every buffer over a small byte set can be        *)
(* enumerated.  DpiBoundary applies these operators at the call sites.     *)
(***************************************************************************)
EXTENDS Naturals, Bitwise

CONSTANT LineWords   \* words per cacheline (CACHELINE_BYTES/4; 16 in the code)

ASSUME LineWords \in 1..16

Bytes32 == 0..3
Bytes64 == 0..7
CACHELINE_BYTES == 4 * LineWords

\* A natural below 2^31 as a word, and the constant words of the code.
ToWord(n) == [k \in Bytes32 |-> (n \div 256^k) % 256]
ZeroWord == [k \in Bytes32 |-> 0]
OnesWord == [k \in Bytes32 |-> 255]          \* 0xFFFFFFFF

\* Byte k of a word, and the word buffer bytes 4i..4i+3 form on the host.
ByteOf(w, k) == w[k]
WordAt(buf, i) == [k \in Bytes32 |-> buf[4*i + k]]

\* uint32_t operators: << (bits shifted past bit 31 are lost), ~ and &.
ShlWord(w, n) ==
    LET q == n \div 8
        r == n % 8
        lowPart(k) == IF k >= q THEN (w[k - q] * 2^r) % 256 ELSE 0
        carry(k) == IF k >= q + 1 THEN w[k - q - 1] \div 2^(8 - r) ELSE 0
    IN [k \in Bytes32 |-> lowPart(k) + carry(k)]

NotWord(w) == [k \in Bytes32 |-> 255 - w[k]]

AndWord(v, w) == [k \in Bytes32 |-> v[k] & w[k]]

(***************************************************************************)
(* getMy64Bit (101-118): conv = msb.aval << 32 | lsb.aval, and 1 when      *)
(* either bval is non-zero.  sig[0] is my64bSignal, sig[1] the word after. *)
(***************************************************************************)
getMy64Bit(sig) ==
    [conv |-> [k \in Bytes64 |-> IF k < 4 THEN sig[0].aval[k]
                                           ELSE sig[1].aval[k - 4]],
     err  |-> IF sig[0].bval = ZeroWord /\ sig[1].bval = ZeroWord THEN 0 ELSE 1]

(***************************************************************************)
(* The word index j the getMy*/setMyCacheLine loops store word i at:       *)
(* j = i (the reversal j = n - (i + 1) is commented out in all three).     *)
(***************************************************************************)
\* Mutant: the commented-out reversal j = n - (i + 1).
CacheWordIndexReversed(i, n) == n - (i + 1)

CacheWordIndex(i, n) == i

\* The loop bound of getMyByteArray: arrayLength/4 whole words.
ArrayWords(arrayLength) == arrayLength \div 4

(***************************************************************************)
(* getMyByteArray (147-163): word i of the signal is stored as buffer word *)
(* j; bytes of buf past the last whole word keep their old value.  err is  *)
(* 1 when any word read has a non-zero bval.                               *)
(***************************************************************************)
getMyByteArray(sig, arrayLength, buf) ==
    LET n == ArrayWords(arrayLength)
        src(k) == CHOOSE i \in 0..n-1 : CacheWordIndex(i, n) = k \div 4
    IN [data |-> [k \in DOMAIN buf |->
                    IF k \div 4 < n THEN ByteOf(sig[src(k)].aval, k % 4)
                                    ELSE buf[k]],
        err  |-> IF \E i \in 0..n-1 : sig[i].bval # ZeroWord THEN 1 ELSE 0]

\* getMyCacheLine (129-145) is the same loop over CACHELINE_BYTES/4 words.
getMyCacheLine(sig, buf) == getMyByteArray(sig, CACHELINE_BYTES, buf)

(***************************************************************************)
(* setMyCacheLine (165-178): signal word j = buffer word i, bval = 0.      *)
(***************************************************************************)
setMyCacheLine(buf) ==
    LET n == LineWords
        src(j) == CHOOSE i \in 0..n-1 : CacheWordIndex(i, n) = j
    IN [j \in 0..n-1 |-> [aval |-> WordAt(buf, src(j)), bval |-> ZeroWord]]

(***************************************************************************)
(* setDpiSignal32 (180-185): aval = inData & ~(0xFFFFFFFF << size).  A     *)
(* shift by 32 or more is undefined in C: the x86 shl instruction masks    *)
(* the count to size % 32, and a compiler that folds the shift shifts all  *)
(* bits out; the set holds the masks either build can produce.             *)
(***************************************************************************)
\* Mutant: ~(0xFFFFFFFF << (size + 1)), one bit too many.
MaskWide(size) == {NotWord(ShlWord(OnesWord, (size + 1) % 32))}

Mask(size) ==
    IF size < 32 THEN {NotWord(ShlWord(OnesWord, size))}
    ELSE {NotWord(ShlWord(OnesWord, size % 32)), NotWord(ZeroWord)}

\* Mutant: bval left as the simulator had it (X) instead of cleared.
setDpiSignal32KeepsX(inData, size) ==
    {[aval |-> AndWord(inData, m), bval |-> OnesWord] : m \in Mask(size)}

setDpiSignal32(inData, size) ==
    {[aval |-> AndWord(inData, m), bval |-> ZeroWord] : m \in Mask(size)}

(***************************************************************************)
(* setDpiSignal64 (187-193): word 1 = data >> 32, word 0 = data &          *)
(* 0xffffffff, both bvals 0.                                               *)
(***************************************************************************)
\* Mutant: the high word driven first.
setDpiSignal64Swapped(data) ==
    [i \in 0..1 |-> [aval |-> [k \in Bytes32 |-> data[4*(1 - i) + k]],
                     bval |-> ZeroWord]]

setDpiSignal64(data) ==
    [i \in 0..1 |-> [aval |-> [k \in Bytes32 |-> data[4*i + k]],
                     bval |-> ZeroWord]]

=============================================================================
