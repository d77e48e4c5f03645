----------------------------- MODULE RdataQueue -----------------------------
(***************************************************************************)
(* Abstract specification of the response-data fragmentation queue of the *)
(* TLX bridge (spec section 4.4).  Beats of a response are appended to a   *)
(* FIFO; the AFU asks for beats with read-count requests, which add to a   *)
(* pending count; every bridge cycle with a pending request hands the     *)
(* oldest queued beat to the AFU on the response-data bus.                 *)
(*                                                                         *)
(* The detailed bridge (TlxBfm) keeps the queue as a malloc'ed singly      *)
(* linked list; MC_TlxBfm shows that it implements this module.            *)
(***************************************************************************)
EXTENDS Naturals, Sequences, SequencesExt

CONSTANTS
    Beats,      \* identities a beat may carry
    MaxReq,     \* largest number of beats one read-count request asks for
    MaxDl       \* largest number of beats one response carries

VARIABLES
    queue,      \* beats received and not yet handed to the AFU, oldest first
    pending,    \* beats the AFU has asked for and not yet received
    bus         \* the beat last handed to the AFU (0 before the first one)

vars == <<queue, pending, bus>>

Init ==
    /\ queue = <<>>
    /\ pending = 0
    /\ bus = 0

(***************************************************************************)
(* One bridge cycle: the AFU may ask for n more beats, a response may add  *)
(* the beats b at the tail, and if any beat is pending the head beat is    *)
(* driven.  A pending request always finds a beat: the queue never         *)
(* underruns.                                                              *)
(***************************************************************************)
Cycle(n, b) ==
    LET q1 == queue \o b
        p1 == pending + n
    IN  IF p1 > 0
          THEN /\ q1 # <<>>
               /\ queue' = Tail(q1)
               /\ pending' = p1 - 1
               /\ bus' = Head(q1)
          ELSE /\ queue' = q1
               /\ pending' = p1
               /\ UNCHANGED bus

Next == \E n \in 0..MaxReq, b \in BoundedSeq(Beats, MaxDl) : Cycle(n, b)

Spec == Init /\ [][Next]_vars

=============================================================================
