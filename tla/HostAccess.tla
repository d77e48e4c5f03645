----------------------------- MODULE HostAccess -----------------------------
(***************************************************************************)
(* Abstract specification of the partial-access and configuration-access  *)
(* machines as the host sees them (spec section 4.5).  A host command is   *)
(* queued, then delivered to the device.  A read-class command (config     *)
(* read, partial read) is answered at delivery, with no data phase.  A     *)
(* write-class command (config write, partial write) enters its data phase *)
(* and issues exactly one data read-count request; it is answered when     *)
(* that beat arrives, and the beat goes to no other command.               *)
(*                                                                         *)
(* AfuDevice, the test AFU's main loop, implements it for a sequential    *)
(* host (AfuDevice!HostAccessRefined).                                     *)
(***************************************************************************)
EXTENDS Naturals

CONSTANTS
    Tags,           \* capptags the host may use
    Kinds           \* host command kinds

ReadKinds == {"cfg_rd", "pr_rd"}
WriteKinds == {"cfg_wr", "pr_wr"}

ASSUME Kinds \subseteq ReadKinds \cup WriteKinds

VARIABLES
    phase,          \* tag -> "free", "queued" or "awaitData"
    kind,           \* tag -> the kind of the command last sent with it
    req             \* data beats requested from the host and not delivered

vars == <<phase, kind, req>>

Init ==
    /\ phase = [t \in Tags |-> "free"]
    /\ kind \in [Tags -> Kinds]
    /\ req = 0

\* The host sends a command of kind k with a free tag.
Send(t, k) ==
    /\ phase[t] = "free"
    /\ phase' = [phase EXCEPT ![t] = "queued"]
    /\ kind' = [kind EXCEPT ![t] = k]
    /\ UNCHANGED req

\* A read-class command is delivered and answered in the same cycle.
DeliverRead(t) ==
    /\ phase[t] = "queued"
    /\ kind[t] \in ReadKinds
    /\ phase' = [phase EXCEPT ![t] = "free"]
    /\ UNCHANGED <<kind, req>>

\* A write-class command is delivered: Idle -> AwaitingData, one beat asked for.
DeliverWrite(t) ==
    /\ phase[t] = "queued"
    /\ kind[t] \in WriteKinds
    /\ phase' = [phase EXCEPT ![t] = "awaitData"]
    /\ req' = req + 1
    /\ UNCHANGED kind

\* The requested beat arrives; the command is answered and its machine idles.
DataArrives(t) ==
    /\ phase[t] = "awaitData"
    /\ req > 0
    /\ phase' = [phase EXCEPT ![t] = "free"]
    /\ req' = req - 1
    /\ UNCHANGED kind

Next ==
    \E t \in Tags :
        \/ \E k \in Kinds : Send(t, k)
        \/ DeliverRead(t)
        \/ DeliverWrite(t)
        \/ DataArrives(t)

Spec == Init /\ [][Next]_vars

====
