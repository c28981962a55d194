--------------------------- MODULE BridgeRegistry ---------------------------
(***************************************************************************)
(* What the bridge supervisor promises about the identity it keeps on disk *)
(* (process/supervisor.ts with process/identity.ts), however many steps,   *)
(* failures and restarts of the service an operation takes: the disk names *)
(* at most one bridge, a bridge is spawned only while it names none, only  *)
(* the bridge being started is ever published, and an identity that was    *)
(* retracted never comes back, because a candidate is always a process     *)
(* that did not exist before.                                              *)
(***************************************************************************)
CONSTANT Proc       \* the bridge processes that may ever be spawned

VARIABLES
    spawned,        \* the processes that exist or existed
    candidate,      \* the process being started, until it is published: {} or {p}
    published       \* what a reader of the disk is told: {} or {p}

vars == <<spawned, candidate, published>>

Init ==
    /\ spawned = {}
    /\ candidate = {}
    /\ published = {}

(* A new process, only while none is published or being started.           *)
Spawn(p) ==
    /\ p \notin spawned
    /\ candidate = {}
    /\ published = {}
    /\ spawned' = spawned \cup {p}
    /\ candidate' = {p}
    /\ UNCHANGED published

(* The verified candidate's identity reaches the disk.                     *)
Publish ==
    /\ candidate # {}
    /\ published = {}
    /\ published' = candidate
    /\ candidate' = {}
    /\ UNCHANGED spawned

(* A start that failed, or whose service died.                             *)
Discard ==
    /\ candidate # {}
    /\ candidate' = {}
    /\ UNCHANGED <<spawned, published>>

(* The last copy of the published identity leaves the disk.                *)
Retract ==
    /\ published # {}
    /\ published' = {}
    /\ UNCHANGED <<spawned, candidate>>

Next ==
    \/ \E p \in Proc : Spawn(p)
    \/ Publish
    \/ Discard
    \/ Retract

Spec == Init /\ [][Next]_vars

=============================================================================
