----------------------------- MODULE WorkerSlots -----------------------------
(***************************************************************************)
(* What the worker supervisor promises of its processes, without saying    *)
(* how: a slot per binding that holds the credential of the one worker     *)
(* process of that binding, or nothing.                                    *)
(***************************************************************************)
CONSTANTS Keys, Tokens, NoToken

VARIABLES
    worker,  \* the credential of the running worker of each binding
    bound,   \* the credential each binding refers to, NoToken when not desired
    closed   \* the supervisor was disposed

vars == <<worker, bound, closed>>

Credentials == Tokens \cup {NoToken}

Init ==
    /\ worker = [k \in Keys |-> NoToken]
    /\ bound = [k \in Keys |-> NoToken]
    /\ closed = FALSE

(* A worker is started in an empty slot, with the binding's credential.    *)
Start(k) ==
    /\ ~closed
    /\ worker[k] = NoToken /\ bound[k] # NoToken
    /\ worker' = [worker EXCEPT ![k] = bound[k]]
    /\ UNCHANGED <<bound, closed>>

Exit(k) ==
    /\ worker[k] # NoToken
    /\ worker' = [worker EXCEPT ![k] = NoToken]
    /\ UNCHANGED <<bound, closed>>

(* Bindings come, go and change their credential; the supervisor may close.*)
Rebind ==
    /\ bound' \in [Keys -> Credentials]
    /\ closed => closed'
    /\ closed' \in BOOLEAN
    /\ UNCHANGED worker

Next == Rebind \/ \E k \in Keys : Start(k) \/ Exit(k)

Spec == Init /\ [][Next]_vars

=============================================================================
