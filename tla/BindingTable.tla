----------------------------- MODULE BindingTable -----------------------------
(***************************************************************************)
(* What LocalStore promises: the two files behave as one table from        *)
(* runtimes to bindings, each with its credential, that is replaced in     *)
(* one atomic and durable step.  A crash forgets the table that the        *)
(* process holds and nothing else; an open settles the table and loads it; *)
(* a table that could not be read is lost to every later open.             *)
(***************************************************************************)
CONSTANTS
    Runtimes,
    NoEntry,
    IsEntry(_, _),  \* whether a runtime may have an entry: a binding and its credential
    Settled(_),     \* what an open makes of an entry
    Lost,           \* the durable table cannot be read
    Closed          \* no process holds the table

VARIABLES durable, current

Init ==
    /\ durable = [r \in Runtimes |-> NoEntry]
    /\ current = Closed

Put(r) ==
    /\ current # Closed /\ current' # Closed
    /\ current' = [current EXCEPT ![r] = current'[r]]
    /\ current'[r] = NoEntry \/ IsEntry(r, current'[r])
    /\ durable' = current'

Crash ==
    /\ current' = Closed
    /\ UNCHANGED durable

Settle ==
    /\ current = Closed /\ durable # Lost
    /\ durable' = [r \in Runtimes |-> Settled(durable[r])]
    /\ UNCHANGED current

Open ==
    /\ current = Closed /\ durable # Lost
    /\ current' = durable
    /\ \A r \in Runtimes : durable[r] = Settled(durable[r])
    /\ UNCHANGED durable

Lose ==
    /\ current = Closed
    /\ durable' = Lost
    /\ UNCHANGED current

Next ==
    \/ \E r \in Runtimes : Put(r)
    \/ Crash \/ Settle \/ Open \/ Lose

Spec == Init /\ [][Next]_<<durable, current>>

=============================================================================
