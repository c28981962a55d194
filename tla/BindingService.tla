---------------------------- MODULE BindingService ----------------------------
(***************************************************************************)
(* BindingService (bindings/service.ts) for the runtimes of one provider:  *)
(* the bindings of a provider exclude each other, those of different       *)
(* providers have nothing in common.  The jobs of a runtime run one after  *)
(* the other, those of different runtimes at the same time.                *)
(*                                                                         *)
(* A binding and its credential are what the local store keeps as one      *)
(* entry (BindingTable): a write of it happens or fails, and the table in  *)
(* memory follows in the same step.                                        *)
(***************************************************************************)
EXTENDS Naturals, Sequences

CONSTANTS
    Runtimes,       \* the runtimes of the provider
    MaxFault        \* bound: writes of the local store that fail

ASSUME MaxFaultAssumption == MaxFault \in Nat

NoBinding == [enabled |-> FALSE, registration |-> "none", token |-> 0]
NoWork == [at |-> "waiting", previous |-> NoBinding]

VARIABLES
    binding,    \* #bindings, and the local store; token 0: no credential
    jobs,       \* #tails: the jobs of a runtime, the first one running
    work,       \* how far the first job of a runtime is
    claim,      \* #providerClaims of the provider
    faults

bindingVars == <<binding, jobs, work, claim, faults>>

(* open: what an earlier run left, settled by the local store.             *)
BindingInit ==
    /\ \E S \in {{}} \cup {{r} : r \in Runtimes}, on \in BOOLEAN :
         binding = [r \in Runtimes |-> IF r \in S THEN [enabled |-> on, registration |-> "offline", token |-> 1] ELSE NoBinding]
    /\ jobs = [r \in Runtimes |-> <<>>]
    /\ work = [r \in Runtimes |-> NoWork]
    /\ claim = {}
    /\ faults = 0

-----------------------------------------------------------------------------
(* A write of the local store.                                             *)
Save(r, new, ok) ==
    \/ ok /\ binding' = [binding EXCEPT ![r] = new] /\ UNCHANGED faults
    \/ ~ok /\ faults < MaxFault /\ faults' = faults + 1 /\ UNCHANGED binding

(* #completeCredential.                                                    *)
Complete(b) == b.token # 0

Goto(r, stage) ==
    /\ work' = [work EXCEPT ![r].at = stage]
    /\ UNCHANGED <<jobs, claim>>

(* The end of a job: its claim is released and the next job may run.       *)
Done(r) ==
    /\ jobs' = [jobs EXCEPT ![r] = Tail(@)]
    /\ work' = [work EXCEPT ![r] = NoWork]
    /\ claim' = claim \ {r}

Job(r) == Head(jobs[r])

(* Mutant: only the bindings are looked at, not who is registering one.    *)
ConflictOfBindings(r) == \E other \in Runtimes \ {r} : binding[other] # NoBinding

(* Another runtime of the provider is bound, or is being bound.            *)
Conflict(r) ==
    \/ \E other \in Runtimes \ {r} : binding[other] # NoBinding
    \/ claim \ {r} # {}

(* The first step of enable, of the pairing's enable and of reregister:    *)
(* the catalog does not list the runtime as it was, ...; disable refuses a *)
(* runtime that has no binding.                                            *)
BeginRefused(r) ==
    /\ work[r].at = "waiting"
    /\ \/ Job(r).op \in {"enable", "pair", "reregister"}
       \/ Job(r).op = "disable" /\ binding[r] = NoBinding
    /\ Done(r)
    /\ UNCHANGED <<binding, faults>>

(* ... or it does.                                                         *)
Begin(r, stage) ==
    /\ work[r].at = "waiting"
    /\ work' = [work EXCEPT ![r] = [at |-> stage, previous |-> binding[r]]]
    /\ UNCHANGED <<binding, jobs, faults>>

(* #enableRuntime and #enablePairingRuntime.  An enable of a runtime that  *)
(* has a credential of the configured server only saves; a pairing always  *)
(* registers anew.                                                         *)
BeginEnable(r, stage) ==
    /\ Job(r).op \in {"enable", "pair"} /\ ~Conflict(r)
    /\ Begin(r, stage)
    /\ claim' = claim \cup {r}
    /\ \/ stage = "pending"
       \/ stage = "saving" /\ Job(r).op = "enable" /\ Complete(binding[r]) /\ ~binding[r].enabled

(* It is enabled already.                                                  *)
BeginEnabled(r) ==
    /\ work[r].at = "waiting"
    /\ Job(r).op = "enable" /\ ~Conflict(r)
    /\ Complete(binding[r]) /\ binding[r].enabled
    /\ Done(r)
    /\ UNCHANGED <<binding, faults>>

BeginReregister(r) ==
    /\ Job(r).op = "reregister" /\ Complete(binding[r])
    /\ Begin(r, "pending")
    /\ UNCHANGED claim

(* disable, and markConnectionState of a runtime that has a connection.    *)
BeginSave(r) ==
    /\ \/ Job(r).op = "disable" /\ binding[r] # NoBinding
       \/ Job(r).op = "mark" /\ binding[r].registration \in {"online", "offline"}
    /\ Begin(r, "saving")
    /\ UNCHANGED claim

(* markConnectionState of any other runtime, or with the state it has.     *)
BeginNothing(r) ==
    /\ work[r].at = "waiting"
    /\ Job(r).op = "mark"
    /\ Done(r)
    /\ UNCHANGED <<binding, faults>>

-----------------------------------------------------------------------------
(* What enable, disable and markConnectionState write.                     *)
Saved(r) ==
    LET b == binding[r] IN
    CASE Job(r).op = "enable"  -> [b EXCEPT !.enabled = TRUE, !.registration = "offline"]
      [] Job(r).op = "disable" -> [b EXCEPT !.enabled = FALSE,
                                            !.registration = IF Complete(b) THEN "offline" ELSE "unregistered"]
      [] Job(r).op = "mark"    -> [b EXCEPT !.registration = IF @ = "online" THEN "offline" ELSE "online"]

SaveEnds(r, ok) ==
    /\ work[r].at = "saving"
    /\ Save(r, Saved(r), ok)
    /\ Done(r)

(* #register and reregister: the binding is first saved as registering.    *)
PendingSaved(r, ok) ==
    /\ work[r].at = "pending"
    /\ Save(r, [work[r].previous EXCEPT !.registration = "registering"], ok)
    /\ Goto(r, IF ok THEN "remote" ELSE "restoring")

(* The requests to the server: the key, the registration, the credential.  *)
RemoteAnswers(r, ok) ==
    /\ work[r].at = "remote"
    /\ Goto(r, IF ok THEN "committing" ELSE "restoring")
    /\ UNCHANGED <<binding, faults>>

CommitFails(r) ==
    /\ work[r].at = "committing"
    /\ Save(r, binding[r], FALSE)
    /\ Goto(r, "restoring")

Committed(r) ==
    /\ work[r].at = "committing"
    /\ Save(r, [enabled |-> Job(r).op # "reregister" \/ work[r].previous.enabled,
                registration |-> "offline", token |-> binding[r].token + 1], TRUE)
    /\ Done(r)

(* Mutant: a failed registration always leaves the binding disabled.       *)
FailedAlways(r) == [work[r].previous EXCEPT !.enabled = FALSE, !.registration = "error"]

(* What a failed registration leaves: the binding as it was if that has a  *)
(* credential.                                                             *)
Failed(r) ==
    IF Complete(work[r].previous) THEN work[r].previous
    ELSE [work[r].previous EXCEPT !.enabled = FALSE, !.registration = "error"]

Restored(r, ok) ==
    /\ work[r].at = "restoring"
    /\ Save(r, Failed(r), ok)
    /\ Done(r)

-----------------------------------------------------------------------------
(* A step inside a job, and the steps that end one with a result.          *)
JobGoesOn(r) ==
    /\ jobs[r] # <<>>
    /\ \/ \E stage \in {"pending", "saving"} : BeginEnable(r, stage)
       \/ BeginReregister(r) \/ BeginSave(r)
       \/ \E ok \in BOOLEAN : PendingSaved(r, ok) \/ RemoteAnswers(r, ok)
       \/ CommitFails(r)

JobSucceeds(r) ==
    /\ jobs[r] # <<>>
    /\ BeginEnabled(r) \/ BeginNothing(r) \/ SaveEnds(r, TRUE) \/ Committed(r)

JobFails(r) ==
    /\ jobs[r] # <<>>
    /\ \/ BeginRefused(r) \/ SaveEnds(r, FALSE)
       \/ \E ok \in BOOLEAN : Restored(r, ok)

(* #enqueue.                                                               *)
Enqueued(S, op, g) == [r \in Runtimes |-> IF r \in S THEN Append(jobs[r], [op |-> op, session |-> g]) ELSE jobs[r]]

-----------------------------------------------------------------------------
(* Properties.                                                             *)

(* #providerClaims: at most one runtime of a provider has a binding,       *)
(* although registrations of several run at the same time and the binding  *)
(* of the first is saved only after the others looked.                     *)
OneBindingPerProvider ==
    \A r, other \in Runtimes : binding[r] # NoBinding /\ binding[other] # NoBinding => r = other

Works(b) == b.enabled /\ b.token # 0

(* #register and reregister: whichever request or write of a registration  *)
(* fails, a binding that worked goes on working; only disable() ends it.   *)
KeepsWorking ==
    [][\A r \in Runtimes : Works(binding[r]) /\ ~Works(binding'[r]) => Job(r).op = "disable"]_bindingVars

=============================================================================
