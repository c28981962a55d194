-------------------------- MODULE InteractiveRequests --------------------------
(***************************************************************************)
(* DiscussionV3Router (router/discussion-v3-router.ts) with the durable    *)
(* records it keeps in the router's state file (router/session-store.ts),  *)
(* for the requests of one discussion.  Redelivered work, cancels, the     *)
(* disposal of the binding, restarts of the service and restarts of the    *)
(* bridge interleave at every await.                                       *)
(*                                                                         *)
(* The state store serialises its operations in the order of the calls, so *)
(* an operation takes effect in the step that calls it and its answer is   *)
(* used in a later step.  A write may fail and then changes nothing.       *)
(***************************************************************************)
EXTENDS Naturals, FiniteSets

CONSTANTS
    MaxRequest,     \* bound: requests of the discussion, in the order of stateVersion
    MaxInstance,    \* bound: instances of the bridge process
    Cancelled,      \* bound: the requests that may be cancelled
    Expiring,       \* bound: the requests that may grow older than REQUEST_TTL
    MayDispose      \* bound: whether the binding may be disposed of

ASSUME InteractiveAssumption ==
    /\ MaxRequest \in Nat /\ MaxInstance \in Nat \ {0}
    /\ Cancelled \subseteq 1..MaxRequest /\ Expiring \subseteq 1..MaxRequest
    /\ MayDispose \in BOOLEAN

Requests == 1..MaxRequest

VARIABLES
    record,     \* state.interactiveRequests
    head,       \* state.interactiveHeads of the discussion (0: none)
    run,        \* #run, at most one for each request (#active)
    cancel,     \* #cancel, one for each request
    dispose,    \* dispose(): where it is and the records it has still to fence
    disposed,   \* #disposed
    instance,   \* instance_id of the bridge that runs
    task,       \* its tasks, by the identity of the request
    expired,    \* requests older than REQUEST_TTL
    sent,       \* the requests the response of a run was sent for
    declined    \* the requests the error of a runtime not available was sent for

durable == <<record, head>>
bridge == <<instance, task>>
answers == <<sent, declined>>
vars == <<durable, run, cancel, dispose, disposed, bridge, expired, answers>>

Statuses == {"none", "reserved", "running", "cancel_pending", "terminal", "unconfirmed"}

(* work is FALSE for a record made by a cancel (its fingerprint is empty), *)
(* result is cancelResult ("proved" for the three that are not failed) and *)
(* response whether there is one.                                          *)
NoRecord == [status |-> "none", work |-> FALSE, instance |-> 0, result |-> "none", response |-> FALSE]

(* seen is the status that was read, known whether `record` is set.        *)
IdleRun == [at |-> "idle", seen |-> "none", known |-> FALSE, instance |-> 0]
IdleCancel == [at |-> "idle", seen |-> "none", result |-> "none", instance |-> 0]
IdleDispose == [at |-> "idle", left |-> {}, of |-> 0]

TypeOK ==
    /\ record \in [Requests -> [status : Statuses, work : BOOLEAN, instance : 0..MaxInstance,
                                result : {"none", "proved", "failed"}, response : BOOLEAN]]
    /\ head \in Requests \cup {0}
    /\ run \in [Requests -> [at : {"idle", "looked", "healthy", "holding", "latest", "fencing", "proved",
                                   "starting", "retrying", "marking", "consuming", "ending",
                                   "unstopped", "answering", "caught"},
                             seen : Statuses, known : BOOLEAN, instance : 0..MaxInstance]]
    /\ cancel \in [Requests -> [at : {"idle", "looked", "healthy", "deciding", "pending", "fencing",
                                      "proved"},
                                seen : Statuses, result : {"none", "proved", "failed"},
                                instance : 0..MaxInstance]]
    /\ dispose \in [at : {"idle", "next", "pending", "fencing", "proved", "returned"},
                     left : SUBSET Requests, of : Requests \cup {0}]
    /\ disposed \in BOOLEAN
    /\ instance \in 1..MaxInstance
    /\ task \in [Requests -> {"none", "fenced", "running", "ended", "unstopped"}]
    /\ expired \subseteq Requests
    /\ sent \subseteq Requests
    /\ declined \subseteq Requests

Init ==
    /\ record = [r \in Requests |-> NoRecord]
    /\ head = 0
    /\ run = [r \in Requests |-> IdleRun]
    /\ cancel = [r \in Requests |-> IdleCancel]
    /\ dispose = IdleDispose
    /\ disposed = FALSE
    /\ instance = 1
    /\ task = [r \in Requests |-> "none"]
    /\ expired = {}
    /\ sent = {}
    /\ declined = {}

-----------------------------------------------------------------------------
(* The state store.                                                        *)

(* updateInteractive: a record that is gone, or a failed write, throws.    *)
Update(new, ok) ==
    /\ record' = IF ok THEN new ELSE record
    /\ UNCHANGED head

CanWrite(r, ok) == ok => record[r].status # "none"

(* reserveInteractive drops the terminal records that have expired.        *)
Retained(r) == record[r].status # "none" /\ ~(r \in expired /\ record[r].status = "terminal")

(* A new record is refused when it is stale or, for work, when a request   *)
(* of the session is not terminal.                                         *)
Refuses(r, status) ==
    \/ head = r
    \/ status = "reserved" /\ head > r
    \/ r \in expired
    \/ status = "reserved" /\ \E q \in Requests : Retained(q) /\ record[q].status # "terminal"

(* The new state file when the record of r is added.                       *)
Reserved(r, status, at) ==
    /\ record' = [q \in Requests |->
                    IF q = r THEN [NoRecord EXCEPT !.status = status, !.work = (status = "reserved"),
                                                   !.instance = at]
                    ELSE IF Retained(q) THEN record[q] ELSE NoRecord]
    /\ head' = IF status = "reserved" THEN r ELSE head

-----------------------------------------------------------------------------
(* #run.                                                                   *)

RunOnly == <<cancel, dispose, disposed, bridge, expired, declined>>

At(r, stage) ==
    run' = [run EXCEPT ![r] = [IdleRun EXCEPT !.at = stage, !.known = run[r].known]]
RunReturns(r) == run' = [run EXCEPT ![r] = IdleRun]

(* catch: the record is read, if there is one.                             *)
Throw(r) ==
    run' = [run EXCEPT ![r] = IF run[r].known
                              THEN [IdleRun EXCEPT !.at = "caught", !.seen = record[r].status, !.known = TRUE]
                              ELSE IdleRun]

(* handle: a request that is under way is shared; the first step of #run   *)
(* reads the record.                                                       *)
HandleWork(r) ==
    /\ ~disposed /\ r \notin expired
    /\ run[r].at = "idle"
    /\ run' = [run EXCEPT ![r] = [IdleRun EXCEPT !.at = "looked", !.seen = record[r].status,
                                                 !.known = record[r].status # "none"]]
    /\ UNCHANGED <<durable, sent, RunOnly>>

(* send: it returns, or it throws and the message may have arrived.        *)
Send(r) ==
    \/ RunReturns(r) /\ sent' = sent \cup {r}
    \/ Throw(r) /\ sent' \in {sent, sent \cup {r}}

(* A record that is terminal, cancelled, unconfirmed or of another command *)
(* ends the run; the response of a terminal one is sent again.             *)
Over(r) == ~record[r].work \/ run[r].seen \in {"terminal", "cancel_pending", "unconfirmed"}

RunOver(r) ==
    /\ \/ run[r].at = "looked" /\ run[r].known
       \/ run[r].at = "holding"
    /\ Over(r)
    /\ IF record[r].work /\ run[r].seen = "terminal" /\ record[r].response THEN Send(r)
       ELSE RunReturns(r) /\ UNCHANGED sent
    /\ UNCHANGED <<durable, RunOnly>>

(* The runtime is not available: the request is left unconfirmed.  When    *)
(* nothing was reserved an error is sent that no record stores, unless     *)
(* sending it fails.                                                       *)
RunUnavailable(r, ok) ==
    /\ run[r].at = "looked" /\ (run[r].known => ~Over(r))
    /\ IF run[r].known
       THEN /\ CanWrite(r, ok)
            /\ Update([record EXCEPT ![r].status = "unconfirmed"], ok)
            /\ IF ok THEN RunReturns(r) ELSE Throw(r)
            /\ UNCHANGED declined
       ELSE /\ declined' = IF ok THEN declined \cup {r} ELSE declined
            /\ RunReturns(r)
            /\ UNCHANGED durable
    /\ UNCHANGED <<cancel, dispose, disposed, bridge, expired, sent>>

(* It is, and #record asks the bridge for its instance.                    *)
RunHealth(r) ==
    /\ run[r].at = "looked" /\ (run[r].known => ~Over(r))
    /\ run' = [run EXCEPT ![r].at = "healthy", ![r].seen = "none", ![r].instance = instance]
    /\ UNCHANGED <<durable, sent, RunOnly>>

(* reserveInteractive returns the record that exists, or makes one.        *)
RunReserve(r, ok) ==
    /\ run[r].at = "healthy"
    /\ IF Retained(r)
       THEN /\ ok
            /\ run' = [run EXCEPT ![r].at = "holding", ![r].seen = record[r].status, ![r].known = TRUE]
            /\ UNCHANGED durable
       ELSE IF Refuses(r, "reserved") THEN ok /\ RunReturns(r) /\ UNCHANGED durable
       ELSE IF ~ok THEN Throw(r) /\ UNCHANGED durable
       ELSE /\ Reserved(r, "reserved", run[r].instance)
            /\ run' = [run EXCEPT ![r].at = "holding", ![r].seen = "reserved", ![r].known = TRUE]
    /\ UNCHANGED <<sent, RunOnly>>

(* The instance of the record is checked; then come the work directory,    *)
(* the session and the record once more.                                   *)
RunHolding(r, ok) ==
    /\ run[r].at = "holding" /\ ~Over(r)
    /\ IF record[r].instance # run[r].instance
       THEN /\ CanWrite(r, ok)
            /\ Update([record EXCEPT ![r].status = "unconfirmed"], ok)
            /\ IF ok THEN RunReturns(r) ELSE Throw(r)
       ELSE /\ ok
            /\ run' = [run EXCEPT ![r].at = "latest", ![r].seen = record[r].status, ![r].instance = 0]
            /\ UNCHANGED durable
    /\ UNCHANGED <<sent, RunOnly>>

(* A disposed router fences what it reserved and starts nothing.           *)
RunLatest(r) ==
    /\ run[r].at = "latest"
    /\ IF run[r].seen \in {"cancel_pending", "terminal"} THEN RunReturns(r)
       ELSE At(r, IF disposed THEN "fencing" ELSE "starting")
    /\ UNCHANGED <<durable, sent, RunOnly>>

RunProved(r, ok) ==
    /\ run[r].at = "proved"
    /\ CanWrite(r, ok)
    /\ Update([record EXCEPT ![r].status = "terminal", ![r].result = "proved"], ok)
    /\ IF ok THEN RunReturns(r) ELSE Throw(r)
    /\ UNCHANGED <<sent, RunOnly>>

(* startTask is answered: the bridge makes the task of an identity once,   *)
(* and refuses one that is fenced; then the record is read.  The answer    *)
(* may be lost.                                                            *)
StartAnswered(r) ==
    /\ run[r].at \in {"starting", "retrying"}
    /\ task' = [task EXCEPT ![r] = IF @ = "none" THEN "running" ELSE @]
    /\ \/ IF task[r] = "fenced" THEN Throw(r)
          ELSE run' = [run EXCEPT ![r].at = "marking", ![r].seen = record[r].status]
       \/ run[r].at = "starting" /\ At(r, "retrying")
    /\ UNCHANGED <<durable, cancel, dispose, disposed, instance, expired, answers>>

(* It fails before it reaches the bridge.  RecoveringBridgeTask repeats a  *)
(* call that failed in transport once, after ensureBridge.                 *)
StartFails(r) ==
    /\ run[r].at \in {"starting", "retrying"}
    /\ \/ Throw(r)
       \/ run[r].at = "starting" /\ At(r, "retrying")
    /\ UNCHANGED <<durable, sent, RunOnly>>

(* A record that was reserved when it was read becomes running.            *)
RunMarks(r, ok) ==
    /\ run[r].at = "marking"
    /\ IF run[r].seen = "reserved"
       THEN /\ CanWrite(r, ok)
            /\ Update([record EXCEPT ![r].status = "running"], ok)
            /\ IF ok THEN At(r, "consuming") ELSE Throw(r)
       ELSE ok /\ At(r, "consuming") /\ UNCHANGED durable
    /\ UNCHANGED <<sent, RunOnly>>

(* The terminal event of the task: the record is read for `suppress`.      *)
RunEvent(r) ==
    /\ run[r].at = "consuming"
    /\ task[r] \in {"ended", "unstopped"}
    /\ run' = [run EXCEPT ![r].at = IF task[r] = "ended" THEN "ending" ELSE "unstopped",
                          ![r].seen = IF disposed THEN "terminal" ELSE record[r].status]
    /\ UNCHANGED <<durable, sent, RunOnly>>

(* Mutant: the response is sent before it is stored.                       *)
RunEndsUnstored(r, ok) ==
    /\ run[r].at = "ending"
    /\ IF run[r].seen \notin {"reserved", "running"}
       THEN ok /\ RunReturns(r) /\ UNCHANGED <<durable, sent>>
       ELSE /\ sent' = sent \cup {r}
            /\ CanWrite(r, ok)
            /\ Update([record EXCEPT ![r].status = "terminal", ![r].response = TRUE], ok)
            /\ IF ok THEN RunReturns(r) ELSE Throw(r)
    /\ UNCHANGED RunOnly

(* A suppressed run ends; otherwise the response is stored.                *)
RunEnds(r, ok) ==
    /\ run[r].at = "ending"
    /\ IF run[r].seen \notin {"reserved", "running"}
       THEN ok /\ RunReturns(r) /\ UNCHANGED durable
       ELSE /\ CanWrite(r, ok)
            /\ Update([record EXCEPT ![r].status = "terminal", ![r].response = TRUE], ok)
            /\ IF ok THEN At(r, "answering") ELSE Throw(r)
    /\ UNCHANGED <<sent, RunOnly>>

(* A stop that is not confirmed leaves the request unconfirmed.            *)
RunUnstopped(r, ok) ==
    /\ run[r].at = "unstopped"
    /\ CanWrite(r, ok)
    /\ Update([record EXCEPT ![r].status = "unconfirmed"], ok)
    /\ IF ok THEN RunReturns(r) ELSE Throw(r)
    /\ UNCHANGED <<sent, RunOnly>>

RunAnswers(r) ==
    /\ run[r].at = "answering"
    /\ Send(r)
    /\ UNCHANGED <<durable, RunOnly>>

(* available, health, workdir, the event stream or a pending delta throws. *)
RunThrows(r) ==
    /\ \/ run[r].at = "looked" /\ (run[r].known => ~Over(r))
       \/ run[r].at \in {"latest", "consuming", "ending", "unstopped"}
    /\ Throw(r)
    /\ UNCHANGED <<durable, sent, RunOnly>>

(* A new bridge knows nothing of the task.                                 *)
RunStreamLost(r) ==
    /\ run[r].at = "consuming" /\ task[r] \in {"none", "fenced"}
    /\ Throw(r)
    /\ UNCHANGED <<durable, sent, RunOnly>>

(* After a catch the record becomes unconfirmed unless it was terminal.    *)
RunCaught(r, ok) ==
    /\ run[r].at = "caught"
    /\ IF run[r].seen = "terminal" THEN ok /\ UNCHANGED durable
       ELSE CanWrite(r, ok) /\ Update([record EXCEPT ![r].status = "unconfirmed"], ok)
    /\ RunReturns(r)
    /\ UNCHANGED <<sent, RunOnly>>

-----------------------------------------------------------------------------
(* fenceTask, called by a run, by a cancel and by dispose().               *)

(* Mutant: the fence answers when the cancellation is signalled.           *)
ProofOfSignal(r) ==
    /\ task[r] # "unstopped"
    /\ task' = [task EXCEPT ![r] = IF @ = "none" THEN "fenced" ELSE @]

(* The task of an identity that is fenced is over, or will never be made.  *)
Proof(r) ==
    /\ task[r] \in {"none", "fenced", "ended"}
    /\ task' = [task EXCEPT ![r] = IF @ = "none" THEN "fenced" ELSE @]

(* Mutant: a fence has no time limit; only one that never arrived fails.   *)
FenceUntimed(r) == task[r] = "none" /\ UNCHANGED task

(* The fence fails or takes too long; it may have reserved the identity.   *)
FenceLost(r) ==
    \/ UNCHANGED task
    \/ task[r] = "none" /\ task' = [task EXCEPT ![r] = "fenced"]

CancelAt(r, stage) == cancel' = [cancel EXCEPT ![r] = [IdleCancel EXCEPT !.at = stage]]
CancelReturns(r) == CancelAt(r, "idle")

(* The catch of #cancel.                                                   *)
CancelFails(r) ==
    \E ok \in BOOLEAN :
        /\ CanWrite(r, ok)
        /\ Update([record EXCEPT ![r].status = "unconfirmed", ![r].result = "failed"], ok)
        /\ CancelReturns(r)

(* The catch of dispose(): a write that fails there rejects the disposal.  *)
DisposeFails ==
    \E ok \in BOOLEAN :
        /\ CanWrite(dispose.of, ok)
        /\ Update([record EXCEPT ![dispose.of].status = "unconfirmed", ![dispose.of].result = "failed"], ok)
        /\ dispose' = [dispose EXCEPT !.at = IF ok THEN "next" ELSE "returned", !.left = IF ok THEN @ ELSE {}]

FenceOnly == <<disposed, instance, expired, answers>>

RunFenced(r) ==
    /\ run[r].at = "fencing"
    /\ Proof(r)
    /\ At(r, "proved")
    /\ UNCHANGED <<cancel, dispose, durable, FenceOnly>>

RunFenceLost(r) ==
    /\ run[r].at = "fencing"
    /\ FenceLost(r)
    /\ Throw(r)
    /\ UNCHANGED <<cancel, dispose, durable, FenceOnly>>

CancelFenced(r) ==
    /\ cancel[r].at = "fencing"
    /\ Proof(r)
    /\ CancelAt(r, "proved")
    /\ UNCHANGED <<run, dispose, durable, FenceOnly>>

CancelFenceLost(r) ==
    /\ cancel[r].at = "fencing"
    /\ FenceLost(r)
    /\ CancelFails(r)
    /\ UNCHANGED <<run, dispose, FenceOnly>>

DisposeFenced ==
    /\ dispose.at = "fencing"
    /\ Proof(dispose.of)
    /\ dispose' = [dispose EXCEPT !.at = "proved"]
    /\ UNCHANGED <<run, cancel, durable, FenceOnly>>

DisposeFenceLost ==
    /\ dispose.at = "fencing"
    /\ FenceLost(dispose.of)
    /\ DisposeFails
    /\ UNCHANGED <<run, cancel, FenceOnly>>

-----------------------------------------------------------------------------
(* #cancel.                                                                *)

CancelOnly == <<run, dispose, disposed, bridge, expired, answers>>

HandleCancel(r) ==
    /\ r \in Cancelled
    /\ ~disposed /\ r \notin expired
    /\ cancel[r].at = "idle"
    /\ cancel' = [cancel EXCEPT ![r].at = IF record[r].status = "none" THEN "looked" ELSE "deciding",
                                ![r].seen = record[r].status, ![r].result = record[r].result]
    /\ UNCHANGED <<durable, CancelOnly>>

(* A request nobody has seen is reserved for its cancellation.             *)
CancelHealth(r) ==
    /\ cancel[r].at = "looked"
    /\ \/ cancel' = [cancel EXCEPT ![r].at = "healthy", ![r].instance = instance]
       \/ CancelReturns(r)
    /\ UNCHANGED <<durable, CancelOnly>>

CancelReserve(r, ok) ==
    /\ cancel[r].at = "healthy"
    /\ IF Retained(r)
       THEN /\ ok
            /\ cancel' = [cancel EXCEPT ![r].at = "deciding", ![r].seen = record[r].status,
                                        ![r].result = record[r].result, ![r].instance = 0]
            /\ UNCHANGED durable
       ELSE IF Refuses(r, "cancel_pending") THEN ok /\ CancelReturns(r) /\ UNCHANGED durable
       ELSE IF ~ok THEN CancelReturns(r) /\ UNCHANGED durable
       ELSE /\ Reserved(r, "cancel_pending", cancel[r].instance)
            /\ cancel' = [cancel EXCEPT ![r].at = "deciding", ![r].seen = "cancel_pending", ![r].instance = 0]
    /\ UNCHANGED CancelOnly

(* A proof that is on record is enough; otherwise the marker is written.   *)
CancelDecides(r, ok) ==
    /\ cancel[r].at = "deciding"
    /\ IF cancel[r].result = "proved" \/ cancel[r].seen = "terminal"
       THEN ok /\ CancelAt(r, "proved") /\ UNCHANGED durable
       ELSE IF ok THEN /\ CanWrite(r, ok)
                       /\ Update([record EXCEPT ![r].status = "cancel_pending"], ok)
                       /\ CancelAt(r, "pending")
       ELSE CancelFails(r)
    /\ UNCHANGED CancelOnly

(* The bridge must be the one the request was reserved for.                *)
CancelPending(r) ==
    /\ cancel[r].at = "pending"
    /\ \/ record[r].instance = instance /\ CancelAt(r, "fencing") /\ UNCHANGED durable
       \/ CancelFails(r)
    /\ UNCHANGED CancelOnly

CancelProved(r, ok) ==
    /\ cancel[r].at = "proved"
    /\ IF ok THEN /\ CanWrite(r, ok)
                  /\ Update([record EXCEPT ![r].status = "terminal", ![r].result = "proved"], ok)
                  /\ CancelReturns(r)
       ELSE CancelFails(r)
    /\ UNCHANGED CancelOnly

-----------------------------------------------------------------------------
(* dispose(): every request that was not terminal when it began is fenced, *)
(* one after the other.                                                    *)

DisposeOnly == <<run, cancel, bridge, expired, answers>>

DisposeAt(stage) == dispose' = [dispose EXCEPT !.at = stage]

DisposeCall ==
    /\ MayDispose /\ ~disposed
    /\ disposed' = TRUE
    /\ dispose' = [IdleDispose EXCEPT !.at = "next",
                     !.left = {r \in Requests : record[r].status \notin {"none", "terminal"}}]
    /\ UNCHANGED <<durable, DisposeOnly>>

(* A marker that cannot be written rejects the whole disposal.             *)
DisposeMarks(r, ok) ==
    /\ dispose.at = "next" /\ r \in dispose.left
    /\ CanWrite(r, ok)
    /\ Update([record EXCEPT ![r].status = "cancel_pending"], ok)
    /\ dispose' = [dispose EXCEPT !.at = IF ok THEN "pending" ELSE "returned",
                                  !.left = IF ok THEN @ \ {r} ELSE {}, !.of = r]
    /\ UNCHANGED <<disposed, DisposeOnly>>

DisposePending ==
    /\ dispose.at = "pending"
    /\ \/ record[dispose.of].instance = instance /\ DisposeAt("fencing") /\ UNCHANGED durable
       \/ DisposeFails
    /\ UNCHANGED <<disposed, DisposeOnly>>

DisposeProved(ok) ==
    /\ dispose.at = "proved"
    /\ IF ok THEN /\ CanWrite(dispose.of, ok)
                  /\ Update([record EXCEPT ![dispose.of].status = "terminal", ![dispose.of].result = "proved"], ok)
                  /\ DisposeAt("next")
       ELSE DisposeFails
    /\ UNCHANGED <<disposed, DisposeOnly>>

DisposeReturns ==
    /\ dispose.at = "next" /\ dispose.left = {}
    /\ dispose' = [IdleDispose EXCEPT !.at = "returned"]
    /\ UNCHANGED <<durable, disposed, DisposeOnly>>

-----------------------------------------------------------------------------
(* The bridge and the passing of time (external), and a service that       *)
(* starts again with nothing but its state file.                           *)

TaskEnds(r, outcome) ==
    /\ task[r] = "running"
    /\ task' = [task EXCEPT ![r] = outcome]
    /\ UNCHANGED <<durable, run, cancel, dispose, disposed, instance, expired, answers>>

BridgeRestarts ==
    /\ instance < MaxInstance
    /\ instance' = instance + 1
    /\ task' = [r \in Requests |-> "none"]
    /\ UNCHANGED <<durable, run, cancel, dispose, disposed, expired, answers>>

ServiceRestarts ==
    /\ run' = [r \in Requests |-> IdleRun]
    /\ cancel' = [r \in Requests |-> IdleCancel]
    /\ dispose' = IdleDispose
    /\ disposed' = FALSE
    /\ UNCHANGED <<durable, bridge, expired, answers>>

Expire(r) ==
    /\ r \in Expiring \ expired
    /\ expired' = expired \cup {r}
    /\ UNCHANGED <<durable, run, cancel, dispose, disposed, bridge, answers>>

-----------------------------------------------------------------------------
RunStep(r) ==
    \/ RunOver(r) \/ RunHealth(r) \/ RunLatest(r) \/ RunEvent(r)
    \/ RunAnswers(r) \/ RunStreamLost(r) \/ StartAnswered(r)
    \/ RunFenced(r) \/ RunFenceLost(r)
    \/ \E ok \in BOOLEAN : RunReserve(r, ok) \/ RunHolding(r, ok) \/ RunProved(r, ok)
                          \/ RunMarks(r, ok) \/ RunEnds(r, ok) \/ RunUnstopped(r, ok)
                          \/ RunCaught(r, ok)

CancelStep(r) ==
    \/ CancelHealth(r) \/ CancelPending(r) \/ CancelFenced(r) \/ CancelFenceLost(r)
    \/ \E ok \in BOOLEAN : CancelReserve(r, ok) \/ CancelDecides(r, ok) \/ CancelProved(r, ok)

DisposeStep ==
    \/ DisposePending \/ DisposeFenced \/ DisposeFenceLost \/ DisposeReturns
    \/ \E ok \in BOOLEAN : DisposeProved(ok) \/ \E r \in Requests : DisposeMarks(r, ok)

Next ==
    \/ \E r \in Requests :
          \/ HandleCancel(r) \/ CancelStep(r)
          \/ HandleWork(r) \/ RunStep(r) \/ RunThrows(r) \/ StartFails(r)
          \/ \E ok \in BOOLEAN : RunUnavailable(r, ok)
          \/ \E outcome \in {"ended", "unstopped"} : TaskEnds(r, outcome)
          \/ Expire(r)
    \/ DisposeCall \/ DisposeStep
    \/ BridgeRestarts \/ ServiceRestarts

Spec == Init /\ [][Next]_vars

(* Every call of the store and of the bridge is answered or times out, and *)
(* a task ends.                                                            *)
FairSpec ==
    /\ Spec
    /\ \A r \in Requests :
          /\ WF_vars(RunStep(r)) /\ WF_vars(CancelStep(r))
          /\ WF_vars(\E outcome \in {"ended", "unstopped"} : TaskEnds(r, outcome))
    /\ WF_vars(DisposeStep)

-----------------------------------------------------------------------------
(* Properties.                                                             *)

(* The task a record names, on the bridge the record names.                *)
Running(r) == task[r] = "running" /\ record[r].instance = instance

(* #run and #cancel: while the bridge of a record runs, a terminal record  *)
(* is proof that its task is over or will never start, whatever start,     *)
(* cancel, disposal and restart were under way together.                   *)
TerminalIsProof ==
    \A r \in Requests :
        record[r].status = "terminal" /\ record[r].instance = instance => task[r] \in {"fenced", "ended"}

(* reserveInteractive: the requests of one discussion never run together;  *)
(* a request that is unconfirmed keeps its replacement out.                *)
OneRunPerSession ==
    \A r, q \in Requests : Running(r) /\ Running(q) => r = q

(* #run: the response of a run is stored before it is sent, so every later *)
(* delivery that is answered, after a restart too, is answered with it.    *)
(* The one answer no record stores is the error for a runtime that is not  *)
(* available: it may come before the response of a later delivery, but     *)
(* never after one, so it cannot take back a response.                     *)
AnswerIsStored ==
    /\ [](\A r \in sent : record[r].status # "none" => record[r].response)
    /\ [][\A r \in sent : r \in declined' => r \in declined]_vars

(* handle: a run, a cancel and a disposal that begin return, unless the    *)
(* service stops: none is under way for ever (a waiter is released by the  *)
(* time limit of its fence, whatever the others do to the record).         *)
InteractiveSettles ==
    /\ \A r \in Requests : []<>(run[r].at = "idle") /\ []<>(cancel[r].at = "idle")
    /\ []<>(dispose.at \in {"idle", "returned"})
================================================================================
