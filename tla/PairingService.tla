---------------------------- MODULE PairingService ----------------------------
(***************************************************************************)
(* PairingService (pairing/service.ts) with the bindings it registers      *)
(* (BindingService) and the mutation gate of QuukkService (service.ts):    *)
(* what the local user asks for runs in the gate, one mutation at a time;  *)
(* a session's polling, its registrations and its watch for retry requests *)
(* run beside it, but the activation of a registered binding goes through  *)
(* the gate again.                                                         *)
(*                                                                         *)
(* generation === #generation of the code is current = g here: a session   *)
(* is numbered by the generation its start gave it, and cancel() and the   *)
(* expiry timer leave no session current.                                  *)
(***************************************************************************)
EXTENDS BindingService, FiniteSets

CONSTANTS
    MaxSession,     \* bound: sessions started
    MaxCall,        \* bound: mutations the user asks for
    MaxMark,        \* bound: connection events of workers
    Requests        \* retry requests of the server

ASSUME PairingAssumption == MaxSession \in Nat /\ MaxCall \in Nat /\ MaxMark \in Nat

Sessions == 1..MaxSession

VARIABLES
    state,      \* #state
    current,    \* the session of #generation (0: none)
    private,    \* #privateSession is defined
    late,       \* sessions whose expiry time has passed
    created,    \* sessions started so far
    ready,      \* #readyCandidates
    selected,   \* #selectedCandidates
    results,    \* #results of each session
    cycle,      \* the poll or registration cycle of each session
    candidate,  \* the registration of each runtime in each session
    watch,      \* #retryWatch (session 0: none)
    consumed,   \* #consumedRetryRequestIds
    retried,    \* history: the cycles each request of the session started
    gate,       \* the mutations in the gate, the first one running
    stage,      \* how far the first mutation is
    calls, marks

sessionVars == <<state, current, private, ready>>
cycleVars == <<cycle, candidate, results, selected>>
watchVars == <<watch, consumed, retried>>
gateVars == <<gate, stage>>
bounds == <<late, created, calls, marks>>
vars == <<bindingVars, sessionVars, cycleVars, watchVars, gateVars, bounds>>

NoWatch == [session |-> 0, at |-> "loop", request |-> 0]
Over == {"cancelled", "expired"}

Init ==
    /\ BindingInit
    /\ state = "idle" /\ current = 0 /\ private = FALSE /\ ready = {}
    /\ late = {} /\ created = 0 /\ calls = 0 /\ marks = 0
    /\ selected = {}
    /\ results = [g \in Sessions |-> [r \in Runtimes |-> "none"]]
    /\ cycle = [g \in Sessions |-> "none"]
    /\ candidate = [g \in Sessions |-> [r \in Runtimes |-> [at |-> "none", binding |-> NoBinding]]]
    /\ watch = NoWatch /\ consumed = {} /\ retried = [q \in Requests |-> 0]
    /\ gate = <<>> /\ stage = "waiting"

-----------------------------------------------------------------------------
(* Shared parts.                                                           *)

(* #clearPrivateState.                                                     *)
Clear == private' = FALSE /\ ready' = {}

(* The session ends in a state; its generation stays the current one.      *)
Ends(final) == state' = final /\ Clear /\ UNCHANGED current

(* #expired, by the time of the session shown.                             *)
Expired == created \in late

(* #finishCycleError of the current session.                               *)
EndsInError(final) ==
    IF state = "completed" THEN Clear /\ UNCHANGED <<state, current>>
    ELSE IF state \in Over THEN UNCHANGED sessionVars
    ELSE Ends(final)

(* #registerCandidates: those that are ready are enabled.                  *)
Register(g, S) ==
    LET called == S \cap ready IN
    /\ results' = [results EXCEPT ![g] = [r \in Runtimes |-> IF r \in called THEN "registering"
                                                            ELSE IF r \in S THEN "rejected" ELSE @[r]]]
    /\ candidate' = [candidate EXCEPT ![g] = [r \in Runtimes |-> IF r \in called THEN [@[r] EXCEPT !.at = "enabling"]
                                                                ELSE @[r]]]
    /\ jobs' = Enqueued(called, "pair", g)
    /\ cycle' = [cycle EXCEPT ![g] = "registering"]
    /\ UNCHANGED <<binding, work, claim, faults>>

Retryable == {r \in selected : results[current][r] = "failed"}

(* retryFailed, which started a cycle or not.                              *)
RetryFailed(started) ==
    \/ /\ started /\ state = "partial" /\ private /\ ~Expired /\ Retryable # {}
       /\ state' = "processing"
       /\ Register(current, Retryable)
       /\ UNCHANGED <<current, private, ready, selected>>
    \/ /\ ~started /\ state = "partial" /\ private /\ Expired
       /\ Ends("expired")
       /\ UNCHANGED <<cycleVars, bindingVars>>
    \/ /\ ~started /\ ~(state = "partial" /\ private /\ (Expired \/ Retryable # {}))
       /\ UNCHANGED <<sessionVars, cycleVars, bindingVars>>

Mutation(op, r, g) == [op |-> op, runtime |-> r, session |-> g]
Running == Head(gate)

Proceed(at) == stage' = at /\ UNCHANGED gate

(* A mutation ends and the next one may run.                               *)
Leave == gate' = Tail(gate) /\ stage' = "waiting"

-----------------------------------------------------------------------------
(* The gate.                                                               *)

(* enable, disable, reregister, pairingStart, pairingCancel, pairingRetry: *)
(* the mutation enters the gate.                                           *)
Call(mutation) ==
    /\ calls < MaxCall
    /\ calls' = calls + 1
    /\ gate' = Append(gate, mutation)
    /\ UNCHANGED <<stage, bindingVars, sessionVars, cycleVars, watchVars, late, created, marks>>

CallBinding(op, r) == Call(Mutation(op, r, 0))

(* A start under way is shared.                                            *)
CallPairing(op) ==
    /\ op = "start" => \A i \in 1..Len(gate) : gate[i].op # "start"
    /\ Call(Mutation(op, "any", 0))

(* enable, disable and reregister call BindingService ...                  *)
MutateBinding ==
    /\ stage = "waiting" /\ Running.op \in {"enable", "disable", "reregister"}
    /\ jobs' = Enqueued({Running.runtime}, Running.op, 0)
    /\ Proceed("binding")
    /\ UNCHANGED <<binding, work, claim, faults, sessionVars, cycleVars, watchVars, bounds>>

(* ... and let the workers follow; activate does so too.                   *)
Reconciled ==
    /\ stage = "reconciling" /\ Running.op # "activate"
    /\ Leave
    /\ UNCHANGED <<bindingVars, sessionVars, cycleVars, watchVars, bounds>>

(* pairingRetry.                                                           *)
Retry ==
    /\ stage = "waiting" /\ Running.op = "retry"
    /\ \E started \in BOOLEAN : RetryFailed(started)
    /\ Leave
    /\ UNCHANGED <<watchVars, bounds>>

(* cancel(), also the first part of a start while there is a session.  A   *)
(* session that is completed still has a watch to end.                     *)
Cancel ==
    /\ stage = "waiting" /\ Running.op \in {"cancel", "start"} /\ private
    /\ current' = 0
    /\ IF state = "completed"
       THEN Clear /\ Proceed("watch") /\ UNCHANGED state
       ELSE state' = "cancelled" /\ Proceed("cancelling") /\ UNCHANGED <<private, ready>>
    /\ UNCHANGED <<bindingVars, cycleVars, watchVars, bounds>>

(* There is no session to cancel.                                          *)
CancelNothing ==
    /\ stage = "waiting" /\ Running.op \in {"cancel", "start"} /\ ~private
    /\ IF Running.op = "cancel" THEN Leave ELSE Proceed("listing")
    /\ UNCHANGED <<bindingVars, sessionVars, cycleVars, watchVars, bounds>>

(* cancelSession is answered; an error ends the call.                      *)
Cancelled(ok) ==
    /\ stage = "cancelling"
    /\ Clear
    /\ IF ok THEN Proceed("cycle") ELSE Leave
    /\ UNCHANGED <<state, current, bindingVars, cycleVars, watchVars, bounds>>

(* The cycle, or the watch, has ended: cancel() returns.                   *)
CycleAwaited ==
    /\ \/ stage = "cycle" /\ cycle[created] = "over"
       \/ stage = "watch" /\ watch.session = 0
    /\ IF Running.op = "cancel" THEN Leave ELSE Proceed("listing")
    /\ UNCHANGED <<bindingVars, sessionVars, cycleVars, watchVars, bounds>>

(* #startFresh: the candidates; a runtime with a credential is registered  *)
(* already, one whose provider has another binding is not ready.           *)
Listed ==
    /\ stage = "listing" /\ created < MaxSession
    /\ created' = created + 1
    /\ current' = created'
    /\ ready' = {r \in Runtimes : ~Complete(binding[r]) /\ \A other \in Runtimes \ {r} : binding[other] = NoBinding}
    /\ selected' = {} /\ consumed' = {} /\ retried' = [q \in Requests |-> 0]
    /\ Proceed("creating")
    /\ UNCHANGED <<bindingVars, state, private, cycle, candidate, results, watch, late, calls, marks>>

ListFails ==
    /\ stage = "listing"
    /\ Leave
    /\ UNCHANGED <<bindingVars, sessionVars, cycleVars, watchVars, bounds>>

Created ==
    /\ stage = "creating"
    /\ state' = "waiting" /\ private' = TRUE
    /\ cycle' = [cycle EXCEPT ![current] = "polling"]
    /\ Leave
    /\ UNCHANGED <<current, ready, candidate, results, selected, bindingVars, watchVars, bounds>>

CreateFails ==
    /\ stage = "creating"
    /\ state' = IF state = "cancelled" THEN state ELSE "idle"
    /\ Leave
    /\ UNCHANGED <<current, private, ready, cycleVars, bindingVars, watchVars, bounds>>

-----------------------------------------------------------------------------
(* #poll.                                                                  *)

CycleOver(g) == cycle' = [cycle EXCEPT ![g] = "over"]

(* The session is no longer current, or has ended.                         *)
PollEnds(g) ==
    /\ cycle[g] = "polling"
    /\ CycleOver(g)
    /\ IF current # g THEN UNCHANGED sessionVars
       ELSE IF Expired THEN Ends("expired")
       ELSE \E final \in {"cancelled", "expired", "completed"} : Ends(final)
    /\ UNCHANGED <<candidate, results, selected, bindingVars, watchVars, gateVars, bounds>>

Selected(g, S) ==
    /\ cycle[g] = "polling" /\ current = g /\ ~Expired
    /\ selected' = S
    /\ state' = "processing"
    /\ Register(g, S)
    /\ UNCHANGED <<current, private, ready, watchVars, gateVars, bounds>>

-----------------------------------------------------------------------------
(* The registration of a candidate.                                        *)

Result(g, r, status) == results' = [results EXCEPT ![g][r] = status]
Stage(g, r, at) == candidate' = [candidate EXCEPT ![g][r].at = at]

(* onBindingEnabled threw: the result is written whatever is current.      *)
ActivationFails(g, r) == Result(g, r, "failed") /\ Stage(g, r, "done")

(* enablePairingSelection returns to its candidate, any other job to the   *)
(* mutation that called it: enable goes on whatever the result, disable    *)
(* and reregister throw a failure.                                         *)
Returned(r, ok) ==
    LET g == Job(r).session IN
    CASE Job(r).op = "pair" /\ current # g ->
             Stage(g, r, "done") /\ UNCHANGED <<results, gateVars>>
      [] Job(r).op = "pair" /\ current = g /\ ok ->
             /\ candidate' = [candidate EXCEPT ![g][r] = [at |-> "activating", binding |-> binding'[r]]]
             /\ gate' = Append(gate, Mutation("activate", r, g))
             /\ UNCHANGED <<results, stage>>
      [] Job(r).op = "pair" /\ current = g /\ ~ok ->
             /\ \E status \in {"failed", "rejected"} : Result(g, r, status)
             /\ Stage(g, r, "done")
             /\ UNCHANGED gateVars
      [] Job(r).op = "mark" -> UNCHANGED <<candidate, results, gateVars>>
      [] OTHER ->
             /\ IF ok \/ Job(r).op = "enable" THEN Proceed("reconciling") ELSE Leave
             /\ UNCHANGED <<candidate, results>>

JobEnds(r) ==
    /\ \/ JobSucceeds(r) /\ Returned(r, TRUE)
       \/ JobFails(r) /\ Returned(r, FALSE)
    /\ UNCHANGED <<cycle, selected, sessionVars, watchVars, bounds>>

JobStep(r) ==
    /\ JobGoesOn(r)
    /\ UNCHANGED <<sessionVars, cycleVars, watchVars, gateVars, bounds>>

(* createPairingBindingActivator: in the gate, the binding must still be   *)
(* the one that was registered; then the workers follow.                   *)
Activate ==
    /\ stage = "waiting" /\ Running.op = "activate"
    /\ LET g == Running.session
           r == Running.runtime
       IN  IF current = g /\ binding[r] = candidate[g][r].binding
           THEN Proceed("reconciling") /\ UNCHANGED <<candidate, results>>
           ELSE Leave /\ ActivationFails(g, r)
    /\ UNCHANGED <<cycle, selected, bindingVars, sessionVars, watchVars, bounds>>

Activated(ok) ==
    /\ stage = "reconciling" /\ Running.op = "activate"
    /\ Leave
    /\ IF ok THEN Stage(Running.session, Running.runtime, "connecting") /\ UNCHANGED results
       ELSE ActivationFails(Running.session, Running.runtime)
    /\ UNCHANGED <<cycle, selected, bindingVars, sessionVars, watchVars, bounds>>

(* The worker comes online, or not in time.                                *)
Online(g, r) ==
    /\ candidate[g][r].at = "connecting" /\ current = g
    /\ Stage(g, r, "verifying")
    /\ gate' = Append(gate, Mutation("verify", r, g))
    /\ UNCHANGED <<stage, cycle, results, selected, bindingVars, sessionVars, watchVars, bounds>>

NotOnline(g, r) ==
    /\ candidate[g][r].at = "connecting"
    /\ ActivationFails(g, r)
    /\ UNCHANGED <<cycle, selected, bindingVars, sessionVars, watchVars, gateVars, bounds>>

(* Mutant: what happened to the binding meanwhile is not looked at.        *)
ServedUnchecked(g, r) == current = g

(* The binding is still enabled and has its credential.                    *)
Served(g, r) == current = g /\ Works(binding[r])

(* In the gate again, when the worker is online.                           *)
Verify(ok) ==
    /\ stage = "waiting" /\ Running.op = "verify"
    /\ Leave
    /\ LET g == Running.session
           r == Running.runtime
       IN  IF ok /\ Served(g, r) THEN Result(g, r, "bound") /\ Stage(g, r, "done")
           ELSE ActivationFails(g, r)
    /\ UNCHANGED <<cycle, selected, bindingVars, sessionVars, watchVars, bounds>>

(* #startRetryWatch: there is at most one watch.                           *)
StartWatch(g) == watch' = IF private /\ watch.session = 0 THEN [NoWatch EXCEPT !.session = g] ELSE watch

(* The results decide; a watch that is still running clears a session      *)
(* that is completed.                                                      *)
FinishedAny(g) ==
    IF Expired THEN Ends("expired") /\ UNCHANGED watch
    ELSE IF \A r \in selected : results[g][r] = "bound"
    THEN /\ state' = "completed"
         /\ IF watch.session = 0 THEN Clear ELSE UNCHANGED <<private, ready>>
         /\ UNCHANGED <<current, watch>>
    ELSE state' = "partial" /\ StartWatch(g) /\ UNCHANGED <<current, private, ready>>

(* #finishRegistration.                                                    *)
Finished(g) == IF current = g THEN FinishedAny(g) ELSE UNCHANGED <<sessionVars, watch>>

CycleEnds(g) ==
    /\ cycle[g] = "registering"
    /\ \A r \in Runtimes : candidate[g][r].at \in {"none", "done"}
    /\ CycleOver(g)
    /\ Finished(g)
    /\ UNCHANGED <<candidate, results, selected, consumed, retried, bindingVars, gateVars, bounds>>

-----------------------------------------------------------------------------
(* #watchRetries.                                                          *)

WatchAt(at) == watch' = [watch EXCEPT !.at = at]
Watching == watch.session # 0
WatchOnly == <<cycleVars, bindingVars, gateVars, bounds>>

(* The watch is forgotten; it clears a session that is completed.          *)
WatchOver ==
    /\ watch' = NoWatch
    /\ IF state = "completed" THEN Clear /\ UNCHANGED <<state, current>> ELSE UNCHANGED sessionVars

(* The head of the loop.                                                   *)
WatchLoop ==
    /\ Watching /\ watch.at = "loop"
    /\ IF current # watch.session THEN WatchOver
       ELSE IF Expired THEN Ends("expired") /\ watch' = NoWatch
       ELSE IF state \in Over \cup {"completed"} \/ ~private THEN WatchOver
       ELSE state = "partial" /\ WatchAt("polling") /\ UNCHANGED sessionVars
    /\ UNCHANGED <<consumed, retried, WatchOnly>>

(* pollRetry finds nothing, fails for now, or for good.                    *)
PollRetryFails(final) ==
    /\ watch.at = "polling"
    /\ IF current # watch.session THEN WatchOver
       ELSE CASE final = "none" -> WatchAt("loop") /\ UNCHANGED sessionVars
              [] final = "expired" -> Ends("expired") /\ watch' = NoWatch
              [] final = "cancelled" -> EndsInError(final) /\ watch' = NoWatch
    /\ UNCHANGED <<consumed, retried, WatchOnly>>

(* Mutant: the request is not remembered.                                  *)
ConsumeNothing(q) == UNCHANGED consumed

(* A request is acted on once.                                             *)
Consume(q) == consumed' = consumed \cup {q}

(* A request is delivered, maybe again.                                    *)
RetryRequested(q) ==
    /\ watch.at = "polling" /\ current = watch.session
    /\ IF q \in consumed
       THEN /\ watch' = [watch EXCEPT !.at = "acking", !.request = q]
            /\ UNCHANGED <<consumed, retried, sessionVars, cycleVars, bindingVars>>
       ELSE /\ Consume(q)
            /\ \E started \in BOOLEAN :
                 /\ RetryFailed(started)
                 /\ watch' = [watch EXCEPT !.at = IF started THEN "cycle" ELSE "acking", !.request = q]
                 /\ retried' = IF started THEN [retried EXCEPT ![q] = @ + 1] ELSE retried
    /\ UNCHANGED <<gateVars, bounds>>

WatchCycle ==
    /\ watch.at = "cycle" /\ cycle[watch.session] = "over"
    /\ WatchAt("acking")
    /\ UNCHANGED <<sessionVars, consumed, retried, WatchOnly>>

(* ackRetry: it is tried again until it succeeds, or fails for good.       *)
AckRetry(final) ==
    /\ watch.at = "acking"
    /\ IF current # watch.session THEN WatchOver
       ELSE IF final # "none" THEN EndsInError(final) /\ watch' = NoWatch
       ELSE IF state = "completed" THEN WatchOver
       ELSE watch' = [watch EXCEPT !.at = "loop", !.request = 0] /\ UNCHANGED sessionVars
    /\ UNCHANGED <<consumed, retried, WatchOnly>>

-----------------------------------------------------------------------------
(* #armExpiry.                                                             *)
ExpiryTimer ==
    /\ current # 0 /\ private /\ current \in late
    /\ state' = IF state = "completed" THEN state ELSE "expired"
    /\ current' = 0
    /\ Clear
    /\ UNCHANGED <<cycleVars, bindingVars, watchVars, gateVars, bounds>>

TimePasses ==
    /\ created \in Sessions \ late /\ cycle[created] # "none"
    /\ late' = late \cup {created}
    /\ UNCHANGED <<bindingVars, sessionVars, cycleVars, watchVars, gateVars, created, calls, marks>>

(* A worker connects or disconnects.                                       *)
Mark(r) ==
    /\ marks < MaxMark
    /\ marks' = marks + 1
    /\ jobs' = Enqueued({r}, "mark", 0)
    /\ UNCHANGED <<binding, work, claim, faults, sessionVars, cycleVars, watchVars, gateVars, late, created, calls>>

GateStep ==
    /\ gate # <<>>
    /\ \/ MutateBinding \/ Reconciled \/ Retry \/ Cancel \/ CancelNothing \/ CycleAwaited
       \/ Listed \/ ListFails \/ Created \/ CreateFails \/ Activate
       \/ \E ok \in BOOLEAN : Cancelled(ok) \/ Activated(ok) \/ Verify(ok)

CandidateStep(g, r) == Online(g, r) \/ NotOnline(g, r)

WatchStep ==
    \/ WatchLoop \/ WatchCycle
    \/ \E final \in {"none"} \cup Over : PollRetryFails(final) \/ AckRetry(final)

(* A mutation whose turn has come begins before anything else happens.     *)
Begun == gate = <<>> \/ stage # "waiting"

Next ==
    \/ GateStep
    \/ /\ Begun
       /\ \/ \E r \in Runtimes : JobStep(r) \/ JobEnds(r) \/ Mark(r)
                                  \/ \E op \in {"enable", "disable", "reregister"} : CallBinding(op, r)
          \/ \E op \in {"start", "cancel", "retry"} : CallPairing(op)
          \/ \E g \in Sessions : \/ PollEnds(g) \/ CycleEnds(g)
                                \/ \E S \in SUBSET Runtimes \ {{}} : Selected(g, S)
                                \/ \E r \in Runtimes : CandidateStep(g, r)
          \/ WatchStep \/ \E q \in Requests : RetryRequested(q)
          \/ ExpiryTimer \/ TimePasses

Spec == Init /\ [][Next]_vars

(* The gate and every job, candidate and cycle that can go on does; a poll *)
(* ends at the latest when the session has expired.                        *)
FairSpec ==
    /\ Spec
    /\ WF_vars(GateStep) /\ WF_vars(WatchStep) /\ WF_vars(ExpiryTimer) /\ WF_vars(TimePasses)
    /\ \A r \in Runtimes : WF_vars(JobStep(r) \/ JobEnds(r))
    /\ \A g \in Sessions : /\ WF_vars(PollEnds(g)) /\ WF_vars(CycleEnds(g))
                           /\ \A r \in Runtimes : WF_vars(CandidateStep(g, r))

-----------------------------------------------------------------------------
(* Properties.                                                             *)

(* createPairingBindingActivator: a candidate is reported as bound only    *)
(* while its binding is enabled and has its credential, although the user  *)
(* may disable it while its worker was being started.                      *)
BoundMeansServing ==
    [][\A g \in Sessions, r \in Runtimes :
          results'[g][r] = "bound" /\ results[g][r] # "bound" => Works(binding[r])]_vars

(* #watchRetries: a retry request starts at most one cycle, although it is *)
(* delivered again.                                                        *)
RetryOnce == \A q \in Requests : retried[q] <= 1

(* #poll, #finishRegistration and #watchRetries: once cancel() or the      *)
(* expiry timer has ended a session, the state shown changes no more until *)
(* the next start; and whatever another start follows, a step of the cycle *)
(* or of the watch of an older session never changes it.  Within one       *)
(* generation nothing of the kind holds: an `expired` or `cancelled` that  *)
(* the poll or the watch itself shows leaves the generation current, and   *)
(* #finishRegistration of a cycle under way shows its own state after it.  *)
StaleIsSilent ==
    [][/\ current = 0 => state' = state
       /\ \A g \in Sessions \ {current} :
             cycle'[g] # cycle[g] \/ (watch.session = g /\ watch' # watch) => state' = state]_vars

(* pairingCancel returns, also while a registered binding waits for its    *)
(* activation.                                                             *)
CancelReturns == stage \in {"cancelling", "cycle", "watch"} ~> stage \notin {"cancelling", "cycle", "watch"}

=============================================================================
