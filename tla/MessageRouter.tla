----------------------------- MODULE MessageRouter -----------------------------
(***************************************************************************)
(* MessageRouter (router/message-router.ts) for the messages of one        *)
(* conversation of one binding, with the deduplication entries of          *)
(* router/session-store.ts and router/dedup.ts.  A message may be          *)
(* delivered more than once.  Handlers share the conversation's lane,      *)
(* interleave with /stop, with disposal and reactivation of the binding at *)
(* every await, and may be cut off by a crash of the service, which the    *)
(* bridge and its tasks outlive.  A call may fail although it was run.     *)
(*                                                                         *)
(* An operation of the state store takes effect when it is called, its     *)
(* answer is used in a later step.                                         *)
(***************************************************************************)
EXTENDS Naturals, Sequences, FiniteSets

CONSTANTS
    Plain,          \* messages that start a task
    Reads,          \* commands that only answer
    Mutations,      \* commands that change the router's state
    Stops,          \* /stop
    MaxDelivery,    \* bound: deliveries, of any of the messages
    MaxWaiting,     \* MAX_WAITING_PER_CONVERSATION
    MaxDisposal,    \* bound: disposals of the binding
    MaxCrash,       \* bound: crashes of the service
    MaxFault,       \* bound: writes of the state file that fail
    MaxLost,        \* bound: acts whose answers are lost
    MaxFailure     \* bound: the last two together

Messages == Plain \cup Reads \cup Mutations \cup Stops

ASSUME RouterAssumption ==
    /\ MaxDelivery \in Nat /\ MaxWaiting \in Nat /\ MaxDisposal \in Nat
    /\ MaxCrash \in Nat /\ MaxFault \in Nat /\ MaxLost \in Nat /\ MaxFailure \in Nat
    /\ Plain \cap (Reads \cup Mutations \cup Stops) = {}
    /\ Reads \cap (Mutations \cup Stops) = {} /\ Mutations \cap Stops = {}

Handlers == 1..MaxDelivery

VARIABLES
    handler,    \* a handler for each delivery
    delivered,  \* deliveries so far
    lane,       \* the lane of the conversation in #lanes
    active,     \* #active of the conversation (0: none)
    memory,     \* dedup entries of the state store ...
    file,       \* ... and of its file
    task,       \* the task each handler started and knows the id of
    generation, \* #bindingGenerations
    disposal,   \* the last disposal of the binding
    closed,     \* #disposed
    acts,       \* history: the times a message was acted on
    answered,   \* history: the messages whose handler learned of it
    adrift,     \* history: tasks that run though their cancel failed, their
                \* stream broke, or the service died
    crashes, faults, losses

store == <<memory, file, faults>>
gate == <<generation, disposal, closed>>
record == <<acts, answered, losses>>
history == <<record, adrift>>
vars == <<handler, delivered, lane, active, store, task, gate, history, crashes>>

Idle == [at |-> "idle", of |-> 0, generation |-> 0, answer |-> "none", target |-> 0]
Free == [state |-> "none", owner |-> 0]

Outbound == {"refusing", "responding", "receipting", "texting", "answering"}
Stages == {"idle", "queued", "claiming", "checking", "preparing", "checked", "starting",
           "restarting", "withdrawing", "acting", "admitting", "consuming",
           "releasing", "retracting", "awaiting", "done"} \cup Outbound

TypeOK ==
    /\ handler \in [Handlers -> [at : Stages, of : Messages \cup {0}, generation : 0..(2 * MaxDisposal),
                                 answer : {"none", "claimed", "duplicate", "failed", "accepted"},
                                 target : Handlers \cup {0}]]
    /\ delivered \in 0..MaxDelivery
    /\ lane.holder \in Handlers \cup {0} /\ lane.queue \in Seq(Handlers)
    /\ active \in Handlers \cup {0}
    /\ {memory, file} \subseteq [Messages -> [state : {"none", "claimed", "admitted"}, owner : Handlers \cup {0}]]
    /\ task \in [Handlers -> {"none", "running", "stopping", "over"}]
    /\ generation \in 0..(2 * MaxDisposal)
    /\ disposal \in [at : {"none", "cancelling", "sending", "returned"}, target : Handlers \cup {0},
                      count : 0..MaxDisposal]
    /\ closed \in BOOLEAN
    /\ acts \in [Messages -> Nat] /\ answered \subseteq Messages /\ adrift \subseteq Handlers
    /\ crashes \in 0..MaxCrash /\ faults \in 0..MaxFault /\ losses \in 0..MaxLost

Init ==
    /\ handler = [h \in Handlers |-> Idle]
    /\ delivered = 0
    /\ lane = [holder |-> 0, queue |-> <<>>]
    /\ active = 0
    /\ memory = [m \in Messages |-> Free] /\ file = memory
    /\ task = [h \in Handlers |-> "none"]
    /\ generation = 0
    /\ disposal = [at |-> "none", target |-> 0, count |-> 0]
    /\ closed = FALSE
    /\ acts = [m \in Messages |-> 0]
    /\ answered = {} /\ adrift = {}
    /\ crashes = 0 /\ faults = 0 /\ losses = 0

-----------------------------------------------------------------------------
(* The state store.                                                        *)

(* Another failure is within the bounds.                                   *)
Another == faults + losses < MaxFailure

(* A write that fails leaves the memory as it was; the file may already    *)
(* have been replaced.                                                     *)
Write(new, ok) ==
    \/ ok /\ memory' = new /\ file' = new /\ UNCHANGED faults
    \/ /\ ~ok /\ faults < MaxFault /\ Another
       /\ faults' = faults + 1
       /\ file' \in {file, new}
       /\ UNCHANGED memory

(* admitMessage and releaseMessage act only on the caller's own claim.     *)
Own(h) == memory[handler[h].of].owner = h

Released(h, ok) ==
    IF Own(h) /\ memory[handler[h].of].state = "claimed"
    THEN Write([memory EXCEPT ![handler[h].of] = Free], ok)
    ELSE ok /\ UNCHANGED store

Admitted(h, ok) ==
    IF Own(h) THEN Write([memory EXCEPT ![handler[h].of].state = "admitted"], ok)
    ELSE ok /\ UNCHANGED store

(* claimMessage: a duplicate writes nothing; a table that is full throws.  *)
Claimed(m, h, answer) ==
    IF memory[m].state # "none" THEN answer = "duplicate" /\ UNCHANGED store
    ELSE /\ answer \in {"claimed", "failed"}
         /\ Write([memory EXCEPT ![m] = [state |-> "claimed", owner |-> h]], answer = "claimed")

-----------------------------------------------------------------------------
(* The gate of the binding, and the lane of the conversation.              *)

disposed == disposal.at # "none"

(* bindingGenerationCurrent.                                               *)
Current(h) == ~closed /\ ~disposed /\ handler[h].generation = generation

At(h, stage) == handler' = [handler EXCEPT ![h].at = stage]

(* What is left of a handler: whether its admission failed.                *)
Gone(h) == [Idle EXCEPT !.at = "done", !.answer = IF handler[h].at = "withdrawing" THEN handler[h].answer ELSE "none"]

(* Mutant: a handler that returns does not let the lane go on.             *)
ReturnKeepsLane(h) == handler' = [handler EXCEPT ![h] = Gone(h)] /\ UNCHANGED lane

(* #runLane: a handler that returns leaves its lane.                       *)
Return(h) ==
    /\ handler' = [handler EXCEPT ![h] = Gone(h)]
    /\ lane' = IF lane.holder = h THEN [lane EXCEPT !.holder = 0] ELSE lane

Continue(h, stage) == At(h, stage) /\ UNCHANGED lane

(* The first step of a handler: it notes the generation and calls claim.   *)
Begin(h, m, answer) ==
    /\ handler' = [handler EXCEPT ![h] = [Idle EXCEPT !.at = "claiming", !.of = m,
                                                     !.generation = generation, !.answer = answer]]
    /\ Claimed(m, h, answer)

Open == ~closed /\ ~disposed /\ delivered < MaxDelivery
Untouched == <<active, task, gate, history, crashes>>
Answers == {"claimed", "duplicate", "failed"}

(* onWorkerEvent and #enqueue: the lane is free ...                        *)
Deliver(m, answer) ==
    /\ Open /\ m \notin Stops
    /\ lane = [holder |-> 0, queue |-> <<>>]
    /\ delivered' = delivered + 1
    /\ lane' = [lane EXCEPT !.holder = delivered']
    /\ Begin(delivered', m, answer)
    /\ UNCHANGED Untouched

(* ... or the message waits, or is refused when too many wait.             *)
DeliverLater(m) ==
    /\ Open /\ m \notin Stops
    /\ lane # [holder |-> 0, queue |-> <<>>]
    /\ delivered' = delivered + 1
    /\ IF Len(lane.queue) >= MaxWaiting
       THEN /\ handler' = [handler EXCEPT ![delivered'] = [Idle EXCEPT !.at = "refusing", !.of = m]]
            /\ UNCHANGED lane
       ELSE /\ handler' = [handler EXCEPT ![delivered'] = [Idle EXCEPT !.at = "queued", !.of = m]]
            /\ lane' = [lane EXCEPT !.queue = Append(@, delivered')]
    /\ UNCHANGED <<store, Untouched>>

(* /stop does not wait for the lane.                                       *)
DeliverStop(m, answer) ==
    /\ Open /\ m \in Stops
    /\ delivered' = delivered + 1
    /\ Begin(delivered', m, answer)
    /\ UNCHANGED <<lane, Untouched>>

(* #runLane takes the next item as soon as the last one returned.          *)
Take(answer) ==
    /\ lane.holder = 0 /\ lane.queue # <<>>
    /\ LET h == Head(lane.queue) IN
       /\ lane' = [holder |-> h, queue |-> Tail(lane.queue)]
       /\ Begin(h, handler[h].of, answer)
    /\ UNCHANGED <<delivered, Untouched>>

-----------------------------------------------------------------------------
(* Steps that every kind of handler has.                                   *)

HandlerOnly == <<delivered, Untouched>>

(* The claim is released; a text follows unless the handler is stale.      *)
Release(h, ok) == Released(h, ok) /\ Continue(h, "releasing")

(* Mutant: a handler that is stale leaves without a word.                  *)
ClaimAnsweredStale(h, ok) ==
    /\ handler[h].at = "claiming"
    /\ ok /\ UNCHANGED store
    /\ IF handler[h].answer = "duplicate" \/ ~Current(h) THEN Return(h)
       ELSE Continue(h, IF handler[h].answer = "failed" THEN "texting"
                        ELSE IF handler[h].of \in Plain THEN "preparing" ELSE "checking")
    /\ UNCHANGED HandlerOnly

(* claimMessage is answered; a claim of a stale handler is given back.     *)
ClaimAnswered(h, ok) ==
    /\ handler[h].at = "claiming"
    /\ CASE handler[h].answer = "claimed" /\ ~Current(h) -> Release(h, ok)
         [] handler[h].answer = "claimed" /\ Current(h) ->
              /\ Continue(h, IF handler[h].of \in Plain THEN "preparing" ELSE "checking")
              /\ ok /\ UNCHANGED store
         [] handler[h].answer = "failed" /\ Current(h) ->
              ok /\ Continue(h, "texting") /\ UNCHANGED store
         [] OTHER -> ok /\ Return(h) /\ UNCHANGED store
    /\ UNCHANGED HandlerOnly

ReleaseAnswered(h) ==
    /\ handler[h].at \in {"releasing", "retracting"}
    /\ IF handler[h].at = "releasing" /\ Current(h) THEN Continue(h, "texting") ELSE Return(h)
    /\ UNCHANGED <<store, HandlerOnly>>

TextSettles(h) ==
    /\ handler[h].at \in {"texting", "refusing"}
    /\ Return(h)
    /\ UNCHANGED <<store, HandlerOnly>>

(* admitMessage is called and its answer kept.                             *)
Admit(h, ok) ==
    /\ Admitted(h, ok)
    /\ handler' = [handler EXCEPT ![h].at = "admitting", ![h].answer = IF ok THEN "accepted" ELSE "failed"]
    /\ UNCHANGED lane

(* The message is acted on: a task starts, a read is answered, a mutation  *)
(* or a cancel is carried out.                                             *)
Run(h) == acts' = [acts EXCEPT ![handler[h].of] = @ + 1]

Act(h) == Run(h) /\ answered' = answered \cup {handler[h].of} /\ UNCHANGED losses

(* It is acted on and the answer is lost.                                  *)
Lost(h) == Run(h) /\ losses < MaxLost /\ Another /\ losses' = losses + 1 /\ UNCHANGED answered

(* The call fails: it was not run, or it was and its answer is lost.       *)
Unanswered(h) == UNCHANGED record \/ Lost(h)

-----------------------------------------------------------------------------
(* #runPlain.                                                              *)

(* The binding, the room, the session, the work directory and the binding  *)
(* again, each followed by a check of the generation.                      *)
Prepare(h, ok) ==
    /\ handler[h].at = "preparing"
    /\ \/ Current(h) /\ ok /\ Continue(h, "checked") /\ UNCHANGED store
       \/ Release(h, ok)
    /\ UNCHANGED HandlerOnly

(* #startLegacyTask reads the ownership of the room and then starts.       *)
CallStart(h, ok) ==
    /\ handler[h].at = "checked"
    /\ \/ ok /\ Continue(h, "starting") /\ UNCHANGED store
       \/ Release(h, ok)
    /\ UNCHANGED HandlerOnly

Starting(h) == handler[h].at \in {"starting", "restarting"}

(* Mutant: the generation is not looked at after the task has started.     *)
StartAnsweredUnchecked(h, ok) ==
    /\ Starting(h)
    /\ task' = [task EXCEPT ![h] = "running"]
    /\ Act(h)
    /\ Admit(h, ok) /\ active' = h
    /\ UNCHANGED <<delivered, gate, adrift, crashes>>

(* Mutant: a stale handler gives its claim back after the task started.    *)
StartAnsweredReleased(h, ok) ==
    /\ Starting(h)
    /\ task' = [task EXCEPT ![h] = "running"]
    /\ Act(h)
    /\ IF Current(h) THEN Admit(h, ok) /\ active' = h
       ELSE Released(h, ok) /\ Continue(h, "withdrawing") /\ UNCHANGED active
    /\ UNCHANGED <<delivered, gate, adrift, crashes>>

(* The task has started.  A stale handler cancels it and keeps its claim;  *)
(* any other is now the active one and calls admit.                        *)
StartAnswered(h, ok) ==
    /\ Starting(h)
    /\ task' = [task EXCEPT ![h] = "running"]
    /\ Act(h)
    /\ IF Current(h) THEN Admit(h, ok) /\ active' = h
       ELSE ok /\ Continue(h, "withdrawing") /\ UNCHANGED <<store, active>>
    /\ UNCHANGED <<delivered, gate, adrift, crashes>>

(* RecoveringBridgeTask: the connection broke or the runtime was unknown;  *)
(* the start is sent once more, without a requestId, whether or not the    *)
(* bridge ran the first one.                                               *)
StartAgain(h) ==
    /\ handler[h].at = "starting"
    /\ Unanswered(h)
    /\ Continue(h, "restarting")
    /\ UNCHANGED <<delivered, active, store, task, gate, adrift, crashes>>

(* It throws, also when only its answer timed out or was lost.  Nobody     *)
(* knows the id of a task it then started, and the claim is given back.    *)
StartFails(h, ok) ==
    /\ Starting(h)
    /\ Unanswered(h)
    /\ Release(h, ok)
    /\ UNCHANGED <<delivered, active, task, gate, adrift, crashes>>

Running == {h \in Handlers : task[h] = "running"}

(* cancelTask, which may fail.                                             *)
Cancelled(h) ==
    \/ task' = [task EXCEPT ![h] = IF @ = "running" THEN "stopping" ELSE @] /\ UNCHANGED adrift
    \/ adrift' = adrift \cup (Running \cap {h}) /\ UNCHANGED task

Withdraw(h) ==
    /\ handler[h].at = "withdrawing"
    /\ Cancelled(h)
    /\ Return(h)
    /\ UNCHANGED <<delivered, active, store, gate, record, crashes>>

(* A claim that is not admitted ends the handler and its task.             *)
PlainAdmitted(h) ==
    /\ handler[h].at = "admitting" /\ handler[h].of \in Plain
    /\ IF handler[h].answer = "failed" THEN active' = 0 /\ Continue(h, "withdrawing")
       ELSE IF Current(h) THEN Continue(h, "receipting") /\ UNCHANGED active
       ELSE active' = 0 /\ Return(h)
    /\ UNCHANGED <<delivered, store, task, gate, history, crashes>>

PlainReceipt(h) ==
    /\ handler[h].at = "receipting" /\ handler[h].of \in Plain
    /\ IF Current(h) THEN Continue(h, "consuming") /\ UNCHANGED active
       ELSE active' = 0 /\ Return(h)
    /\ UNCHANGED <<delivered, store, task, gate, history, crashes>>

Forget(h) == active' = IF active = h THEN 0 ELSE active

(* #consume: the task ends, the stream breaks, the watchdog cancels, or    *)
(* the disposal closes the reader.                                         *)
ConsumeEnds(h) ==
    /\ handler[h].at = "consuming"
    /\ \/ task[h] = "over" /\ UNCHANGED <<task, adrift>>
       \/ Current(h) /\ Cancelled(h)
       \/ ~Current(h) /\ UNCHANGED <<task, adrift>>
    /\ IF Current(h) THEN Continue(h, "answering") /\ UNCHANGED active
       ELSE Return(h) /\ Forget(h)
    /\ UNCHANGED <<delivered, store, gate, record, crashes>>

AnswerSettles(h) ==
    /\ handler[h].at = "answering"
    /\ Return(h) /\ Forget(h)
    /\ UNCHANGED <<delivered, store, task, gate, history, crashes>>

PlainStep(h) ==
    \/ \E ok \in BOOLEAN : Prepare(h, ok) \/ CallStart(h, ok) \/ StartAnswered(h, ok) \/ StartFails(h, ok)
    \/ StartAgain(h) \/ Withdraw(h) \/ PlainAdmitted(h) \/ PlainReceipt(h) \/ AnswerSettles(h)

-----------------------------------------------------------------------------
(* #runSlash and #runStop.                                                 *)

Local(h) == handler[h].of \notin Plain

(* A /stop that found no task is answered like a read.                     *)
Reading(h) == handler[h].of \in Reads \/ (handler[h].of \in Stops /\ handler[h].target = 0)

(* #claimLocal looks the binding up; then a read and a mutation call the   *)
(* state store, and /stop picks the active task and cancels it.            *)
Checked(h, ok) ==
    /\ handler[h].at = "checking"
    /\ \/ Release(h, ok)
       \/ /\ Current(h) /\ ok
          /\ handler' = [handler EXCEPT ![h].at = IF handler[h].of \in Stops /\ active = 0
                                                  THEN "responding" ELSE "acting",
                                        ![h].target = IF handler[h].of \in Stops THEN active ELSE 0]
          /\ UNCHANGED <<lane, store>>
    /\ UNCHANGED HandlerOnly

(* The task /stop cancels, if any.                                         *)
Stopped(h) ==
    task' = [k \in Handlers |-> IF k = handler[h].target /\ task[k] = "running" THEN "stopping" ELSE task[k]]

(* What was called throws; a cancel or a mutation may have been run.       *)
ActFails(h, ok) ==
    /\ handler[h].at = "acting"
    /\ \/ UNCHANGED <<record, task>>
       \/ handler[h].of \notin Reads /\ Lost(h) /\ Stopped(h)
    /\ Release(h, ok)
    /\ UNCHANGED <<delivered, active, gate, adrift, crashes>>

(* A read is answered: #finishRead sends, unless the handler is stale.     *)
ReadDone(h, ok) ==
    /\ handler[h].at = "acting" /\ handler[h].of \in Reads
    /\ IF Current(h) THEN ok /\ Continue(h, "responding") /\ UNCHANGED store
       ELSE Released(h, ok) /\ Continue(h, "retracting")
    /\ UNCHANGED HandlerOnly

(* A mutation or a cancel was accepted: #finishMutation admits first.      *)
MutationDone(h, ok) ==
    /\ handler[h].at = "acting" /\ handler[h].of \in Mutations \cup Stops
    /\ Stopped(h)
    /\ Act(h)
    /\ Admit(h, ok)
    /\ UNCHANGED <<delivered, active, gate, adrift, crashes>>

(* The end of a mutation; /stop waits for the end of the task.             *)
Finish(h) == IF Reading(h) \/ handler[h].of \in Mutations THEN Return(h) ELSE Continue(h, "awaiting")

LocalAdmitted(h) ==
    /\ handler[h].at = "admitting" /\ Local(h)
    /\ IF handler[h].answer = "accepted" /\ Current(h)
       THEN Continue(h, IF Reading(h) THEN "receipting" ELSE "responding")
       ELSE Finish(h)
    /\ UNCHANGED <<store, HandlerOnly>>

(* The response of a read is what it was for: it is admitted after it, and *)
(* released when the send fails.                                           *)
ReadSettles(h, sent, ok) ==
    /\ handler[h].at = "responding" /\ Reading(h)
    /\ IF sent THEN Act(h) /\ Admit(h, ok)
       ELSE Released(h, ok) /\ Continue(h, "retracting") /\ Unanswered(h)
    /\ UNCHANGED <<delivered, active, task, gate, adrift, crashes>>

ResponseSettles(h) ==
    /\ handler[h].at = "responding" /\ ~Reading(h)
    /\ IF Current(h) THEN Continue(h, "receipting") ELSE Finish(h)
    /\ UNCHANGED <<store, HandlerOnly>>

LocalReceipt(h) ==
    /\ handler[h].at = "receipting" /\ Local(h)
    /\ Finish(h)
    /\ UNCHANGED <<store, HandlerOnly>>

(* active.done, which a failed admission never resolves.                   *)
Awaited(h) ==
    /\ handler[h].at = "awaiting"
    /\ handler[handler[h].target].at = "done" /\ handler[handler[h].target].answer # "failed"
    /\ Return(h)
    /\ UNCHANGED <<store, HandlerOnly>>

LocalStep(h) ==
    \/ \E ok \in BOOLEAN : \/ Checked(h, ok) \/ ActFails(h, ok) \/ ReadDone(h, ok) \/ MutationDone(h, ok)
                           \/ \E sent \in BOOLEAN : ReadSettles(h, sent, ok)
    \/ LocalAdmitted(h) \/ ResponseSettles(h) \/ LocalReceipt(h) \/ Awaited(h)

-----------------------------------------------------------------------------
(* Disposal.                                                               *)

(* Mutant: the lane is deleted although a handler runs in it.              *)
EmptyLanesAll == lane' = [holder |-> 0, queue |-> <<>>]

(* The messages that wait are dropped; a lane that runs stays.             *)
EmptyLanes == lane' = [lane EXCEPT !.queue = <<>>]

BeginDisposal ==
    /\ disposal' = [at |-> "cancelling", target |-> active, count |-> disposal.count + 1]
    /\ generation' = generation + 1
    /\ EmptyLanes
    /\ handler' = [h \in Handlers |-> IF handler[h].at = "queued" THEN Gone(h) ELSE handler[h]]

DisposeBinding ==
    /\ ~closed /\ ~disposed /\ disposal.count < MaxDisposal
    /\ BeginDisposal
    /\ UNCHANGED <<delivered, active, store, task, closed, history, crashes>>

(* dispose() of the router: a disposal under way is shared.                *)
Dispose ==
    /\ ~closed
    /\ closed' = TRUE
    /\ \/ disposed /\ UNCHANGED <<disposal, generation, lane, handler>>
       \/ ~disposed /\ disposal.count < MaxDisposal /\ BeginDisposal
    /\ UNCHANGED <<delivered, active, store, task, history, crashes>>

DisposeCancels ==
    /\ disposal.at = "cancelling"
    /\ IF disposal.target = 0 THEN UNCHANGED <<task, adrift>> ELSE Cancelled(disposal.target)
    /\ disposal' = [disposal EXCEPT !.at = "sending", !.target = 0]
    /\ UNCHANGED <<handler, delivered, lane, active, store, generation, closed, record, crashes>>

(* The disposal ends when nothing is outbound.                             *)
DisposeReturns ==
    /\ disposal.at = "sending"
    /\ \A h \in Handlers : handler[h].at \notin Outbound
    /\ disposal' = [disposal EXCEPT !.at = "returned"]
    /\ UNCHANGED <<handler, delivered, lane, active, store, task, generation, closed, history, crashes>>

ActivateBinding ==
    /\ ~closed
    /\ disposal.at = "returned"
    /\ disposal' = [disposal EXCEPT !.at = "none"]
    /\ generation' = generation + 1
    /\ UNCHANGED <<handler, delivered, lane, active, store, task, closed, history, crashes>>

-----------------------------------------------------------------------------
TaskEnds(h) ==
    /\ task[h] \in {"running", "stopping"}
    /\ task' = [task EXCEPT ![h] = "over"]
    /\ adrift' = adrift \ {h}
    /\ UNCHANGED <<handler, delivered, lane, active, store, gate, record, crashes>>

(* What a handler has called and not been answered.                        *)
Underway(h) ==
    Starting(h) \/ (handler[h].at = "acting" /\ handler[h].of \notin Reads) \/ (handler[h].at = "responding" /\ Reading(h))

(* The service crashes and starts again with its state file.  The bridge   *)
(* lives on and is adopted: its tasks run on without a handler, and what   *)
(* was under way may have been run.                                        *)
Crash ==
    /\ crashes < MaxCrash
    /\ crashes' = crashes + 1
    /\ handler' = [h \in Handlers |-> IF h <= delivered THEN [Idle EXCEPT !.at = "done"] ELSE Idle]
    /\ lane' = [holder |-> 0, queue |-> <<>>]
    /\ active' = 0
    /\ memory' = file
    /\ UNCHANGED record \/ \E h \in Handlers : Underway(h) /\ Lost(h)
    /\ adrift' = adrift \cup Running
    /\ generation' = 0
    /\ disposal' = [disposal EXCEPT !.at = "none", !.target = 0]
    /\ closed' = FALSE
    /\ UNCHANGED <<delivered, file, faults, task>>

HandlerStep(h) ==
    \/ \E ok \in BOOLEAN : ClaimAnswered(h, ok)
    \/ ReleaseAnswered(h) \/ TextSettles(h) \/ PlainStep(h) \/ LocalStep(h)

DisposalStep == DisposeCancels \/ DisposeReturns

Next ==
    \/ \E m \in Messages : DeliverLater(m) \/ \E answer \in Answers : Deliver(m, answer) \/ DeliverStop(m, answer)
    \/ \E answer \in Answers : Take(answer)
    \/ \E h \in Handlers : HandlerStep(h) \/ ConsumeEnds(h) \/ TaskEnds(h)
    \/ DisposeBinding \/ Dispose \/ DisposalStep \/ ActivateBinding
    \/ Crash

Spec == Init /\ [][Next]_vars

-----------------------------------------------------------------------------
(* Properties.                                                             *)

(* claimMessage and #runPlain: a message whose handler learned that it was *)
(* acted on is never acted on again, however often it is delivered and     *)
(* whatever disposal, failed write or crash comes between its claim and    *)
(* its admission.  A second act needs every earlier one to have been run   *)
(* without an answer: a plain start has no requestId, and a start that     *)
(* failed is sent again and its claim given back.                          *)
ActedOnce == [][\A m \in answered : acts'[m] = acts[m]]_vars

(* releaseMessage: a claim no handler works on belongs to a message whose  *)
(* handler learned that it was acted on, so that a redelivery of any other *)
(* is not swallowed; only a crash or a failed write may leave one behind.  *)
NotSwallowed ==
    crashes = 0 /\ faults = 0 =>
        \A m \in Messages : memory[m].state # "none" /\ handler[memory[m].owner].at = "done" => m \in answered

(* #runLane and #disposeBindingOnce: two messages of a conversation are    *)
(* never handled at once, also when the binding was disposed of and        *)
(* activated while the first was under way.                                *)
OneHandlerPerLane ==
    Cardinality({h \in Handlers : /\ handler[h].of \in Messages \ Stops
                                  /\ handler[h].at \notin {"idle", "queued", "refusing", "done"}}) <= 1

(* #runPlain and disposal: a task whose handler is gone has ended or was   *)
(* cancelled, or a disposal is about to, whichever of start, admission and *)
(* disposal came first.  Left behind is one whose cancel failed or whose   *)
(* stream broke, one that outlived a crash of the service, which the       *)
(* adopted bridge runs on, and, with no id to speak of, a task whose start *)
(* was not answered.                                                       *)
NoStrayTask ==
    \A h \in Handlers : task[h] = "running" /\ handler[h].at = "done" => h \in adrift \cup {disposal.target}

(* A step of the handler's own comes next: it waits for no other handler.  *)
Busy(h) == handler[h].at \notin {"idle", "queued", "awaiting", "done"}

(* #runLane, #runStop and disposal: whoever waits, waits for a handler     *)
(* that goes on or is gone, never for a chain or a ring of waits: the lane *)
(* is held by a handler at work, everyone who waits for it is in its       *)
(* queue, and a /stop awaits a task whose handler works or has ended.      *)
WaitsEndInWork ==
    /\ lane.holder # 0 => Busy(lane.holder)
    /\ \A h \in Handlers : handler[h].at = "queued" => \E i \in 1..Len(lane.queue) : lane.queue[i] = h
    /\ \A h \in Handlers : handler[h].at = "awaiting" =>
          /\ handler[h].target # 0
          /\ Busy(handler[h].target) \/ handler[handler[h].target].at = "done"

(* Whatever goes on by itself, calls being answered and tasks ending.      *)
Proceeds ==
    \/ \E answer \in Answers : Take(answer)
    \/ \E h \in Handlers : HandlerStep(h) \/ ConsumeEnds(h) \/ TaskEnds(h)
    \/ DisposalStep

(* #runLane and disposal: nothing is left waiting when nothing can go on,  *)
(* every message of the lane has been handled or dropped and a disposal    *)
(* has returned; only a /stop of a task that was not admitted waits.       *)
NeverStuck ==
    ~ENABLED Proceeds =>
        /\ \A h \in Handlers :
             \/ handler[h].at \in {"idle", "done"}
             \/ handler[h].at = "awaiting" /\ handler[handler[h].target].answer = "failed"
        /\ disposal.at \in {"none", "returned"}
================================================================================
