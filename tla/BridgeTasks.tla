----------------------------- MODULE BridgeTasks -----------------------------
(***************************************************************************)
(* bridgeTaskManager (server/internal/daemon/bridge_task.go) and the       *)
(* shutdown of its HTTP server (bridge_http.go): tasks started, fenced and *)
(* cancelled by concurrent HTTP handlers, one goroutine per task, and one  *)
(* gate per conversation.                                                  *)
(*                                                                         *)
(* A step is one critical section of the manager or of a task, one channel *)
(* operation, or the part of a handler between two of them.  The backend   *)
(* (pkg/agent) runs between Proceed and AttemptEnds and may end in any     *)
(* way at any time.                                                        *)
(***************************************************************************)
EXTENDS Naturals, FiniteSets

CONSTANTS
    Ids,            \* task ids
    Anonymous,      \* the ids newTaskID makes, for requests without an identity
    Keys,           \* conversations: runtime and conversation key
    Starts,         \* Start calls that may be under way together
    Fences,         \* Fence calls that may be under way together
    MaxRequests,    \* the limit on requests and fences
    MaxTasks,       \* bound: tasks ever created
    Attempts,       \* bound: the ways an attempt may end, among Outcomes
    None            \* no value

(* How an attempt ends: completed, completed and confirmed by the runtime  *)
(* (CompletionConfirmed), resume rejected (bridgeTaskShouldRetry), failed  *)
(* or no session, aborted, or stop unconfirmed.                            *)
Outcomes == {"completed", "confirmed", "rejected", "failed", "aborted", "unconfirmed"}

ASSUME TasksAssumption ==
    /\ Anonymous \subseteq Ids
    /\ Attempts \subseteq Outcomes
    /\ MaxRequests \in Nat /\ MaxTasks \in Nat
    /\ None \notin Ids \cup Keys \cup Nat

VARIABLES
    tasks,      \* m.tasks: the task of each id
    requests,   \* m.requests: the request each identity was used for
    fences,     \* m.fences
    convs,      \* m.conversations: the conversation object of each key
    refs,       \* the refs of each conversation object
    gate,       \* the task in the gate channel of each conversation object
    task,       \* the task objects and their goroutines
    created,    \* how many of them there are
    start,      \* the Start calls
    fence,      \* the Fence calls
    expired,    \* identities past bridgeRequestLifetime
    fenced,     \* identities whose Fence succeeded
    root,       \* whether the root context is cancelled
    server      \* "serving", "sealed", "returned" (cleanly) or "forced"

manager == <<tasks, requests, fences>>
conversations == <<convs, refs, gate>>
vars == <<manager, conversations, task, created, start, fence, expired, fenced, root, server>>

-----------------------------------------------------------------------------
(* Task objects are numbered; a conversation object has the number of the  *)
(* task that made it.                                                      *)
Tasks == 1..MaxTasks

(* The goroutine of a task: before acquireConversation, in its select,     *)
(* given up, the gate acquired, the backend running, its attempt over, the *)
(* terminal event published, the gate emptied, and ended.                  *)
Stages == {"none", "queued", "waiting", "givenUp", "acquired", "running", "finishing",
           "published", "leaving", "ended"}

Holding == {"acquired", "running", "finishing", "published"}
Counted == {"waiting", "leaving"} \cup Holding

Events == {"none", "completed", "failed", "cancelled", "unconfirmed"}

TaskObjects ==
    [id : Ids \cup {None}, key : Keys \cup {None}, stage : Stages, cancelled : BOOLEAN,
     conv : Tasks \cup {0}, retried : BOOLEAN, outcome : Outcomes \cup {"none"}, event : Events]

NoTask ==
    [id |-> None, key |-> None, stage |-> "none", cancelled |-> FALSE, conv |-> 0,
     retried |-> FALSE, outcome |-> "none", event |-> "none"]

IdleStart == [stage |-> "idle", id |-> None, key |-> None]
IdleFence == [stage |-> "idle", id |-> None, task |-> 0]

TypeOK ==
    /\ tasks \in [Ids -> Tasks \cup {0}]
    /\ requests \in [Ids -> Keys \cup {None}]
    /\ fences \in SUBSET Ids
    /\ convs \in [Keys -> Tasks \cup {0}]
    /\ refs \in [Tasks -> Nat]
    /\ gate \in [Tasks -> Tasks \cup {0}]
    /\ task \in [Tasks -> TaskObjects]
    /\ created \in 0..MaxTasks
    /\ start \in [Starts -> [stage : {"idle", "validated", "resolving"},
                             id : Ids \cup {None}, key : Keys \cup {None}]]
    /\ fence \in [Fences -> [stage : {"idle", "validated", "found", "waiting"},
                             id : Ids \cup {None}, task : Tasks \cup {0}]]
    /\ expired \in SUBSET Ids
    /\ fenced \in SUBSET Ids
    /\ root \in BOOLEAN
    /\ server \in {"serving", "sealed", "returned", "forced"}

Init ==
    /\ tasks = [i \in Ids |-> 0]
    /\ requests = [i \in Ids |-> None]
    /\ fences = {}
    /\ convs = [k \in Keys |-> 0]
    /\ refs = [t \in Tasks |-> 0]
    /\ gate = [t \in Tasks |-> 0]
    /\ task = [t \in Tasks |-> NoTask]
    /\ created = 0
    /\ start = [c \in Starts |-> IdleStart]
    /\ fence = [f \in Fences |-> IdleFence]
    /\ expired = {}
    /\ fenced = {}
    /\ root = FALSE
    /\ server = "serving"

Terminal(t) == task[t].event # "none"

(* taskCtx.Err(): the task's own cancel or the root context.               *)
Cancelled(t) == task[t].cancelled \/ root

Running(t) == task[t].stage = "running"

Reserved == Cardinality({i \in Ids : requests[i] # None}) + Cardinality(fences)

-----------------------------------------------------------------------------
(* pruneExpired, with which every call begins: S are the ids whose         *)
(* terminalTTL is over.                                                    *)
PruneExpired(S) ==
    LET gone == {i \in S : tasks[i] # 0 /\ Terminal(tasks[i]) /\ i \in Anonymous \cup expired}
    IN  /\ tasks' = [i \in Ids |-> IF i \in gone THEN 0 ELSE tasks[i]]
        /\ requests' = [i \in Ids |-> IF i \in gone THEN None ELSE requests[i]]
        /\ fences' = fences \ expired

(* newTaskID is random: any id that was never used stands for it.          *)
Unused(i) == (\A t \in Tasks : task[t].id # i) /\ (\A c \in Starts : start[c].id # i)

NewTaskID == CHOOSE i \in Anonymous : Unused(i)

(* Start: pruneExpired, validRequestID and the checks of the request.      *)
StartCall(c, i, k, S) ==
    /\ server = "serving" /\ created < MaxTasks
    /\ start[c].stage = "idle"
    /\ PruneExpired(S)
    /\ i \notin expired
    /\ i \in Anonymous => Unused(i) /\ i = NewTaskID
    /\ start' = [start EXCEPT ![c] = [stage |-> "validated", id |-> i, key |-> k]]
    /\ UNCHANGED <<conversations, task, created, fence, expired, fenced, root, server>>

StartReturns(c) == start' = [start EXCEPT ![c] = IdleStart]

(* The answers that need no new task: fenced, conflict or the same again.  *)
KnownRequest(i) == i \in fences \/ requests[i] # None

(* The first look at the request, before the work directory and runtime.   *)
StartLookup(c) ==
    /\ start[c].stage = "validated"
    /\ IF start[c].id \notin Anonymous /\ KnownRequest(start[c].id)
       THEN StartReturns(c)
       ELSE start' = [start EXCEPT ![c].stage = "resolving"]
    /\ UNCHANGED <<manager, conversations, task, created, fence, expired, fenced, root, server>>

(* A work directory or runtime that is not fit, or the second look.        *)
StartRefused(c) ==
    /\ start[c].stage = "resolving"
    /\ StartReturns(c)
    /\ UNCHANGED <<manager, conversations, task, created, fence, expired, fenced, root, server>>

(* Mutant: the first look is enough.                                       *)
StartCommitUnchecked(c) ==
    LET i == start[c].id
        k == start[c].key
    IN  /\ start[c].stage = "resolving" /\ created < MaxTasks
        /\ created' = created + 1
        /\ task' = [task EXCEPT ![created'] = [NoTask EXCEPT !.id = i, !.key = k, !.stage = "queued"]]
        /\ tasks' = [tasks EXCEPT ![i] = created']
        /\ requests' = IF i \in Anonymous THEN requests ELSE [requests EXCEPT ![i] = k]
        /\ StartReturns(c)
        /\ UNCHANGED <<fences, conversations, fence, expired, fenced, root, server>>

(* The second look and the new task are one critical section.              *)
StartCommit(c) ==
    LET i == start[c].id
        k == start[c].key
    IN  /\ start[c].stage = "resolving" /\ created < MaxTasks
        /\ i \in Anonymous \/ (~KnownRequest(i) /\ Reserved < MaxRequests)
        /\ created' = created + 1
        /\ task' = [task EXCEPT ![created'] = [NoTask EXCEPT !.id = i, !.key = k, !.stage = "queued"]]
        /\ tasks' = [tasks EXCEPT ![i] = created']
        /\ requests' = IF i \in Anonymous THEN requests ELSE [requests EXCEPT ![i] = k]
        /\ StartReturns(c)
        /\ UNCHANGED <<fences, conversations, fence, expired, fenced, root, server>>

-----------------------------------------------------------------------------
(* The goroutine of a task.                                                *)

Others == <<manager, created, start, fence, expired, fenced, root, server>>

(* acquireConversation up to its select.                                   *)
Enqueue(t) ==
    LET k == task[t].key
        c == IF convs[k] = 0 THEN t ELSE convs[k]
    IN  /\ task[t].stage = "queued"
        /\ convs' = [convs EXCEPT ![k] = c]
        /\ refs' = [refs EXCEPT ![c] = @ + 1]
        /\ task' = [task EXCEPT ![t].stage = "waiting", ![t].conv = c]
        /\ UNCHANGED <<gate, Others>>

Acquire(t) ==
    /\ task[t].stage = "waiting"
    /\ gate[task[t].conv] = 0
    /\ gate' = [gate EXCEPT ![task[t].conv] = t]
    /\ task' = [task EXCEPT ![t].stage = "acquired"]
    /\ UNCHANGED <<convs, refs, Others>>

(* Mutant: the conversation goes with its first task.                      *)
ReleaseAlways(t) ==
    /\ refs' = [refs EXCEPT ![task[t].conv] = @ - 1]
    /\ convs' = [convs EXCEPT ![task[t].key] = 0]

(* releaseConversation.                                                    *)
ReleaseConversation(t) ==
    LET c == task[t].conv
    IN  /\ refs' = [refs EXCEPT ![c] = @ - 1]
        /\ convs' = IF refs[c] = 1 /\ convs[task[t].key] = c
                    THEN [convs EXCEPT ![task[t].key] = 0] ELSE convs

(* Mutant: a task that gives up keeps its reference.                       *)
GiveUpUnreleased(t) ==
    /\ task[t].stage = "waiting" /\ Cancelled(t)
    /\ task' = [task EXCEPT ![t].stage = "givenUp", ![t].conv = 0]
    /\ UNCHANGED <<conversations, Others>>

(* The context is done before the gate is free.                            *)
GiveUp(t) ==
    /\ task[t].stage = "waiting" /\ Cancelled(t)
    /\ ReleaseConversation(t)
    /\ task' = [task EXCEPT ![t].stage = "givenUp", ![t].conv = 0]
    /\ UNCHANGED <<gate, Others>>

(* publish: the terminal event closes done and cancels the context.        *)
Published(t, event, stage) ==
    [task EXCEPT ![t].event = event, ![t].cancelled = TRUE, ![t].stage = stage,
                 ![t].outcome = "none", ![t].retried = FALSE]

PublishGivenUp(t) ==
    /\ task[t].stage = "givenUp"
    /\ task' = Published(t, "cancelled", "ended")
    /\ UNCHANGED <<conversations, Others>>

(* The context is checked once more after the gate.                        *)
Proceed(t) ==
    /\ task[t].stage = "acquired"
    /\ task' = IF Cancelled(t) THEN Published(t, "cancelled", "published")
               ELSE [task EXCEPT ![t].stage = "running"]
    /\ UNCHANGED <<conversations, Others>>

(* execute: a rejected resume is tried once more without its session.      *)
AttemptEnds(t, outcome) ==
    /\ Running(t)
    /\ task' = IF outcome = "rejected" /\ ~task[t].retried /\ ~Cancelled(t)
               THEN [task EXCEPT ![t].retried = TRUE]
               ELSE [task EXCEPT ![t].stage = "finishing", ![t].outcome = outcome]
    /\ UNCHANGED <<conversations, Others>>

(* finishResult and finishError.                                           *)
FinalEvent(t) ==
    LET outcome == task[t].outcome
    IN  IF outcome = "unconfirmed" THEN "unconfirmed"
        ELSE IF outcome = "aborted" \/ (Cancelled(t) /\ outcome # "confirmed") THEN "cancelled"
        ELSE IF outcome \in {"completed", "confirmed"} THEN "completed"
        ELSE "failed"

Finish(t) ==
    /\ task[t].stage = "finishing"
    /\ task' = Published(t, FinalEvent(t), "published")
    /\ UNCHANGED <<conversations, Others>>

(* Mutant: the gate is not emptied.                                        *)
LeaveGateFull(t) ==
    /\ task[t].stage = "published"
    /\ task' = [task EXCEPT ![t].stage = "leaving"]
    /\ UNCHANGED <<conversations, Others>>

(* The deferred release: the gate is emptied, then the object let go.      *)
Leave(t) ==
    /\ task[t].stage = "published"
    /\ gate' = [gate EXCEPT ![task[t].conv] = 0]
    /\ task' = [task EXCEPT ![t].stage = "leaving"]
    /\ UNCHANGED <<convs, refs, Others>>

Release(t) ==
    /\ task[t].stage = "leaving"
    /\ ReleaseConversation(t)
    /\ task' = [task EXCEPT ![t].stage = "ended", ![t].conv = 0]
    /\ UNCHANGED <<gate, Others>>

-----------------------------------------------------------------------------
(* Subscribe, Cancel, Fence and the shutdown of the server.                *)

(* Subscribe prunes as well; so does a call refused at its first check.    *)
Subscribe(S) ==
    /\ server = "serving"
    /\ PruneExpired(S)
    /\ UNCHANGED <<conversations, task, created, start, fence, expired, fenced, root, server>>

Cancel(i, S) ==
    /\ server = "serving"
    /\ PruneExpired(S)
    /\ tasks'[i] # 0
    /\ task' = [task EXCEPT ![tasks'[i]].cancelled = TRUE]
    /\ UNCHANGED <<conversations, created, start, fence, expired, fenced, root, server>>

FenceCall(f, i, S) ==
    /\ server = "serving"
    /\ fence[f].stage = "idle"
    /\ PruneExpired(S)
    /\ i \notin Anonymous \cup expired
    /\ fence' = [fence EXCEPT ![f] = [stage |-> "validated", id |-> i, task |-> 0]]
    /\ UNCHANGED <<conversations, task, created, start, expired, fenced, root, server>>

(* An unknown identity is reserved, a known one is looked up.              *)
FenceLookup(f) ==
    LET i == fence[f].id
    IN  /\ fence[f].stage = "validated"
        /\ \/ /\ tasks[i] = 0
              /\ i \in fences \/ Reserved < MaxRequests
              /\ fences' = fences \cup {i}
              /\ fenced' = fenced \cup {i}
              /\ fence' = [fence EXCEPT ![f] = IdleFence]
           \/ /\ tasks[i] = 0
              /\ i \notin fences /\ Reserved >= MaxRequests
              /\ fence' = [fence EXCEPT ![f] = IdleFence]
              /\ UNCHANGED <<fences, fenced>>
           \/ /\ tasks[i] # 0
              /\ fence' = [fence EXCEPT ![f].stage = "found", ![f].task = tasks[i]]
              /\ UNCHANGED <<fences, fenced>>
        /\ UNCHANGED <<tasks, requests, conversations, task, created, start, expired, root, server>>

FenceCancel(f) ==
    /\ fence[f].stage = "found"
    /\ task' = [task EXCEPT ![fence[f].task].cancelled = TRUE]
    /\ fence' = [fence EXCEPT ![f].stage = "waiting"]
    /\ UNCHANGED <<manager, conversations, created, start, expired, fenced, root, server>>

(* Mutant: Fence returns once the signal is delivered.                     *)
FenceDoneEarly(f) ==
    /\ fence[f].stage = "waiting"
    /\ fenced' = fenced \cup {fence[f].id}
    /\ fence' = [fence EXCEPT ![f] = IdleFence]
    /\ UNCHANGED <<manager, conversations, task, created, start, expired, root, server>>

(* The terminal event proves the boundary, unless the stop is unconfirmed. *)
FenceDone(f) ==
    /\ fence[f].stage = "waiting"
    /\ Terminal(fence[f].task)
    /\ fenced' = IF task[fence[f].task].event = "unconfirmed" THEN fenced
                 ELSE fenced \cup {fence[f].id}
    /\ fence' = [fence EXCEPT ![f] = IdleFence]
    /\ UNCHANGED <<manager, conversations, task, created, start, expired, root, server>>

(* The handler's ten seconds are over, or its client has gone.             *)
FenceTimeout(f) ==
    /\ fence[f].stage = "waiting"
    /\ fence' = [fence EXCEPT ![f] = IdleFence]
    /\ UNCHANGED <<manager, conversations, task, created, start, expired, fenced, root, server>>

Expire(i) ==
    /\ i \notin Anonymous \cup expired
    /\ expired' = expired \cup {i}
    /\ UNCHANGED <<manager, conversations, task, created, start, fence, fenced, root, server>>

(* The root context is cancelled, then the handlers are sealed.            *)
Shutdown ==
    /\ server = "serving" /\ ~root
    /\ root' = TRUE
    /\ UNCHANGED <<manager, conversations, task, created, start, fence, expired, fenced, server>>

Seal ==
    /\ server = "serving" /\ root
    /\ server' = "sealed"
    /\ UNCHANGED <<manager, conversations, task, created, start, fence, expired, fenced, root>>

Handling == {c \in Starts : start[c].stage # "idle"} \cup {f \in Fences : fence[f].stage # "idle"}

(* Mutant: the tasks are looked at while handlers run.                     *)
ServeReturnsEarly ==
    /\ server = "sealed"
    /\ \A i \in Ids : tasks[i] # 0 => Terminal(tasks[i])
    /\ server' = "returned"
    /\ UNCHANGED <<manager, conversations, task, created, start, fence, expired, fenced, root>>

(* waitBridgeHTTPTasksTerminal: the handlers are gone, then the tasks end. *)
ServeReturns ==
    /\ server = "sealed"
    /\ Handling = {}
    /\ \A i \in Ids : tasks[i] # 0 => Terminal(tasks[i])
    /\ server' = "returned"
    /\ UNCHANGED <<manager, conversations, task, created, start, fence, expired, fenced, root>>

ServeTimeout ==
    /\ server = "sealed"
    /\ server' = "forced"
    /\ UNCHANGED <<manager, conversations, task, created, start, fence, expired, fenced, root>>

Goroutine(t) ==
    \/ Enqueue(t) \/ Acquire(t) \/ GiveUp(t) \/ PublishGivenUp(t) \/ Proceed(t)
    \/ \E outcome \in Attempts : AttemptEnds(t, outcome)
    \/ Finish(t) \/ Leave(t) \/ Release(t)

Next ==
    \/ \E c \in Starts, i \in Ids, k \in Keys, S \in SUBSET Ids : StartCall(c, i, k, S)
    \/ \E c \in Starts : StartLookup(c) \/ StartRefused(c) \/ StartCommit(c)
    \/ \E t \in Tasks : Goroutine(t)
    \/ \E i \in Ids : Expire(i) \/ \E S \in SUBSET Ids : Cancel(i, S)
    \/ \E S \in SUBSET Ids : Subscribe(S)
    \/ \E f \in Fences, i \in Ids, S \in SUBSET Ids : FenceCall(f, i, S)
    \/ \E f \in Fences : FenceLookup(f) \/ FenceCancel(f) \/ FenceDone(f) \/ FenceTimeout(f)
    \/ Shutdown \/ Seal \/ ServeReturns \/ ServeTimeout

Spec == Init /\ [][Next]_vars

(* Goroutines and handlers run; a gate goes to its waiters in turn (a Go   *)
(* channel serves its senders first come, first served); a backend ends,   *)
(* at the latest by its timeout.  Nothing makes a client call.             *)
Fairness ==
    /\ \A t \in Tasks : WF_vars(Goroutine(t)) /\ SF_vars(Acquire(t))
    /\ \A c \in Starts : WF_vars(StartLookup(c) \/ StartRefused(c) \/ StartCommit(c))
    /\ \A f \in Fences : WF_vars(FenceLookup(f) \/ FenceCancel(f) \/ FenceDone(f) \/ FenceTimeout(f))
    /\ WF_vars(Seal \/ ServeReturns)

FairSpec == Spec /\ Fairness

-----------------------------------------------------------------------------
(* Two tasks of one conversation never run together, although the object   *)
(* that serializes them is deleted and made again as tasks come and go.    *)
OneRunPerConversation ==
    \A s, t \in Tasks :
        s # t /\ task[s].stage \in Holding /\ task[t].stage \in Holding
            => task[s].key # task[t].key

(* A request identity starts one task, however often and however           *)
(* concurrently its Start is repeated, as long as the identity is valid.   *)
OneTaskPerRequest ==
    \A s, t \in Tasks :
        s # t /\ task[s].id = task[t].id /\ task[s].id # None => task[s].id \in expired

(* A Fence that succeeded has proved a boundary: as long as the identity   *)
(* is valid no task of it is under way and none will start, whichever      *)
(* Start calls are in flight.                                              *)
FenceHolds ==
    \A t \in Tasks : task[t].id \in fenced \ expired => Terminal(t)

(* A conversation stays in the map only while a task needs it.             *)
ConversationsReclaimed ==
    \A k \in Keys :
        convs[k] # 0 => \E t \in Tasks : task[t].stage \in Counted /\ task[t].conv = convs[k]

(* A server that returned without an error has left no task behind, not    *)
(* even one whose Start was in a handler when the shutdown began.          *)
CleanShutdown ==
    server = "returned" => \A t \in Tasks : task[t].stage = "none" \/ Terminal(t)

Over == server \in {"returned", "forced"}

(* Every task reaches its terminal event, behind others in its             *)
(* conversation, cancelled or not, and a shutdown completes: cancelled     *)
(* tasks and open handlers let the server return.                          *)
WorkEnds ==
    /\ \A t \in Tasks : task[t].stage = "queued" ~> (Terminal(t) \/ Over)
    /\ root ~> Over

=============================================================================
