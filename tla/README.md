# Quukk ClawMessenger: verification project

TLA+ models of the parts of Quukk ClawMessenger that run concurrently, survive
crashes or speak to something that may fail, the TLC runs that check them on
small instances, and TLAPS proofs of their safety properties for every instance.

Paths below are relative to the repository; `pkg/` stands for
`packages/quukk-clawmessenger/src/` and `daemon/` for `server/internal/daemon/`.

## 1. The system

The repository is a fork of Multica (a Go server with web, desktop and mobile
applications). What the fork adds, and ships, is a bridge between an instant
messenger (RongCloud) and the coding agents installed on one computer:

```
 messenger --- RongCloud --- worker process (one per binding)
                                  | IPC pipe
   QuukkService (Node) ---- RongCloudWorkerSupervisor
      |  |  |  \-- PairingService, BindingService -- LocalStore (state.json, credentials.json)
      |  |  \----- MessageRouter -- RouterStateStore (router state file)
      |  |               | HTTP + server-sent events
      |  \-------- BridgeSupervisor ---- bridge process (Go)
   local HTTP server                       bridgeTaskManager -- agent programs
      |
   local web page
```

### 1.1 Inventory

**Worker supervisor** (`pkg/rongcloud/worker-supervisor.ts`). State: a record
per binding (desired or not, token reference, generation, child lifecycle,
watchdog and restart timers, pending and buffered requests, promises of the
spawn, restart and termination under way). Operations: `reconcile`, `stop`,
`restart`, `dispose`, `send`/`receipt`/`joinChatroom`, `snapshots`; timer
callbacks; events of the child. Interacts with worker processes over IPC and
with the credential resolver and refresher of QuukkService by callbacks. Hard:
every public method has awaits, all of them touch the same record, and child
events, timers and late credential answers arrive in between. Correct when a
binding has at most one process, with its present credential, no process is
forgotten, no silent worker is waited for without end, and every request is
settled once and in order.

**Local store** (`pkg/config/store.ts`, `atomic-json.ts`, `schema.ts`). State:
`state.json` (installation and bindings), `credentials.json` (bridge secret and
tokens), `config.json`, `.corrupt.` artifacts, and the copies in memory.
Operations: `open`, `saveConfig`, `saveBinding`, `commitRegistration`,
`removeBinding`. Hard: two files are changed one after the other, each write may
fail, the process may die between them, and a file may be unreadable at the next
start. Correct when the two files act as one durable table, when the identity of
the installation never changes, and when recovery gates hold until recovery.

**Bridge task manager** (`daemon/bridge_task.go`) and its **HTTP server**
(`daemon/bridge_http.go`). State: tasks, request identities and fences with
their expiry, a reference-counted gate per conversation, and for each task the
last events and its subscribers. Operations: `Start`, `Fence`, `Cancel`,
`Subscribe`, expiry, shutdown; one goroutine per task. Hard: handlers run
concurrently and release the lock in the middle of `Start` and `Fence`; gate
objects are dropped and re-made; shutdown races with handlers. Correct when an
identity starts one task, a fence holds, a conversation runs one task at a time,
every task ends and shutdown leaves none.

**Bridge client** (`pkg/go/client.ts`, `sse.ts`, `recovering-task.ts`). State:
the cursor of an event stream. Hard: streams are cut, replayed and overrun.
Correct when events arrive once and in order, losses are marked, and the
terminal event arrives.

**Message router** (`pkg/router/message-router.ts`, `discussion-v3-router.ts`) and
**router state store** (`session-store.ts`, `dedup.ts`). State: a lane per
conversation, active tasks, disposal and generation of each binding; on disk the
message claims, known sessions and interactive requests. Operations: claim,
start, admit and release a message, local commands, `/stop`, disposal and
activation of a binding; work and cancel of an interactive request; each change of
the file is one atomic write. Hard: redeliveries, disposal and reactivation at any
await, lost answers of the bridge, restarts of bridge and service between the
reservation of a request and the record of its task. Correct when a message is not
acted on again once its handler knows that it was, and not swallowed, a conversation
handles one message at a time, no task the router knows of is left running unnoticed
by disposal or failed admission, and a terminal record is a proof.

**Binding service** (`pkg/bindings/service.ts`). State: a promise tail per
runtime, shared enables, claims on providers; on disk, LocalStore. Operations:
enable, register, disable, reregister, unregister, connection states. Hard:
operations await remote registration and may fail half-way. Correct when a
provider has one binding and a failed operation leaves a usable one.

**Pairing service** (`pkg/pairing/service.ts`). State: a generation, the phase of
the pairing, candidates and their results, a poll or registration cycle, a watch
for retry requests, consumed requests, the expiry timer. Operations: `start`,
`cancel`, `retryFailed`; polls, registrations, retry deliveries, expiry. Hard:
answers of an earlier generation, cancellation and expiry during registration,
repeated retry deliveries. Correct when a session that is over changes nothing,
a request is acted on once and "bound" is true.

**Service composition** (`pkg/service.ts`). State: a gate that serialises
mutations, readiness, shutdown. Operations: the mutations of the local user, the
activation of a paired binding, start-up, shutdown, credential refresh. Hard:
operations in the gate that wait for something that needs the gate, start-up that
reconciles outside the gate, stop during readiness.

**Bridge process supervisor** (`pkg/process/supervisor.ts`, `identity.ts`).
State: the running bridge and its client, a queue of operations, and on disk the
identity file with the tombstones that claim it while it is being removed.
Operations: `ensureStarted`, `stop`, the removal an exited child queues; `read`,
`write` and `removeIfMatches` of the identity. Interacts with the bridge process by
its standard output, health and shutdown requests and its exit. Hard: recovery of a
bridge of an earlier service, exits and late output at any await of a start, files
that fail and a service that dies between two steps of a removal. Correct when the
disk names one bridge, a bridge in use is found by the next service, no second one
lives beside it unless it was given up, and what an exited bridge wrote goes away.

**Everything else**: worker process and vendor SDK wrapper, registration client,
local HTTP server, message protocols and card kit, command line, logging,
migration, runtime discovery, local web page, and the upstream server,
applications and packages. `PROJECT.json` lists each with the reason it is not
modelled.

The hazards that a property covers are listed line by line in `PROJECT.json`.
Those that none covers yet, to be taken up with their modules:

- `rongcloud/worker-supervisor.ts:457`: a `reconcile()` resumed after its removals
  applies the desired set it was called with, after a later one may have applied a
  newer one; the mutation gate is to exclude it, but the `reconcile()` of start-up
  (`service.ts:1269`) runs outside the gate;
- `router/dedup.ts:99`: a clock that steps back between claim and admission yields a
  state its own validation refuses; claims at their limit (`dedup.ts:76`);
- `process/supervisor.ts:365`: a spawn that yields no process makes Node emit an
  `error` event of the child, for which a listener is added only in `#readReadiness`;
- `service.ts:1333`: `stop()` while the service is marking itself ready;
- `router/message-router.ts:3618`: the output of a task is buffered, merged and
  retried while its worker is offline;
- `rongcloud/worker-supervisor.ts:454`: a removed worker that cannot be reaped makes
  `#removeRecord` throw, and `reconcile()` rejects before it takes up any other
  binding of the call, although `packages/quukk-clawmessenger/README.md:255` says
  that failures are isolated per runtime;
- `rongcloud/worker-supervisor.ts:1044`: the limit of the buffer is tested only for
  records that are not routable, and a binding stopped and re-added at once stays
  routable: it may buffer up to `maxPendingRequests`;
- `daemon/bridge_task.go:241`: an identity that expires while its `Start` is stalled in
  the lookups loses the fence another caller was told about.

## 2. Plan

| order | module | composes / uses | state |
|---|---|---|---|
| 1 | `WorkerSupervisor`, abstract `WorkerSlots` | | modelled and proved |
| 2 | `LocalStore`, abstract `BindingTable` | | modelled and proved |
| 3 | `BridgeTasks` | | modelled and proved |
| 4 | `TaskEvents` | task manager, HTTP handler and client | modelled and proved |
| 5 | `InteractiveRequests` | state store, router, an abstract bridge that restarts | modelled and proved |
| 6 | `MessageRouter` | dedup entries, lane, an abstract bridge | modelled and proved |
| 7 | `BindingService` | `BindingTable`'s entry as its store | modelled and proved, with `PairingService` |
| 8 | `PairingService` | `BindingService` and the mutation gate | modelled and proved |
| 9 | `BridgeSupervisor`, abstract `BridgeRegistry` | identity file, services that die | modelled and proved |
| 10 | `QuukkService` | `BindingTable`, `WorkerSlots` | start-up, shutdown, refresh: not written |

"Proved" means every safety invariant and action property that a run checks, with
the exceptions section 5 names. What would come next: action properties that say how
a record may change (a generation never goes back, a terminal record stays one until
it expires), as corollaries of the invariants at hand, and the last module above.

## 3. The modules and the code

`PROJECT.json` maps every definition to its lines. Definitions keep the names of
the code; a definition that begins with "Mutant:" in its comment is a deliberate
mistake that the checks of section 4 must notice, and is used nowhere else.

### 3.1 WorkerSupervisor

A step is one synchronous segment of the code: a method up to its first await,
one promise reaction, one timer callback or one child event. The helpers of the
class (`#failRecord`, `#terminate`, `#spawn`, `#removeRecord`, ...) are functions
from record to record, so a segment is their composition. Reactions to a
termination wait in the queues `waiters` and `micro` of the record, in order of
registration. Child events and timers are macrotasks and wait until no reaction is
left; public methods may be called between reactions.

`live[k]` counts worker processes of a binding whose exit has not been seen; it is
history of the operating system, not state of the class, and is what `OneWorker`
and `NoOrphan` speak about. `wire[k]` records what was written to the workers.

Left out: instance identifiers (a stale child is excluded by `#isCurrent`, which
is modelled), the length of delays and the time test of the stable timer,
forwarding of messages to the router, a child that has exited before `spawn`
returns, an `error` event that no `exit` follows, checks of the storage
directory, and construction of the environment.

`WorkerSlots` is the promise: one slot per binding, filled only when empty, only
for a wanted binding with the credential it refers to now, never after dispose.

### 3.2 LocalStore

A step ends with at most one atomic replacement of a file. `atomicWriteJson` has
three outcomes: written, failed before the rename, and, when `SyncMayFail`, renamed
but reported as failed because the directory sync failed. `Crash` may happen
between any two steps and loses `mem`. `open` is a chain of steps as in the code:
config, refusal while artifacts remain, quarantine of unreadable files, first
initialisation, settling of states of the dead process, removal of orphan tokens.

Contents are reduced to what the schemas and `validateCrossFile` tell apart: for a
token, whose it is. Random references and identities are values not used before.
Left out: contents of the config and work-directory policy, error codes, renames
retried on Windows, left-over temporary files, concurrent opens (`serializeOpen`
excludes them), and loss of a rename that was not yet synced at a power cut.

Values that stand for nothing (`NoOwner`, `NoBinding`, `Missing`: `undefined` in the
code) differ from every value of their type; `UndefinedAssumption` says so.

`BindingTable` is the promise: an atomic durable table of bindings with their
credentials.

### 3.3 BridgeTasks

A step is one critical section, one channel operation, or the part of a handler
between two. `StartCall`, `StartLookup` and `StartCommit` are the segments of
`Start`; `FenceCall`, `FenceLookup`, `FenceCancel` and `FenceDone` those of
`Fence`. Each of these entry points begins with `pruneExpired`, whose effect on
terminal tasks past their lifetime is a set `S` chosen freely. A task's goroutine
goes through enqueueing, its `select` on gate and context, one or two attempts,
the terminal event and the release of the gate. Conversation objects are separate
from their key, so that an object deleted and made again is two objects. Shutdown
is the sequence of `serveBridgeHTTPWithDeps`: cancel, seal, wait for handlers, wait
for tasks, or give up at the deadline.

Left out: validation of request fields, the limit on bytes of prompts, marking of
runtimes that need authentication, refresh of runtimes. The agent backend is
external: it may end in any way at any time.

### 3.4 TaskEvents

One task, one client: `publish` with its bounded buffer and its dropping of full
subscribers, `Subscribe` with its replay and overflow mark, the stream handler, a
connection that holds `WireSize` frames and may be cut, and the client's cursor,
sequence check and reconnection. Old subscriptions whose client has gone touch
nothing else and are left out, as are an abort by the caller and the lengths of
delays. The client's answer to a forgotten or refused task is one outcome, `lost`.

### 3.5 InteractiveRequests

`DiscussionV3Router` for the requests of one discussion, each with its durable record:
`#run`, `#cancel` and `dispose`, one step per await. An operation of the state store
takes effect in the step that calls it and its answer is used in a later one, which
is what its first-come queue amounts to; a write may fail and then changes nothing.
The bridge is an instance number and its tasks by identity: a start or a fence may
be carried out and its answer lost; a restart ends its tasks and forgets the
identities. `ServiceRestarts` cuts every run, cancel and disposal off and leaves
the records. `OneRunPerSession` and `TerminalIsProof` speak of the bridge instance
a record names: tasks of an instance that is gone are gone with it. A send of an answer
may throw although the message arrived.

A run gives two kinds of answer. `sent` notes the response of a run, stored before it
is sent and replayed from the record. `declined` notes the `discussion_node_error` for
a runtime that is not available (line 147), which the router sends without a
record. The same request delivered again may therefore be reserved, run and answered
differently; `AnswerIsStored` says of this error only that it never follows a response.
Deltas and the acknowledgements of cancels are not answers of a run and are in neither.

Left out: the contents of requests and responses, the limit on retained records,
reactivation of a binding while runs of its last life are still in flight.
Observed: the catch of `#run` (277-279) may replace a terminal record by an
unconfirmed one, which only makes the next request wait for a fence; and a
cancel's marker written between the read of line 182 and the write of line 183 is
replaced, although the comment of line 181 means to keep it. The cancel goes on to its
own fence, so that neither property is affected.

### 3.6 MessageRouter

One conversation of one binding. A handler is one delivery; its stages are the awaits
of `#runPlain`, `#runSlashClaimed` and `#runStop`, of which consecutive ones that
change nothing and are followed by the same test of the generation are merged. The
dedup entries exist in memory and in the file, and `#mutate` changes memory only
when the write succeeded. `Crash` loses memory and all handlers. The bridge lives on
and the next service adopts it (`process/supervisor.ts` 235-255), so its tasks run on
with no handler, and what was under way may have been carried out.

A call to the bridge that fails may have been run (`Unanswered`). A plain start carries
no `requestId`; `RecoveringBridgeTask` sends it a second time when the connection broke
or the runtime was unknown (`StartAgain`), and the catch of `#runPlain` gives the claim
back (`StartFails`). `acts` counts what was done for a message, `answered` has the
messages whose handler learned of it, `adrift` the tasks that run although their cancel
failed, their stream broke or the service died: the code gives those up. A task whose
start was never answered has no identity the router knows and is in `acts` only.

Left out: the output of a task (`#consume` is one step that ends), its watchdog and
buffering, the discussion protocols before v3, chat stop messages, the local
protocol, lifetimes and capacity of the dedup table. Observed: a task may start after a
disposal has begun and is then cancelled by its own handler; `joinChatroom` is not
tracked by the disposal; a `/stop` that waits for a task whose admission failed never
returns (2970, 3478-3483), which `NeverStuck` excepts; `#runLane` has no catch, so
it relies on no handler throwing. `docs/superpowers/plans/2026-08-26-quukk-clawmessenger.md:770`
asks that a claim be released when task creation fails before admission and kept after
it, "so redelivery cannot start a second task". The second half holds: once a handler
knows of its task, no redelivery starts another (`ActedOnce`). The first half does not
prevent a second task when the answer to a start is lost: the redelivery starts one, and
so may the repeated start within one delivery. Nobody cancels the first task then;
it ends by itself or by the bridge's time-out.

### 3.7 BindingService and PairingService

`BindingService` has the runtimes of one provider, a queue of jobs for each and the
provider's claim. A job is a chain of steps, one per await: the catalog, the write of
the pending binding, the requests to the server, the commit, the write that restores
what was there. The store is `BindingTable`'s entry: a write happens or fails
(`MaxFault`); crashes are `LocalStore`'s matter. A changed server URL, a runtime that
is not listed and a failing request are free choices. `Init` is any state an earlier
run left.

`PairingService` adds the gate of `QuukkService` as a queue of mutations of which the
first runs, the sessions with their cycles and candidates, the watch for retry
requests, the expiry timer and the activation, which enters the gate twice. A
mutation whose turn has come begins before anything else happens, as its promise
reaction precedes every later event.

Left out: `unregister`, which nothing in the service calls; shared enables, which
cannot occur because `enable` runs in the gate; a selection that stays empty; the
`cancel()` of the shutdown, which is outside the gate; which of the failed
candidates a retry names (all of them). Observed:

- a retry request polled while a local retry is under way is consumed and
  acknowledged without a cycle of its own;
- when `pollRetry` reports expiry or a fatal error (597-600, 655-660) during a retry
  cycle of the same generation, `#finishRegistration` (542-561) turns `expired` or
  `cancelled` back into `partial` or `completed`. `StaleIsSilent` speaks of what changes
  the generation, that is of `cancel()`, the expiry timer and another `start()`, and
  so says nothing of this case;
- an old watch that waits for a slow cycle makes `#startRetryWatch` (564) return, so
  that a new, partial session has no watch;
- a cancel after the registration succeeded leaves the binding enabled without
  activation, until the next `reconcile()`;
- a failed activation is recorded without a test of the generation (511-518), which
  is harmless because candidate identities are unique.

### 3.8 BridgeSupervisor

The queue holds the operations not yet settled; its head is under way and `pc` says at
which await. `removeIfMatches` is a procedure with its own place, `step`, because five
callers share it and everything may happen between its rename, its read, its link and
its unlinks. `Scan`, `Relink`, `Unlink` and `Get` are `read`, with the recovery of a
tombstone a dead service left. `Check` is the health request to the bridge on file,
`SpawnBridge` to `Verified` is `#startFresh`, `Reap` and `AfterReap` are its catch;
`VerifyHealth` to `WaitChild` is `stop`. `Die`, `ExitEvent` (the `exit` handler),
`LaterOutput`, `RevokeGeneration` and `ServiceRestart` come from outside the queue.

An identity is the process it names: `instance_id` and `started_at` differ for any two,
so that a process number used again does not match. A health answer is one of a live
process; an answer that was under way when the process died is the death coming
later. A killed process is dead at once. Every operation on the files may fail, before
or after it took effect where the code cannot tell (`write`, `unlink`); `ioFailed`
remembers that one did, and `lost` the bridges the code knowingly gives up: one that
did not answer (262) or stopped answering after a shutdown (200), one that could not be
killed (457), one whose start the death of the service cut off. Both are history, read
by the properties only.

Left out: the wording and limits of the readiness line (it is right or not), two
services at a time, which `process/service-identity.ts` excludes, and the call's abort
signal other than as a reason to fail.

`BridgeRegistry` is the promise: a bridge is spawned only while the disk names none,
only the bridge being started is published, and an identity that was retracted never
comes back.

## 4. What is checked

Passing runs. Each property has a mutant, a plausible slip in the mapped code
under which TLC finds it violated.

| run | instance | shows |
|---|---|---|
| `supervisor_lifecycle` | 1 binding, 2 tokens, 2 overlapping calls, 3 calls in all, 3 generations | `OneWorker`, `NoOrphan`, `CurrentCredential`, `SnapshotHonest`, and refinement of `WorkerSlots` |
| `supervisor_liveness` | 1 binding, 2 overlapping calls, 3 in all, 2 requests, buffer of 1, timers that may fail to be armed, fair event loop | `RequestsAccounted`, `AllSettle` (calls, spawns and requests), `SilentWorkerReplaced`, `DisposeReaps` |
| `store_crash_safety` | 2 runtimes, 2 providers, 3 references, 2 identities, every file may be unreadable | `Openable`, `EnabledHasCredential`, `IdentityStable`, refinement of `BindingTable` |
| `tasks_conversations` | 3 tasks of one conversation, shutdown, fair goroutines | `OneRunPerConversation`, `ConversationsReclaimed`, `WorkEnds` |
| `tasks_identity` | 2 identities, limit of 1, 2 starts and a fence at once, shutdown | `OneTaskPerRequest`, `FenceHolds`, `CleanShutdown` |
| `events_replay` | 8 events, buffer of 2, channel of 2, 3 cuts, fair client and handler | `NeverMisled`, `LossIsMarked`, `Completes` |
| `interactive_requests` | 1 request with cancel, expiry and disposal, 2 bridge instances, service restarts, fair calls | `TerminalIsProof`, `AnswerIsStored`, `InteractiveSettles` |
| `router_messages` | a message, a read and a `/stop`, 3 deliveries, queue of 1, a disposal, a crash, a failed write or a lost answer | `ActedOnce`, `NotSwallowed`, `OneHandlerPerLane`, `NoStrayTask`, `NeverStuck` |
| `pairing` | 2 runtimes of a provider, 2 sessions, 2 mutations, a failed write, a connection event, a retry request | `OneBindingPerProvider`, `RetryOnce`, `KeepsWorking`, `BoundMeansServing`, `StaleIsSilent` |
| `bridge_supervisor` | 2 bridge processes, 2 queued calls, every file operation may fail, restarts of the service at any step, fair operations | `DiskNamesOne`, `RunningIsNamed`, `SingleBridge`, `IdentityRemoved`, refinement of `BridgeRegistry` |

Runs in which TLC finds a statement of the repository violated by the code:

| run | statement | what happens |
|---|---|---|
| `supervisor_crash_restart` | a crash restarts its binding with bounded backoff | a restart whose credential lookup fails arms no timer |
| `pairing_cancel` | cancelling aborts an activation in flight | an activation queued behind the cancel holds the cycle the cancel waits for; the gate stays shut |

`CHECK_DEADLOCK FALSE` is set everywhere but in `bridge_supervisor`, where a service
may always be started again, because every one of these systems may stop: a disposed supervisor, a closed store whose files are set aside, a server
that returned, a stream that is complete, or a bound that is used up. What must
not stop is stated as liveness, or in `NeverStuck`, which says of every state in
which nothing goes on by itself that nobody waits. The steps of a delivery form
no cycle, so with every call answered it amounts to liveness.

Five statements are in no run because section 5 proves them for every instance: the
type invariants, `OneRunPerSession`, `WaitsEndInWork` (the part of `NeverStuck` that
does not speak of enabled steps: nobody waits for someone who waits), `NoCorruption`
and `ExitedIsForgotten`. TLC agreed with each before its proof was begun: added to
the cfg of their module's run they hold, `OneRunPerSession` under `Spec` with
`MaxRequest = 2`, `Expiring = {}` and `MayDispose = FALSE`, so that a request is replaced.

A failing directory sync is a constant of `LocalStore`: with `SyncMayFail = TRUE` in
`MCLocalStore.cfg`, TLC shows the refinement violated and, checked by itself,
`Openable` too: the sync of `commitRegistration`'s
state write fails after the rename, memory keeps the old tokens, the next
registration writes them over the new one, and a crash leaves a `state.json` that
`open()` refuses.

### 4.1 Bounds

- `MaxCalls`, `MaxGeneration`, `MaxRequests` (supervisor): three public calls are
  the least that let a removal, a re-add and a third call overlap; three
  generations let a spawn, its restart and the restart's successor coexist with
  reactions of the first. Records of different bindings share only `disposed` and
  the calls; one binding is enough for the per-binding properties, and the proofs
  remove the restriction. The liveness run restarts only through `restart()` (one
  generation), to keep its graph small. With a buffer of one and two requests the
  refusal at the limit and a flush whose write throws both happen.
- Three token references are an old, a new and a third one that an interrupted
  registration left behind. `MaxBindings` is 2, so the limit is reached.
- Three tasks of a conversation are a holder, a waiter and one that arrives
  when the object was just deleted. `Attempts` limits how an attempt may end:
  in `tasks_conversations` only "completed", since cancels and give-ups provide the
  orders in which tasks leave; `tasks_identity` has every outcome, the second attempt
  included. A limit of one identity makes the refusal at the limit happen at once.
- The event buffer and channel are small against eight events, so overflow, drop
  and replay each happen several times within three connections.
- Two bridge instances are the bridge before and after it forgot its identities. One
  request meets its cancel, its expiry and the disposal in every order; a second one
  meets the first only in `reserveInteractive`, which is what the proof of
  `OneRunPerSession` is about.
- Three deliveries are a message under way, its redelivery and a `/stop` or a
  queued one; with a queue of one the refusal of a full lane needs all three.
  `MaxFailure` is 1: a write fails (`MaxFault`) or an answer is lost (`MaxLost`), beside
  the crash. One lost answer is enough for a second task, by a repeated start or by a
  redelivery. The run has no mutation, whose steps are those of a `/stop` that found a
  task, without the wait; the proofs have mutations.
- Two sessions are one that is over and its successor; two mutations let one queue
  behind the other, and `pairing_cancel` has the three its violation needs.
- Two bridge processes are an old one and its successor, whose start overlaps the
  exit, the queued cleanup or the left-over tombstone of the old one; a third finds no
  new state of the disk, and with one queued call three processes were checked too. Two
  calls are one under way and one behind it; cleanups are queued without a bound.

### 4.2 Fairness

- Supervisor: promise reactions, and timers for watchdogs, termination, credential
  and request deadlines, run; that is what a live event loop guarantees. Nothing is
  assumed of workers, callers or the credential resolver. Only
  `supervisor_crash_restart` also assumes that restart timers fire and the resolver
  answers (yes or no), to rule out that as the reason for the violation.
- Task manager: goroutines and handlers run; a gate is granted strongly fairly, as
  a Go channel serves its senders first come, first served; a backend ends, at the
  latest by its time-out. No client call is assumed.
- Events: handler and client run. A task need not end; cuts are finitely many,
  since a connection that is always cut delivers nothing.
- Interactive requests: runs, cancels and disposals go on when their call is
  answered; every call to the bridge is, or fails, because the client bounds it; a
  task ends at the latest by its time-out. A restart of the service ends the calls
  it interrupts.
- Pairing: the gate, jobs, cycles, candidates and the watch go on when they can;
  every request is answered or fails; time passes and the expiry timer fires. That a
  cancel then still waits is the finding.
- Bridge supervisor: the operation under way goes on. A request has a time-out, a start
  a deadline (`#deadline`), a wait its timer, and the file system answers. Nothing is
  assumed of the bridge processes or of the service's life.

## 5. What is proved

Eight modules of proofs, one for each modelled component or two, prove the
following for every value of the constants: any number of bindings, runtimes, tasks,
requests, messages, calls, generations, crashes and failed writes. They use only the
assumptions stated where the constants are declared: that bounds are naturals
(the capacities of buffers and connections positive, `MaxBuffered <= MaxPending`),
that values standing for nothing are none of the values, and that the kinds of
messages exclude each other. That last one was found by a proof: with a message both
plain and a `/stop`, the handler of `#runPlain` would not need the lane.

| module | theorem | says |
|---|---|---|
| `WorkerSupervisorProofs` | `Invariance` | `Spec => []Inv` |
| | `TypeCorrect` | `Spec => []TypeOK` |
| | `AtMostOneWorker` | `Spec => []OneWorker` |
| | `NoOrphanEver` | `Spec => []NoOrphan` |
| | `CredentialIsCurrent` | `Spec => []CurrentCredential` |
| | `RefinesSlots` | `Spec => ImplementsSlots` |
| | `RequestsAccountedHolds` | `Spec => []RequestsAccounted` |
| | `SnapshotHonestHolds` | `Spec => []SnapshotHonest` |
| `LocalStoreProofs` | `TypeCorrect` | `Spec => []TypeOK` |
| | `IdentityStableHolds` | `Spec => []IdentityStable` |
| | `EnabledHasCredentialHolds` | `Spec => []EnabledHasCredential` |
| | `OpenableHolds` | `Spec => []Openable`, if `~SyncMayFail` |
| | `ImplementsTableHolds` | `Spec => ImplementsTable`, if `~SyncMayFail` |
| `BridgeTasksProofs` | `TypeCorrect` | `Spec => []TypeOK` |
| | `OneTaskPerRequestHolds` | `Spec => []OneTaskPerRequest` |
| | `FenceHoldsAlways` | `Spec => []FenceHolds` |
| | `CleanShutdownHolds` | `Spec => []CleanShutdown` |
| | `OneRunPerConversationHolds` | `Spec => []OneRunPerConversation` |
| | `ConversationsReclaimedHolds` | `Spec => []ConversationsReclaimed` |
| `TaskEventsProofs` | `TypeCorrect` | `Spec => []TypeOK` |
| | `NeverMisledHolds` | `Spec => []NeverMisled` |
| | `LossIsMarkedHolds` | `Spec => []LossIsMarked` |
| `InteractiveRequestsProofs` | `TypeCorrect` | `Spec => []TypeOK` |
| | `TerminalIsProofHolds` | `Spec => []TerminalIsProof` |
| | `OneRunPerSessionHolds` | `Spec => []OneRunPerSession` |
| | `AnswerIsStoredHolds` | `Spec => AnswerIsStored` |
| `MessageRouterProofs` | `TypeCorrect` | `Spec => []TypeOK` |
| | `ActedOnceHolds` | `Spec => ActedOnce` |
| | `NotSwallowedHolds` | `Spec => []NotSwallowed` |
| | `OneHandlerPerLaneHolds` | `Spec => []OneHandlerPerLane` |
| | `NoStrayTaskHolds` | `Spec => []NoStrayTask` |
| | `WaitsEndInWorkHolds` | `Spec => []WaitsEndInWork` |
| `PairingServiceProofs` | `TypeCorrect` | `Spec => []TypeOK` |
| | `OneBindingPerProviderHolds` | `Spec => []OneBindingPerProvider` |
| | `RetryOnceHolds` | `Spec => []RetryOnce` |
| | `KeepsWorkingHolds` | `Spec => KeepsWorking` |
| | `BoundMeansServingHolds` | `Spec => BoundMeansServing` |
| | `StaleIsSilentHolds` | `Spec => StaleIsSilent` |
| `BridgeSupervisorProofs` | `BridgeTypes` | `Spec => []TypeOK` |
| | `OneIdentity` | `Spec => []DiskNamesOne` |
| | `NeverCorrupt` | `Spec => []NoCorruption` |
| | `BridgeRecoverable` | `Spec => []RunningIsNamed` |
| | `OneBridge` | `Spec => []SingleBridge` |
| | `ExitCleansUp` | `Spec => []ExitedIsForgotten` |
| | `ImplementsRegistry` | `Spec => RegistrySpec` |

Few of these properties are inductive. Each proof has an inductive invariant that says
what the code relies on without stating it, a lemma per helper and per action, and
one step that combines them. Every inductive invariant was checked with TLC on the
instances of section 4 before it was proved.

### 5.1 WorkerSupervisor

`Inv` makes `OneWorker` and `NoOrphan` facts about one record:

- `live[k]` is 1 exactly when the record tracks a child that has not exited, and
  else 0;
- `Shape`: a child is listened to exactly while it is tracked and not being
  terminated; while a credential is looked up or was granted no process is tracked,
  so that the spawn that follows cannot be a second one; an attempt or a child of
  the present generation has the present token, because every change of the token
  raises the generation;
- `DeletionsSafe`: while a reaction that forgets the record is queued, no process is
  tracked, and a granted attempt is of an older generation and so will start none.

Each step is shown to be `Steady` (no worker starts or ends), `Started(k)` or
`Ended(k)`; refinement follows from these three without looking at the actions again.

`RequestsAccounted` needs that whatever waits in the buffer was numbered after all
that was written (`Numbered`), and that a routable child has been sent the buffer
while nothing is routable before its child exists (`Flushed`): without the second a
request could be written past buffered ones.

`SnapshotHonest` speaks only of the moments between two macrotasks. `SnapshotInv`
says what holds at every moment:

- `Backed`: until `dispose()`, a record that looks as if it worked has a child, an
  attempt of its present generation, a spawn or restart chained to one under way, or
  a `stop` reaction that will change its state;
- `GivenUp`: one that is not desired, or whose child is being terminated or was
  abandoned, has that `stop` reaction;
- `Sane`: reactions and attempts are never of a later generation than the record's,
  reactions wait only for a termination under way, a restart of the present generation
  finds that nothing was spawned since it was called and, once reaped, that no process
  is tracked, and a generation that failed is not being attempted;
- `Chained`: a restart attempt waits for a reaction or for a spawn attempt.

`GivenUp` excludes the case of which `snapshots()` would be wrong for good: a worker
given up by `stop()` or a removal, the record wanted again before the reaction runs.

### 5.2 LocalStore

`MemorySound`: the pair of bindings and tokens in memory, and every pair an operation
is about to make current, passes `validateCrossFile`. `IdentitySound`: a readable
pair of files holds the identity handed out, and only an `open()` that found none
draws one. These two need nothing of the directory sync. `FilesSound` says, for each
step of `open` and of the operations, how the files differ from memory (at most by
tokens no binding refers to); it, and so `Openable` and the refinement, assumes
`~SyncMayFail`. With a failing sync both are false, as section 4 shows.

### 5.3 BridgeTasks

`Bookkeeping` relates the maps to the tasks and to the calls between two critical
sections: a live task is in the map under its own id, an identity that was used is
remembered while it is valid, the id an anonymous `Start` made is its own, a `Fence`
that waits, waits for a task of its identity. `Serialized` is the counting argument:
a task that is counted refers to the object its conversation has now, `refs` of an
object is the number of those tasks, an object without any is deleted, and the task
past the gate is the one in it. Deleting an object too early would leave counted
tasks on an object the map no longer has.

### 5.4 TaskEvents

`Stream`: what the client has, followed by what is on the wire and in its channel, is
contiguous up to the last event, except where an overflow mark stands for a gap that
ends before the oldest event kept. `Window` says the server keeps a contiguous end of
the stream. The proof is about the sequences as such (`Linked`), so that each action
is one append, removal or replacement.

### 5.5 InteractiveRequests

What is known of a record (`Existed`, `Worked`, `Done`, `Answered`) is stable under
every step of every actor, by the four ways a record may change (`RecordStep`) and
the two a bridge may. The invariant lists which of these facts a run, a cancel and
the disposal hold at each await, and that of two works in a discussion one is `Done`.

For the error that no record stores `Unanswered` is added: a run that looked and found
no record is one of a request nobody has answered. A response needs a record, and a
record goes only when its request has expired, after which `handle` refuses it.

### 5.6 MessageRouter

`ClaimSound`: a message whose handler learned of its act (`answered`) has a claim in
memory and in the file, and so has one that a handler may still act on, in its own name;
without crashes or failed writes every claim is of one of these two. `ActedOnce` follows:
whoever acts holds the claim of a message that is not among the answered. `LaneSound`: whoever works holds the lane.
`TaskSound`: a running task is attended, i.e. its handler is current and active, or
about to cancel it, or a disposal is, or it is adrift because its cancel failed, its
stream broke or it outlived a crash.

`WaitsEndInWork` needs `WaitInv` on top of these: the lane's holder works, whoever is
queued is in the queue, the active handler is one of a plain message that has its task
and has not returned, every `/stop` found such a handler active, and only a `/stop` that
found one awaits. Since a plain message never awaits and needs no other lane, a wait
is at most one step long.

### 5.7 BindingService and PairingService

`Exclusive`: at most one runtime of a provider has a binding or holds the claim, and
every job past its check belongs to it; `JobSound` adds that a registration leaves
alone what makes the binding work until its commit. `UserJobs`: the gate admits one
job of the user's at a time. `SessionSound`: only a `cancel()` that waits for the server
leaves a session that is not current. The three action properties follow from these
and from what each step does; for `StaleIsSilent`, `ShownByCurrent` goes through the
steps that change the state shown and finds that none is one of an older session's cycle
or watch.

### 5.8 BridgeSupervisor

`Inv` has twelve parts. `ControlInv`, `QueueInv` and `HandlesInv` say what the head of
the queue is doing and about which process, that cleanups are queued only for children
that exited, and that an exited child is dead; `RunningInv` that no bridge is in use while
`ensureStarted` looks for one, and that only an exit takes away the bridge `stop` is
stopping. The rest is about who may be named where:

- `DiskInv`: all copies name one bridge; from the moment a start begins until it writes
  there is none, and after that only its child's. `ClaimsInv`: unless an operation on the
  files failed, a service that has read the file leaves no tombstone but the one its
  removal is handling, and puts back what is not its own. They give `DiskNamesOne` and
  `NoCorruption`.
- `GoneInv`: an identity is removed only once its process is dead or given up.
  `LiveInv`: so a live bridge is on disk, given up, or being started. With
  `DiskNamesOne` this gives `SingleBridge`, and `NamedInv`, which is `RunningIsNamed`.
- `DurableInv`: a child named on disk has its `durableIdentity`, except in the segment
  after the write, so that its exit queues a cleanup. `ForgottenInv`: and an exited one
  has it queued, which is `ExitedIsForgotten`.

The refinement needs two of them: a start begins with nothing on disk, and what a
recovery or a restore links back is what the tombstone beside it names already, so that
the registry does not change. The proof has one step per action and, under it, one
per part of `Inv` the action can disturb.

### 5.9 Only model-checked

All liveness, which is outside the reach of the prover: `AllSettle`,
`SilentWorkerReplaced`, `DisposeReaps`, `WorkEnds`, `Completes`, `InteractiveSettles`,
`IdentityRemoved`, and the two statements found violated, `CrashRestarts` and `CancelReturns`. And `NeverStuck`, which
uses `ENABLED`; `WaitsEndInWork` is what of it can be proved.

## 6. Not modelled

The modules follow the fork's own program, some 20 files of `pkg/` and two of
`daemon/`. Most of the repository is the upstream product: its server, its web,
desktop and mobile applications and their packages and translations, which the
bridge neither builds nor calls; against all of its lines the modules cover little,
and modelling it would say nothing about this program. Of the program itself,
these parts are left out:

- the output path of a task (`router/message-router.ts` 3618-3956), the discussion
  protocols before v3 and the local protocol;
- start-up, shutdown and credential refresh of the service;
- parsing, validation and formatting of messages and cards, the HTTP routes, the
  command line, logging and migration: no state outlives a call;
- the worker process: a wrapper of a vendor SDK that is not in the repository. The
  supervisor's model lets it send anything, stay silent or exit.

## 7. Running

```
tlc -workers 2 -config MCWorkerSupervisor.cfg MCWorkerSupervisor
tlapm WorkerSupervisorProofs.tla
```

`PROJECT.json` names the module and configuration of every run; each takes less than
four minutes. `tlapm` takes about ten minutes for `WorkerSupervisorProofs`, and less
for each of the other `*Proofs` modules.
