-------------------------- MODULE BridgeSupervisor --------------------------
(***************************************************************************)
(* BridgeSupervisor (process/supervisor.ts) and the identity file it       *)
(* shares with the services that ran before it (process/identity.ts).      *)
(*                                                                         *)
(* The supervisor's operations run one at a time, in the order they were   *)
(* queued (#serialized).  A step is what the operation at the head of the  *)
(* queue does between two awaits; what comes from outside it, the exit of  *)
(* a child, its late output, the death of a process or of the service      *)
(* itself, may come between any two steps.  An identity is the process it  *)
(* names: instance_id and started_at make it unique.                       *)
(***************************************************************************)
EXTENDS Naturals, Sequences

CONSTANTS
    Proc,           \* the bridge processes that may ever be spawned
    MaxQueue,       \* bound: a call is made only while fewer operations are queued
    None            \* no process

ASSUME BridgeAssumption ==
    /\ MaxQueue \in Nat
    /\ None \notin Proc

VARIABLES
    proc,       \* each process: "unborn", "alive" or "dead"
    file,       \* the process bridge.pid names, or None
    claims,     \* how many tombstones bridge.pid.claim-* name each process
    queue,      \* #queue: the operations not yet settled, the head under way
    pc,         \* where the head is; "idle" before it begins
    step,       \* where its removeIfMatches is; "none" outside one
    cur,        \* existing, child or running.identity of the head
    tomb,       \* the process named by the tombstone the head is handling
    running,    \* #running.identity, or None
    recovered,  \* #running.recovered, of the last #running
    revoked,    \* whether the generation of #running was aborted
    children,   \* processes this service spawned: it has their child handle
    exited,     \* those whose 'exit' was delivered (childExited, childHasExited)
    durable,    \* those whose durableIdentity is set
    violated,   \* those whose protocolViolation is set
    lost,       \* history: live bridges the code knowingly gives up
    ioFailed    \* history: whether an operation on the identity file failed

processes == <<proc, lost>>
disk == <<file, claims, ioFailed>>
control == <<queue, pc, step, cur, tomb>>
managed == <<running, recovered, revoked>>
handles == <<children, exited, durable, violated>>
vars == <<processes, disk, control, managed, handles>>

-----------------------------------------------------------------------------
(* The processes named on disk, by the file or by a tombstone.             *)
Named == {p \in Proc : file = p \/ claims[p] > 0}

NoClaims == \A p \in Proc : claims[p] = 0

(* #claims: more than one tombstone, which it reports as corrupt.          *)
ManyClaims ==
    \/ \E p \in Proc : claims[p] > 1
    \/ \E p, q \in Proc : p # q /\ claims[p] > 0 /\ claims[q] > 0

Operation ==
    [kind : {"ensure", "stop"}, id : {None}] \cup [kind : {"cleanup"}, id : Proc]

Ensure == [kind |-> "ensure", id |-> None]
Stop == [kind |-> "stop", id |-> None]
Cleanup(p) == [kind |-> "cleanup", id |-> p]

Pending(p) == \E i \in 1..Len(queue) : queue[i] = Cleanup(p)

(* The calls of removeIfMatches: of the identity of a bridge that does not *)
(* answer (262), of a start that lost its child meanwhile (440), of a      *)
(* failed start (464), of a stopped bridge (339), of an exited child (382).*)
Removing == {"drop", "recheck", "undo", "forget", "cleanup"}

(* startFresh before the identity is on disk, and until its child is       *)
(* verified or reaped.                                                     *)
Unpublished == {"ready", "poll", "write"}
Starting == Unpublished \cup {"written", "recheck", "reap"}

Labels ==
    {"idle", "scan", "relink", "unlink", "get", "check", "fresh", "verify", "shutdown", "wait"}
    \cup Starting \cup Removing

TypeOK ==
    /\ proc \in [Proc -> {"unborn", "alive", "dead"}]
    /\ file \in Proc \cup {None}
    /\ claims \in [Proc -> Nat]
    /\ queue \in Seq(Operation)
    /\ pc \in Labels
    /\ step \in {"none", "rename", "compare", "restore", "discard"}
    /\ cur \in Proc \cup {None}
    /\ tomb \in Proc \cup {None}
    /\ running \in Proc \cup {None}
    /\ recovered \in BOOLEAN /\ revoked \in BOOLEAN /\ ioFailed \in BOOLEAN
    /\ children \subseteq Proc /\ exited \subseteq Proc
    /\ durable \subseteq Proc /\ violated \subseteq Proc /\ lost \subseteq Proc

Init ==
    /\ proc = [p \in Proc |-> "unborn"]
    /\ file = None
    /\ claims = [p \in Proc |-> 0]
    /\ queue = <<>>
    /\ pc = "idle" /\ step = "none" /\ cur = None /\ tomb = None
    /\ running = None /\ recovered = FALSE /\ revoked = FALSE
    /\ children = {} /\ exited = {} /\ durable = {} /\ violated = {}
    /\ lost = {} /\ ioFailed = FALSE

-----------------------------------------------------------------------------
(* The control of the operation at the head of the queue.                  *)

GoTo(label) ==
    /\ pc' = label
    /\ UNCHANGED <<queue, step, cur, tomb>>

(* The promise of the head settles, and the next operation may begin.      *)
Settle ==
    /\ queue' = Tail(queue)
    /\ pc' = "idle"
    /\ step' = "none"
    /\ cur' = None
    /\ tomb' = None

CallRemove(label, p) ==
    /\ pc' = label
    /\ step' = "rename"
    /\ cur' = p
    /\ UNCHANGED <<queue, tomb>>

(* Mutant: the fresh start does not wait for the identity to be removed.   *)
ReturnUnremoved(removed) ==
    \/ /\ pc \in {"drop", "recheck"}
       /\ pc' = (IF pc = "drop" THEN "fresh" ELSE "reap")
       /\ step' = "none" /\ tomb' = None
       /\ UNCHANGED <<queue, cur>>
    \/ pc \notin {"drop", "recheck"} /\ Settle

(* What follows removeIfMatches: a fresh start if the identity of a silent *)
(* bridge was removed, the reaping of the child, or nothing.               *)
Return(removed) ==
    \/ /\ pc = "drop" /\ removed
       /\ pc' = "fresh" /\ cur' = None /\ step' = "none" /\ tomb' = None
       /\ UNCHANGED queue
    \/ /\ pc = "recheck"
       /\ pc' = "reap" /\ step' = "none" /\ tomb' = None
       /\ UNCHANGED <<queue, cur>>
    \/ /\ pc # "recheck"
       /\ pc = "drop" => ~removed
       /\ Settle

-----------------------------------------------------------------------------
(* ensureStarted and stop are called; their operations are queued.         *)

CallEnsureStarted ==
    /\ Len(queue) < MaxQueue
    /\ queue' = Append(queue, Ensure)
    /\ UNCHANGED <<processes, disk, pc, step, cur, tomb, managed, handles>>

CallStop ==
    /\ Len(queue) < MaxQueue
    /\ queue' = Append(queue, Stop)
    /\ UNCHANGED <<processes, disk, pc, step, cur, tomb, managed, handles>>

Begins(kind) ==
    /\ pc = "idle"
    /\ queue # <<>>
    /\ Head(queue).kind = kind

BeginEnsure ==
    /\ Begins("ensure")
    /\ IF running # None THEN Settle ELSE GoTo("scan")
    /\ UNCHANGED <<processes, disk, managed, handles>>

BeginStop ==
    /\ Begins("stop")
    /\ \/ running = None /\ Settle
       \/ /\ running # None
          /\ pc' = "verify" /\ cur' = running
          /\ UNCHANGED <<queue, step, tomb>>
    /\ UNCHANGED <<processes, disk, managed, handles>>

BeginCleanup ==
    /\ Begins("cleanup")
    /\ CallRemove("cleanup", Head(queue).id)
    /\ UNCHANGED <<processes, disk, managed, handles>>

-----------------------------------------------------------------------------
(* identityStore.read: a tombstone left by a dead service is put back.     *)

Scan ==
    /\ pc = "scan"
    /\ \/ Settle                                    \* unreadable, or corrupt
       \/ NoClaims /\ GoTo("get")
       \/ /\ ~ManyClaims
          /\ \E p \in Proc : claims[p] > 0 /\ tomb' = p
          /\ pc' = "relink"
          /\ UNCHANGED <<queue, step, cur>>
    /\ UNCHANGED <<processes, disk, managed, handles>>

(* link, which leaves a file that is there alone (EEXIST).                 *)
Relink ==
    /\ pc = "relink"
    /\ \/ /\ file' = IF file = None THEN tomb ELSE file
          /\ GoTo("unlink")
          /\ UNCHANGED ioFailed
       \/ Settle /\ ioFailed' = TRUE /\ UNCHANGED file
    /\ UNCHANGED <<claims, processes, managed, handles>>

Unlink ==
    /\ pc = "unlink"
    /\ \/ /\ claims' = [claims EXCEPT ![tomb] = @ - 1]
          /\ pc' = "get" /\ tomb' = None
          /\ UNCHANGED <<queue, step, cur, ioFailed>>
       \/ Settle /\ ioFailed' = TRUE /\ UNCHANGED claims
    /\ UNCHANGED <<file, processes, managed, handles>>

Get ==
    /\ pc = "get"
    /\ \/ Settle                                    \* unreadable, or a claim again
       \/ NoClaims /\ file = None /\ GoTo("fresh")
       \/ /\ NoClaims /\ file # None
          /\ pc' = "check" /\ cur' = file
          /\ UNCHANGED <<queue, step, tomb>>
    /\ UNCHANGED <<processes, disk, managed, handles>>

(* Mutant: a silent bridge is replaced before its identity is removed.     *)
CheckNotRemoved ==
    /\ pc = "check"
    /\ \/ /\ proc[cur] = "alive"
          /\ running' = cur /\ recovered' = TRUE /\ revoked' = FALSE
          /\ Settle
       \/ GoTo("fresh") /\ UNCHANGED managed
    /\ UNCHANGED <<processes, disk, handles>>

(* The bridge on file: it answers with this identity and is taken over, it *)
(* is refused (another identity or version, or an error that is final), or *)
(* it is silent, which a timeout of a live bridge is too, and is given up. *)
Check ==
    /\ pc = "check"
    /\ \/ /\ proc[cur] = "alive"
          /\ running' = cur /\ recovered' = TRUE /\ revoked' = FALSE
          /\ lost' = lost \ {cur}
          /\ Settle
       \/ Settle /\ UNCHANGED <<managed, lost>>
       \/ /\ CallRemove("drop", cur)
          /\ lost' = IF proc[cur] = "alive" THEN lost \cup {cur} ELSE lost
          /\ UNCHANGED managed
    /\ UNCHANGED <<proc, disk, handles>>

-----------------------------------------------------------------------------
(* startFresh.                                                             *)

(* Refused by the store, too large, no binary or no process; or spawned.   *)
SpawnBridge ==
    /\ pc = "fresh"
    /\ \/ Settle /\ UNCHANGED <<proc, children>>
       \/ \E p \in Proc :
            /\ proc[p] = "unborn"
            /\ proc' = [proc EXCEPT ![p] = "alive"]
            /\ children' = children \cup {p}
            /\ pc' = "ready" /\ cur' = p
            /\ UNCHANGED <<queue, step, tomb>>
    /\ UNCHANGED <<lost, disk, managed, exited, durable, violated>>

(* readReadiness: the line of this child and version, which its exit       *)
(* forestalls; or anything else, or the deadline.                          *)
Readiness ==
    /\ pc = "ready"
    /\ \/ cur \notin exited /\ GoTo("poll")
       \/ GoTo("reap")
    /\ UNCHANGED <<processes, disk, managed, handles>>

(* Neither protocolViolation nor childExited.                              *)
StillVerified == cur \notin violated \cup exited

(* The health polls: the child answers with its identity, perhaps before   *)
(* an exit that is already delivered; or a final error, or the deadline.   *)
HealthPoll ==
    /\ pc = "poll"
    /\ \/ /\ proc[cur] = "alive" \/ cur \in exited
          /\ StillVerified
          /\ GoTo("write")
       \/ GoTo("reap")
    /\ UNCHANGED <<processes, disk, managed, handles>>

(* identityStore.write fails before or after the file is in place, or not. *)
WriteIdentity ==
    /\ pc = "write"
    /\ \/ file' = cur /\ GoTo("written") /\ UNCHANGED ioFailed
       \/ GoTo("reap") /\ file' \in {file, cur} /\ ioFailed' = TRUE
    /\ UNCHANGED <<claims, processes, managed, handles>>

(* The write is over: the child may have exited, or spoken, meanwhile.     *)
Verified ==
    /\ pc = "written"
    /\ durable' = durable \cup {cur}
    /\ \/ /\ StillVerified
          /\ running' = cur /\ recovered' = FALSE /\ revoked' = FALSE
          /\ Settle
       \/ ~StillVerified /\ CallRemove("recheck", cur) /\ UNCHANGED managed
    /\ UNCHANGED <<processes, disk, children, exited, violated>>

AfterReap ==
    \/ cur \in durable /\ CallRemove("undo", cur)
    \/ cur \notin durable /\ Settle

(* Mutant: the failed start is reported before the child is gone.          *)
ReapNothing ==
    /\ pc = "reap"
    /\ AfterReap
    /\ UNCHANGED <<processes, disk, managed, handles>>

(* reapFailedStart: the child exits by itself or when it is told to, is    *)
(* killed, or cannot be killed.                                            *)
Reap ==
    /\ pc = "reap"
    /\ AfterReap
    /\ \/ cur \in exited /\ UNCHANGED processes
       \/ cur \notin exited /\ proc' = [proc EXCEPT ![cur] = "dead"] /\ UNCHANGED lost
       \/ /\ cur \notin exited
          /\ lost' = IF proc[cur] = "alive" THEN lost \cup {cur} ELSE lost
          /\ UNCHANGED proc
    /\ UNCHANGED <<disk, managed, handles>>

-----------------------------------------------------------------------------
(* stop.  A reply of the bridge needs a client that is not revoked.        *)

Reachable == running = cur /\ ~revoked /\ proc[cur] = "alive"

VerifyHealth ==
    /\ pc = "verify"
    /\ \/ Reachable /\ GoTo("shutdown")
       \/ Settle
    /\ UNCHANGED <<processes, disk, managed, handles>>

RequestShutdown ==
    /\ pc = "shutdown"
    /\ \/ Reachable /\ GoTo("wait")
       \/ Settle
    /\ UNCHANGED <<processes, disk, managed, handles>>

Forget ==
    /\ CallRemove("forget", cur)
    /\ running' = IF running = cur THEN None ELSE running
    /\ UNCHANGED <<recovered, revoked>>

(* waitForRecoveredExit: a bridge that stops answering counts as gone.     *)
WaitRecovered ==
    /\ pc = "wait" /\ recovered
    /\ \/ Settle /\ UNCHANGED <<lost, managed>>     \* still answers, or the call is aborted
       \/ /\ Forget
          /\ lost' = IF proc[cur] = "alive" THEN lost \cup {cur} ELSE lost
    /\ UNCHANGED <<proc, disk, handles>>

(* waitForCurrentExit, and SIGKILL for a child that still answers.         *)
WaitChild ==
    /\ pc = "wait" /\ ~recovered
    /\ \/ cur \in exited /\ Forget /\ UNCHANGED proc
       \/ Settle /\ UNCHANGED <<proc, managed>>      \* a timeout, and no answer or no kill
       \/ Reachable /\ Forget /\ proc' = [proc EXCEPT ![cur] = "dead"]
    /\ UNCHANGED <<lost, disk, handles>>

-----------------------------------------------------------------------------
(* removeIfMatches: the file is claimed by renaming it, and read then.     *)

RemoveRename ==
    /\ pc \in Removing /\ step = "rename"
    /\ \/ file = None /\ Return(FALSE) /\ UNCHANGED disk
       \/ Return(FALSE) /\ ioFailed' = TRUE /\ UNCHANGED <<file, claims>>
       \/ /\ file # None
          /\ file' = None
          /\ claims' = [claims EXCEPT ![file] = @ + 1]
          /\ tomb' = file /\ step' = "compare"
          /\ UNCHANGED <<queue, pc, cur, ioFailed>>
    /\ UNCHANGED <<processes, managed, handles>>

(* Mutant: whatever was claimed is removed.                                *)
MatchesAny == TRUE

(* equalIdentity, on the claimed file.                                     *)
Matches == tomb = cur

RemoveCompare ==
    /\ pc \in Removing /\ step = "compare"
    /\ \/ /\ Matches
          /\ claims' = [claims EXCEPT ![tomb] = @ - 1]
          /\ Return(TRUE)
          /\ UNCHANGED ioFailed
       \/ Matches /\ Return(FALSE) /\ ioFailed' = TRUE /\ UNCHANGED claims
       \/ /\ step' = "restore"                      \* another identity, or unreadable
          /\ ioFailed' = (ioFailed \/ Matches)
          /\ UNCHANGED <<claims, queue, pc, cur, tomb>>
    /\ UNCHANGED <<file, processes, managed, handles>>

RemoveRestore ==
    /\ pc \in Removing /\ step = "restore"
    /\ \/ /\ file' = IF file = None THEN tomb ELSE file
          /\ step' = "discard"
          /\ UNCHANGED <<queue, pc, cur, tomb, ioFailed>>
       \/ Return(FALSE) /\ ioFailed' = TRUE /\ UNCHANGED file
    /\ UNCHANGED <<claims, processes, managed, handles>>

RemoveDiscard ==
    /\ pc \in Removing /\ step = "discard"
    /\ \/ claims' = [claims EXCEPT ![tomb] = @ - 1] /\ UNCHANGED ioFailed
       \/ ioFailed' = TRUE /\ UNCHANGED claims
    /\ Return(FALSE)
    /\ UNCHANGED <<file, processes, managed, handles>>

-----------------------------------------------------------------------------
(* What comes from outside the queue.                                      *)

(* A bridge process ends, by itself or because it was asked to.            *)
Die(p) ==
    /\ proc[p] = "alive"
    /\ proc' = [proc EXCEPT ![p] = "dead"]
    /\ UNCHANGED <<lost, disk, control, managed, handles>>

(* Mutant: the exit gives nothing back.                                    *)
QueueNothing(p) == queue

(* The identity an exit gives back: none, before durableIdentity is set.   *)
QueueCleanup(p) == IF p \in durable THEN Append(queue, Cleanup(p)) ELSE queue

(* The 'exit' handler of a child.                                          *)
ExitEvent(p) ==
    /\ p \in children \ exited
    /\ proc[p] = "dead"
    /\ exited' = exited \cup {p}
    /\ running' = IF running = p /\ ~recovered THEN None ELSE running
    /\ queue' = QueueCleanup(p)
    /\ UNCHANGED <<processes, disk, pc, step, cur, tomb, recovered, revoked,
                   children, durable, violated>>

(* Output after the readiness line, while protocolViolation is still read. *)
LaterOutput(p) ==
    /\ p \in children
    /\ \/ pc \in {"poll", "write", "written"} /\ cur = p
       \/ running = p /\ ~recovered
    /\ violated' = violated \cup {p}
    /\ UNCHANGED <<processes, disk, control, managed, children, exited, durable>>

(* ... the bridge was verified: it is shut down, and then revoked.         *)
RevokeGeneration ==
    /\ running \in violated /\ ~recovered
    /\ revoked' = TRUE
    /\ UNCHANGED <<processes, disk, control, running, recovered, handles>>

(* The service dies and is started again; the bridge processes live on.    *)
(* One that is being started is found by nobody, unless it is on disk.     *)
ServiceRestart ==
    /\ queue' = <<>> /\ pc' = "idle" /\ step' = "none" /\ cur' = None /\ tomb' = None
    /\ running' = None /\ recovered' = FALSE /\ revoked' = FALSE
    /\ children' = {} /\ exited' = {} /\ durable' = {} /\ violated' = {}
    /\ lost' = lost \cup {p \in Proc \ Named : pc \in Starting /\ p = cur}
    /\ UNCHANGED <<proc, disk>>

-----------------------------------------------------------------------------
(* A step of the operation at the head of the queue.                       *)
OperationStep ==
    \/ BeginEnsure \/ BeginStop \/ BeginCleanup
    \/ Scan \/ Relink \/ Unlink \/ Get \/ Check
    \/ SpawnBridge \/ Readiness \/ HealthPoll \/ WriteIdentity \/ Verified \/ Reap
    \/ VerifyHealth \/ RequestShutdown \/ WaitRecovered \/ WaitChild
    \/ RemoveRename \/ RemoveCompare \/ RemoveRestore \/ RemoveDiscard

Next ==
    \/ CallEnsureStarted \/ CallStop
    \/ OperationStep
    \/ \E p \in Proc : Die(p) \/ ExitEvent(p) \/ LaterOutput(p)
    \/ RevokeGeneration
    \/ ServiceRestart

Spec == Init /\ [][Next]_vars

(* Every await of an operation ends: a request has a timeout, a start has  *)
(* a deadline, a wait has a timer, and the file system answers.            *)
FairSpec == Spec /\ WF_vars(OperationStep)

-----------------------------------------------------------------------------
(* process/supervisor.ts:268 and process/identity.ts:162: whatever fails,  *)
(* all that is on disk names one bridge, so that no reader, and no         *)
(* tombstone put back, ever brings up another one.                         *)
DiskNamesOne == \A p, q \in Named : p = q

(* process/identity.ts:222: two tombstones are corrupt, and no service     *)
(* ever starts a bridge again; crashes alone never leave them.             *)
NoCorruption == ~ioFailed => ~ManyClaims

(* process/supervisor.ts:372: a bridge in use that lives is named on disk, *)
(* whatever cleanup of an older child is still queued, so that the next    *)
(* service finds it.                                                       *)
RunningIsNamed ==
    running # None /\ proc[running] = "alive" => running \in Named

(* process/supervisor.ts:262 and 452: two bridges never live at a time,    *)
(* but for one that was given up: silent when the service came back or     *)
(* stopped it, not killable, or being started when the service died.       *)
SingleBridge ==
    \A p, q \in Proc \ lost : proc[p] = "alive" /\ proc[q] = "alive" => p = q

(* process/supervisor.ts:439: the identity of a child that exited stays on *)
(* disk only while the start that wrote it, or a queued cleanup, is about  *)
(* to remove it.                                                           *)
ExitedIsForgotten ==
    \A p \in exited \cap Named :
        \/ ioFailed
        \/ pc \in {"written", "recheck"} /\ cur = p
        \/ Pending(p)

(* The registry the supervisor implements.                                 *)
Registry == INSTANCE BridgeRegistry WITH
    spawned <- {p \in Proc : proc[p] # "unborn"},
    candidate <- {p \in Proc : pc \in Unpublished /\ p = cur},
    published <- Named

(* process/supervisor.ts:268, 435 and process/identity.ts:155: the disk    *)
(* goes from one bridge to none and only then to a new one.                *)
RegistrySpec == Registry!Spec

(* process/supervisor.ts:381: the identity of a child that exited is gone  *)
(* in the end.                                                             *)
IdentityRemoved ==
    \A p \in Proc : (p \in exited \cap Named) ~> (ioFailed \/ p \notin exited \cap Named)

=============================================================================
