--------------------------- MODULE WorkerSupervisor ---------------------------
(***************************************************************************)
(* RongCloudWorkerSupervisor (rongcloud/worker-supervisor.ts): one worker  *)
(* process per enabled binding, started, watched, restarted and reaped by  *)
(* a single-threaded JavaScript object.                                    *)
(*                                                                         *)
(* A step is one synchronous segment of the code: the part of a method     *)
(* up to its first await, one promise reaction, one timer callback or one  *)
(* event of a child.  The helpers the segments call are functions on the   *)
(* record of a binding (WorkerRecord in the code), so that a segment that  *)
(* calls several of them is their composition.  The reactions to a         *)
(* termination wait in the record's queues waiters and micro, in the order *)
(* of their registration; the other reactions of a record run in any order *)
(* relative to them.  Child events and timers are macrotasks and wait      *)
(* until no reaction is left (Idle), whereas the public methods may be     *)
(* called, and the credential callbacks may answer, among the reactions.   *)
(***************************************************************************)
EXTENDS Integers, Sequences, FiniteSets

CONSTANTS
    Keys,           \* binding identities (workerBindingKey)
    Tokens,         \* the tokenRef and storageDir of a binding
    Calls,          \* reconcile() calls that may be under way together
    NoToken,        \* no credential
    NoCall,         \* no call
    MaxPending,     \* maxPendingRequests
    MaxBuffered,    \* maxBufferedCommands
    TimersMayFail,  \* whether the injected setTimeout may throw
    MaxCalls,       \* bound: calls of reconcile, stop, restart
    MaxGeneration,  \* bound: restart timers fire only below this generation
    MaxRequests     \* bound: requests ever made

ASSUME ConstantsAssumption ==
    /\ NoToken \notin Tokens
    /\ NoCall \notin Calls
    /\ MaxPending \in Nat \ {0}
    /\ MaxBuffered \in 1..MaxPending
    /\ TimersMayFail \in BOOLEAN
    /\ MaxCalls \in Nat /\ MaxGeneration \in Nat /\ MaxRequests \in Nat

VARIABLES
    rec,        \* #records: the record of each key, present or not
    disposed,   \* #disposed
    calls,      \* the reconcile() calls that wait for their removals
    live,       \* worker processes of each key whose exit was not yet seen
    wire,       \* requests written to the workers of each key, in order
    made,       \* calls of the public methods made so far
    sequence    \* #requestSequence

vars == <<rec, disposed, calls, live, wire, made, sequence>>

-----------------------------------------------------------------------------
(* Records, reactions and calls.                                           *)

States == {"starting", "online", "offline", "backoff", "stopped"}

(* The lifecycle of the tracked child: none, tracked but not being         *)
(* terminated, the three waits of #terminateLifecycle, and abandoned (not  *)
(* reaped; this is also record.reapBlocked).                               *)
Terminating == {"shutdown", "sigterm", "sigkill"}
Lifecycles == {"none", "tracked", "abandoned"} \cup Terminating

(* Reactions to a termination promise: what the method of that name does   *)
(* after its await (readd: the reaction reconcile() registers).  Once the  *)
(* record is gone a removal only notifies its call, the others are void.   *)
Kinds == {"stop", "remove", "dispose", "fail", "restart", "readd", "notify", "void"}

Reactions == [kind : Kinds, gen : Nat, call : Calls \cup {NoCall}, ok : BOOLEAN]

Reaction(kind) == [kind |-> kind, gen |-> 0, call |-> NoCall, ok |-> TRUE]

(* The spawn attempt of a record: awaiting its credential, the credential  *)
(* granted or refused, and settled.                                        *)
Attempts == {"none", "lookup", "granted", "refused", "over"}

(* The restart attempt: awaiting the termination, the spawn attempt or the *)
(* spawn chained to it, and settled.                                       *)
Restarts == {"none", "terminate", "spawn", "chain", "over"}

Requests == 1..MaxRequests

Records ==
    [present : BOOLEAN, desired : BOOLEAN, token : Tokens \cup {NoToken},
     gen : Nat, failedGen : Nat, state : States,
     child : BOOLEAN,                      \* record.child, listeners attached
     lc : Lifecycles, exited : BOOLEAN, connected : BOOLEAN,
     childGen : Nat, childToken : Tokens \cup {NoToken},
     readySeen : BOOLEAN, routable : BOOLEAN,
     restartCount : Nat,
     restartTimer : BOOLEAN, armed : Nat,  \* its handle; restart timers running
     readyTimer : BOOLEAN, onlineTimer : BOOLEAN, stableTimer : BOOLEAN,
     refresh : {"none", "open", "answered"},
     pending : SUBSET Requests, buffer : Seq(Requests),
     lookup : {"none", "open", "blocked"}, \* credentialLookup
     credential : Tokens \cup {NoToken},   \* what the last lookup is for
     attempt : Attempts, spawnGen : Nat,   \* spawnAttempt, spawnGeneration
     respawn : BOOLEAN,                    \* a spawn is chained to the attempt
     restart : Restarts, requeue : BOOLEAN,\* restartAttempt; one is chained to it
     removeWhenReaped : BOOLEAN,
     waiters : Seq(Reactions), micro : Seq(Reactions)]

(* A record as reconcile() makes it; token is NoToken when there is none.  *)
NewRecord(token) ==
    [present |-> token # NoToken, desired |-> token # NoToken, token |-> token,
     gen |-> 0, failedGen |-> 0, state |-> "starting",
     child |-> FALSE, lc |-> "none", exited |-> FALSE, connected |-> FALSE,
     childGen |-> 0, childToken |-> NoToken,
     readySeen |-> FALSE, routable |-> FALSE,
     restartCount |-> 0, restartTimer |-> FALSE, armed |-> 0,
     readyTimer |-> FALSE, onlineTimer |-> FALSE, stableTimer |-> FALSE,
     refresh |-> "none", pending |-> {}, buffer |-> <<>>,
     lookup |-> "none", credential |-> NoToken,
     attempt |-> "none", spawnGen |-> 0, respawn |-> FALSE,
     restart |-> "none", requeue |-> FALSE, removeWhenReaped |-> FALSE,
     waiters |-> <<>>, micro |-> <<>>]

IdleCall ==
    [active |-> FALSE, failed |-> FALSE, want |-> [k \in {} |-> NoToken], waiting |-> {}]

Wanted == UNION {[D -> Tokens] : D \in SUBSET Keys}

TypeOK ==
    /\ rec \in [Keys -> Records]
    /\ disposed \in BOOLEAN
    /\ calls \in [Calls -> [active : BOOLEAN, failed : BOOLEAN,
                            want : Wanted, waiting : SUBSET Keys]]
    /\ live \in [Keys -> Nat]
    /\ wire \in [Keys -> Seq(Requests)]
    /\ made \in Nat
    /\ sequence \in 0..MaxRequests

Init ==
    /\ rec = [k \in Keys |-> NewRecord(NoToken)]
    /\ disposed = FALSE
    /\ calls = [c \in Calls |-> IdleCall]
    /\ live = [k \in Keys |-> 0]
    /\ wire = [k \in Keys |-> <<>>]
    /\ made = 0
    /\ sequence = 0

-----------------------------------------------------------------------------
(* Helpers: functions on a record.                                         *)

Then(r, reaction) == [r EXCEPT !.micro = Append(@, reaction)]

OwnsGeneration(r, g) ==
    ~disposed /\ r.desired /\ r.present /\ r.gen = g /\ r.failedGen # g

IsCurrent(r) == OwnsGeneration(r, r.childGen) /\ r.child

CancelStartupTimers(r) == [r EXCEPT !.readyTimer = FALSE, !.onlineTimer = FALSE]

(* Clears the restart timer whose handle the record holds, no other.       *)
CancelLifecycleTimers(r) ==
    [CancelStartupTimers(r) EXCEPT !.stableTimer = FALSE, !.restartTimer = FALSE,
                                   !.armed = IF r.restartTimer THEN r.armed - 1 ELSE r.armed]

RejectPending(r) == [r EXCEPT !.pending = {}, !.buffer = <<>>]

(* The assignments to state, readySeen and routable that come together.    *)
Quiet(r, state) == [r EXCEPT !.state = state, !.readySeen = FALSE, !.routable = FALSE]

(* Mutant: a deleted record takes its reactions with it.                   *)
DeleteForgetsCalls(r) == [NewRecord(NoToken) EXCEPT !.micro = SubSeq(r.micro, 1, 0)]

(* Removes a record from #records.  Its reactions find another record, or  *)
(* none, under the key and change nothing; a removal still ends its call.  *)
Delete(r) ==
    [NewRecord(NoToken) EXCEPT !.micro =
        [i \in 1..Len(r.micro) |-> [r.micro[i] EXCEPT !.kind =
            IF @ \in {"remove", "notify"} THEN "notify" ELSE "void"]]]

DeleteDormantRecord(r) ==
    IF /\ r.removeWhenReaped /\ ~r.desired /\ ~r.child /\ r.lc = "none"
       /\ r.attempt = "none" /\ r.lookup = "none" /\ r.present
    THEN Delete(r) ELSE r

ReleaseLifecycle(r) ==
    [r EXCEPT !.lc = "none", !.exited = FALSE, !.connected = FALSE,
              !.childGen = 0, !.childToken = NoToken]

(* The termination promise resolves: its reactions become runnable.        *)
Resolve(r, reaped) ==
    [r EXCEPT !.waiters = <<>>,
              !.micro = @ \o [i \in 1..Len(r.waiters) |-> [r.waiters[i] EXCEPT !.ok = reaped]]]

(* #terminate(record) awaited by reaction w.  A shutdown message that      *)
(* cannot be sent is a shutdown wait that ends at once.                    *)
Terminate(r, w) ==
    CASE r.lc = "none"         -> Then(r, w)
      [] r.lc = "abandoned"    -> Then(r, [w EXCEPT !.ok = FALSE])
      [] r.lc \in Terminating  -> [r EXCEPT !.waiters = Append(@, w)]
      [] r.lc = "tracked" /\ r.exited ->
             Then(ReleaseLifecycle([r EXCEPT !.child = FALSE]), w)
      [] OTHER -> [r EXCEPT !.child = FALSE, !.waiters = Append(@, w),
                            !.lc = IF r.connected THEN "shutdown" ELSE "sigterm"]

(* #failRecord(record, g): give the worker up, restart it once reaped.     *)
FailRecord(r, g) ==
    IF OwnsGeneration(r, g)
    THEN Terminate(RejectPending(Quiet(
            [CancelStartupTimers(r) EXCEPT !.failedGen = g, !.stableTimer = FALSE,
                                           !.restartCount = @ + 1],
            "backoff")),
          [Reaction("fail") EXCEPT !.gen = g])
    ELSE r

(* #boundedCredential: one lookup at a time; one that is past its deadline *)
(* blocks the next spawns until the resolver settles it.                   *)
BoundedCredential(r) ==
    CASE r.lookup = "none" -> [r EXCEPT !.attempt = "lookup", !.lookup = "open",
                                        !.credential = r.token]
      [] r.lookup = "open" -> [r EXCEPT !.attempt = "lookup"]
      [] OTHER -> [r EXCEPT !.attempt = "refused"]

(* #spawn and #performSpawn up to the credential.                          *)
MaySpawn(r) == ~disposed /\ r.desired /\ r.present /\ ~r.child /\ r.lc = "none"

Spawn(r) ==
    IF ~MaySpawn(r) THEN r
    ELSE IF r.attempt # "none"
    THEN [r EXCEPT !.respawn = @ \/ r.spawnGen # r.gen]
    ELSE BoundedCredential(
            [Quiet(r, "starting") EXCEPT !.gen = @ + 1, !.spawnGen = r.gen + 1,
                                         !.failedGen = 0, !.refresh = "none"])

(* #restartRecord and #performRestart up to the termination.               *)
PerformRestart(r) ==
    Terminate(RejectPending(Quiet(CancelLifecycleTimers(
                 [r EXCEPT !.gen = @ + 1, !.restart = "terminate"]), "backoff")),
              [Reaction("restart") EXCEPT !.gen = r.gen + 1])

RestartRecord(r, queueAfterCurrent) ==
    IF r.restart # "none" THEN [r EXCEPT !.requeue = @ \/ queueAfterCurrent]
    ELSE PerformRestart(r)

(* A restart ends with the spawn it awaits: at once when there is none to  *)
(* await, with the attempt under way, or with the one chained to it.       *)
AwaitSpawn(r) ==
    IF ~MaySpawn(r) THEN [r EXCEPT !.restart = "over"]
    ELSE [Spawn(r) EXCEPT !.restart =
             IF r.attempt # "none" /\ r.spawnGen # r.gen THEN "chain" ELSE "spawn"]

Scheduled == IF TimersMayFail THEN BOOLEAN ELSE {TRUE}

-----------------------------------------------------------------------------
(* Public methods.                                                         *)

MayCall == made < MaxCalls

(* removeRecord(record) up to its await, for reconcile() call c.           *)
RemoveRecord(r, c) ==
    Terminate(Quiet(RejectPending(CancelLifecycleTimers(
                 [r EXCEPT !.desired = FALSE, !.gen = @ + 1, !.removeWhenReaped = TRUE])),
                 "stopped"),
              [Reaction("remove") EXCEPT !.call = c])

(* reconcile(bindings): removes what is no longer wanted ...               *)
Reconcile(c, want) ==
    LET removed == {k \in Keys \ DOMAIN want : rec[k].present}
    IN  /\ MayCall /\ ~disposed
        /\ ~calls[c].active
        /\ calls' = [calls EXCEPT ![c] = [active |-> TRUE, failed |-> FALSE,
                                          want |-> want, waiting |-> removed]]
        /\ rec' = [k \in Keys |-> IF k \in removed THEN RemoveRecord(rec[k], c) ELSE rec[k]]
        /\ made' = made + 1
        /\ UNCHANGED <<disposed, live, wire, sequence>>

(* Mutant: a changed tokenRef leaves the generation alone.                 *)
ReboundInPlace(r, token) ==
    [r EXCEPT !.token = token, !.desired = TRUE, !.removeWhenReaped = FALSE]

(* ... and then adds, restarts or leaves alone the record of key k.        *)
Rebound(r, token) ==
    [r EXCEPT !.token = token, !.desired = TRUE, !.removeWhenReaped = FALSE,
              !.gen = IF r.token # token THEN r.gen + 1 ELSE r.gen]

Readd(r, token) ==
    IF ~r.present THEN Spawn([NewRecord(token) EXCEPT !.micro = r.micro])
    ELSE IF r.lc = "abandoned" THEN Rebound(r, token)
    ELSE IF r.lc \in Terminating
    THEN [Rebound(r, token) EXCEPT !.waiters = Append(@, Reaction("readd"))]
    ELSE IF r.token # token \/ r.state = "stopped" THEN RestartRecord(Rebound(r, token), TRUE)
    ELSE IF ~r.child /\ r.lc = "none" /\ ~r.restartTimer /\ r.restart = "none"
    THEN Spawn(Rebound(r, token))
    ELSE Rebound(r, token)

(* Once every removal was reaped.  The code does not look at #disposed     *)
(* again here.                                                             *)
ReconcileStart(c) ==
    /\ calls[c].active /\ calls[c].waiting = {}
    /\ rec' = [k \in Keys |-> IF k \in DOMAIN calls[c].want /\ ~calls[c].failed
                              THEN Readd(rec[k], calls[c].want[k]) ELSE rec[k]]
    /\ calls' = [calls EXCEPT ![c] = IdleCall]
    /\ UNCHANGED <<disposed, live, wire, made, sequence>>

(* stop(identity) up to its await.                                         *)
Stop(k) ==
    /\ MayCall /\ rec[k].present
    /\ rec' = [rec EXCEPT ![k] =
          Terminate(RejectPending(CancelLifecycleTimers(
             [rec[k] EXCEPT !.desired = FALSE, !.gen = @ + 1, !.removeWhenReaped = FALSE])),
             Reaction("stop"))]
    /\ made' = made + 1
    /\ UNCHANGED <<disposed, calls, live, wire, sequence>>

(* restart(identity).                                                      *)
Restart(k) ==
    /\ MayCall /\ ~disposed /\ rec[k].present
    /\ rec' = [rec EXCEPT ![k] =
          RestartRecord([rec[k] EXCEPT !.desired = TRUE], rec[k].state = "stopped")]
    /\ made' = made + 1
    /\ UNCHANGED <<disposed, calls, live, wire, sequence>>

(* dispose(), once; cancelling a lookup rejects the spawn that awaits it.  *)
CancelLookup(r) ==
    IF r.lookup = "open" THEN [r EXCEPT !.lookup = "blocked", !.attempt = "refused"] ELSE r

(* Mutant: dispose() without #terminate.                                   *)
DisposeWithoutKill(r) ==
    Then(Quiet(RejectPending(CancelLifecycleTimers(CancelLookup(
            [r EXCEPT !.desired = FALSE, !.gen = @ + 1, !.removeWhenReaped = TRUE]))),
            "stopped"),
         [Reaction("dispose") EXCEPT !.ok = FALSE])

DisposeRecord(r) ==
    Terminate(Quiet(RejectPending(CancelLifecycleTimers(CancelLookup(
                 [r EXCEPT !.desired = FALSE, !.gen = @ + 1, !.removeWhenReaped = TRUE]))),
                 "stopped"),
              Reaction("dispose"))

Dispose ==
    /\ ~disposed
    /\ disposed' = TRUE
    /\ rec' = [k \in Keys |-> IF rec[k].present THEN DisposeRecord(rec[k]) ELSE rec[k]]
    /\ UNCHANGED <<calls, live, wire, made, sequence>>

(* send(), receipt() and joinChatroom(): #request.  The request is written *)
(* to the worker when it is routable and kept in the buffer otherwise.     *)
Accepts(r) ==
    /\ ~disposed /\ r.present /\ r.desired /\ r.state # "stopped"
    /\ Cardinality(r.pending) < MaxPending
    /\ r.routable \/ Len(r.buffer) < MaxBuffered

Request(k) ==
    LET q == sequence + 1
        added == [rec[k] EXCEPT !.pending = @ \cup {q}]
    IN  /\ sequence < MaxRequests
        /\ sequence' = q
        /\ Accepts(rec[k])
        /\ \/ /\ rec[k].routable /\ rec[k].child
              /\ rec' = [rec EXCEPT ![k] = added]
              /\ wire' = [wire EXCEPT ![k] = Append(@, q)]
           \/ /\ rec[k].routable /\ rec[k].child      \* child.send throws
              /\ rec' = [rec EXCEPT ![k] = FailRecord(added, added.gen)]
              /\ UNCHANGED wire
           \/ /\ ~(rec[k].routable /\ rec[k].child)
              /\ rec' = [rec EXCEPT ![k] = [added EXCEPT !.buffer = Append(@, q)]]
              /\ UNCHANGED wire
        /\ UNCHANGED <<disposed, calls, live, made>>

-----------------------------------------------------------------------------
(* Promise reactions.                                                      *)

At(k, kind) == rec[k].micro # <<>> /\ Head(rec[k].micro).kind = kind
Reacting(k) == Head(rec[k].micro)
Popped(k) == [rec[k] EXCEPT !.micro = Tail(@)]

(* A reaction that changes the record only.                                *)
Becomes(k, r) ==
    /\ rec' = [rec EXCEPT ![k] = r]
    /\ UNCHANGED <<disposed, calls, live, wire, made, sequence>>

OnStopped(k) == At(k, "stop") /\ Becomes(k, Quiet(Popped(k), "stopped"))

OnVoid(k) == At(k, "void") /\ Becomes(k, Popped(k))

(* A removal ends; a reconcile() one of whose removals was not reaped      *)
(* fails.                                                                  *)
MayForget(r, reaped) ==
    reaped /\ r.removeWhenReaped /\ ~r.desired /\ r.attempt = "none" /\ r.lookup = "none"

OnRemoved(k) ==
    LET m == Reacting(k)
    IN  /\ At(k, "remove") \/ At(k, "notify")
        /\ rec' = [rec EXCEPT ![k] = IF m.kind = "remove" /\ MayForget(Popped(k), m.ok)
                                     THEN Delete(Popped(k)) ELSE Popped(k)]
        /\ calls' = [calls EXCEPT ![m.call].waiting = @ \ {k},
                                  ![m.call].failed = @ \/ ~m.ok]
        /\ UNCHANGED <<disposed, live, wire, made, sequence>>

(* Mutant: the record is forgotten whether or not its worker was reaped.   *)
OnDisposedAnyway(k) == At(k, "dispose") /\ Becomes(k, Delete(Popped(k)))

OnDisposed(k) ==
    /\ At(k, "dispose")
    /\ Becomes(k, IF Reacting(k).ok THEN Delete(Popped(k)) ELSE Popped(k))

(* #failRecord once the worker was reaped: schedule the restart.           *)
OnFailed(k) ==
    LET r == Popped(k)
        g == Reacting(k).gen
    IN  /\ At(k, "fail")
        /\ \/ /\ Reacting(k).ok /\ ~disposed /\ r.desired /\ r.gen = g /\ r.failedGen = g
              /\ \E scheduled \in Scheduled :
                    Becomes(k, [r EXCEPT !.restartTimer = scheduled,
                                         !.armed = IF scheduled THEN @ + 1 ELSE @])
           \/ /\ ~(Reacting(k).ok /\ ~disposed /\ r.desired /\ r.gen = g /\ r.failedGen = g)
              /\ Becomes(k, r)

(* #performRestart once the worker was reaped: spawn the next one.         *)
OnRestart(k) ==
    LET r == Popped(k)
    IN  /\ At(k, "restart")
        /\ Becomes(k,
              IF Reacting(k).ok /\ OwnsGeneration(r, Reacting(k).gen)
              THEN AwaitSpawn([CancelLifecycleTimers(Quiet(r, "starting")) EXCEPT
                                  !.restartCount = 0, !.failedGen = 0])
              ELSE [r EXCEPT !.restart = "over"])

(* The end of a restart attempt; a queued restart follows it.              *)
OnRestarted(k) ==
    LET r == [rec[k] EXCEPT !.restart = "none", !.requeue = FALSE]
    IN  /\ rec[k].restart = "over"
        /\ Becomes(k, IF rec[k].requeue THEN RestartRecord(r, FALSE) ELSE r)

(* reconcile() found a termination under way: spawn once it is over.       *)
OnReadd(k) ==
    /\ At(k, "readd")
    /\ Becomes(k, IF Reacting(k).ok THEN Spawn(Popped(k)) ELSE Popped(k))

(* #terminateLifecycle sees the exit it waits for.                         *)
OnReaped(k) ==
    /\ rec[k].lc \in Terminating /\ rec[k].exited
    /\ Becomes(k, Resolve(ReleaseLifecycle(rec[k]), TRUE))

(* The spawn attempt settles: the record forgets it, and the spawns and    *)
(* the restart that await it go on.                                        *)
OnSpawned(k) ==
    LET clear == DeleteDormantRecord([rec[k] EXCEPT !.attempt = "none", !.spawnGen = 0])
        next == [clear EXCEPT !.respawn = FALSE]
        settled == IF clear.restart = "spawn" THEN [next EXCEPT !.restart = "over"] ELSE next
    IN  /\ rec[k].attempt = "over"
        /\ Becomes(k, IF clear.restart = "chain" THEN AwaitSpawn(next)
                      ELSE IF clear.respawn THEN Spawn(settled)
                      ELSE settled)

(* Mutant: the state is left at starting.                                  *)
OnNoCredentialSilently(k) ==
    /\ rec[k].attempt \in {"granted", "refused"}
    /\ Becomes(k, [rec[k] EXCEPT !.attempt = "over"])

(* #performSpawn without a usable credential, or with one for a generation *)
(* that is no longer the record's.                                         *)
OnNoCredential(k) ==
    LET r == [rec[k] EXCEPT !.attempt = "over"]
    IN  /\ rec[k].attempt \in {"granted", "refused"}
        /\ Becomes(k, IF OwnsGeneration(r, r.spawnGen) THEN [r EXCEPT !.state = "backoff"] ELSE r)

(* #performSpawn with its credential: the child is started, tracked and    *)
(* watched, and gets its init message; a watchdog or a message that fails  *)
(* fails the record.                                                       *)
Tracked(r) ==
    [r EXCEPT !.child = TRUE, !.lc = "tracked", !.exited = FALSE, !.connected = TRUE,
              !.childGen = r.spawnGen, !.childToken = r.credential, !.readyTimer = TRUE]

(* Mutant: the generation is not looked at again after the await.          *)
OnStaleCredential(k) ==
    LET r == [rec[k] EXCEPT !.attempt = "over"]
    IN  /\ rec[k].attempt = "granted" /\ r.present
        /\ live' = [live EXCEPT ![k] = @ + 1]
        /\ rec' = [rec EXCEPT ![k] = Tracked(r)]
        /\ UNCHANGED <<disposed, calls, wire, made, sequence>>

OnCredential(k) ==
    LET r == [rec[k] EXCEPT !.attempt = "over"]
    IN  /\ rec[k].attempt = "granted"
        /\ OwnsGeneration(r, r.spawnGen)
        /\ live' = [live EXCEPT ![k] = @ + 1]
        /\ \E delivered \in BOOLEAN :
              rec' = [rec EXCEPT ![k] =
                 IF delivered THEN Tracked(r) ELSE FailRecord(Tracked(r), r.spawnGen)]
        /\ UNCHANGED <<disposed, calls, wire, made, sequence>>

(* The same when the process cannot be started.                            *)
OnSpawnThrows(k) ==
    LET r == [rec[k] EXCEPT !.attempt = "over"]
    IN  /\ rec[k].attempt = "granted"
        /\ OwnsGeneration(r, r.spawnGen)
        /\ Becomes(k, FailRecord(r, r.spawnGen))

React(k) ==
    \/ OnStopped(k) \/ OnVoid(k) \/ OnRemoved(k) \/ OnDisposed(k) \/ OnFailed(k)
    \/ OnRestart(k) \/ OnRestarted(k) \/ OnReadd(k) \/ OnReaped(k)
    \/ OnSpawned(k) \/ OnNoCredential(k) \/ OnCredential(k) \/ OnSpawnThrows(k)

-----------------------------------------------------------------------------
(* Timers and the child, which are macrotasks, and the credential resolver.*)

Idle ==
    \A k \in Keys :
        /\ rec[k].micro = <<>> /\ ~(rec[k].lc \in Terminating /\ rec[k].exited)
        /\ rec[k].attempt \in {"none", "lookup"} /\ rec[k].restart # "over"

(* resolveCredential settles, in time or past its deadline.  It may answer *)
(* from memory and so among the reactions, but not before those that were  *)
(* queued when the current generation asked.                               *)
CredentialSettles(k, ok) ==
    /\ rec[k].lookup # "none"
    /\ rec[k].micro = <<>> \/ rec[k].lookup = "blocked" \/ rec[k].spawnGen # rec[k].gen
    /\ Becomes(k, DeleteDormantRecord([rec[k] EXCEPT
          !.lookup = "none",
          !.attempt = IF rec[k].lookup # "open" THEN @
                      ELSE IF ok THEN "granted" ELSE "refused"]))

CredentialTimeout(k) ==
    /\ Idle /\ rec[k].lookup = "open"
    /\ Becomes(k, CancelLookup(rec[k]))

RestartTimeout(k) ==
    LET r == [rec[k] EXCEPT !.restartTimer = FALSE, !.armed = @ - 1]
    IN  /\ Idle /\ rec[k].armed > 0 /\ rec[k].gen < MaxGeneration
        /\ Becomes(k, Spawn(r))

(* The ready and the online watchdog.                                      *)
ReadyTimeout(k) ==
    /\ Idle /\ rec[k].readyTimer /\ IsCurrent(rec[k])
    /\ Becomes(k, FailRecord([rec[k] EXCEPT !.readyTimer = FALSE], rec[k].childGen))

OnlineTimeout(k) ==
    /\ Idle /\ rec[k].onlineTimer /\ IsCurrent(rec[k])
    /\ Becomes(k, FailRecord([rec[k] EXCEPT !.onlineTimer = FALSE], rec[k].childGen))

StableTimeout(k) ==
    /\ Idle /\ rec[k].stableTimer /\ IsCurrent(rec[k]) /\ rec[k].routable
    /\ Becomes(k, [rec[k] EXCEPT !.stableTimer = FALSE, !.restartCount = 0])

(* #removeBuffered and the removal from pending.                           *)
RemoveBuffered(buffer, q) ==
    IF \E i \in 1..Len(buffer) : buffer[i] = q
    THEN LET i == CHOOSE i \in 1..Len(buffer) : buffer[i] = q
         IN  SubSeq(buffer, 1, i - 1) \o SubSeq(buffer, i + 1, Len(buffer))
    ELSE buffer

(* Mutant: a settled request stays in the buffer.                          *)
ForgetPendingOnly(r, q) == [r EXCEPT !.pending = @ \ {q}]

Forget(r, q) == [r EXCEPT !.pending = @ \ {q}, !.buffer = RemoveBuffered(@, q)]

RequestTimeout(k, q) ==
    /\ Idle /\ q \in rec[k].pending
    /\ Becomes(k, Forget(rec[k], q))

(* Mutant: a process that survives SIGKILL is given up as if reaped.       *)
TerminationTimeoutReleases(k) ==
    LET r == rec[k]
    IN  /\ Idle /\ r.lc \in Terminating /\ ~r.exited
        /\ Becomes(k, CASE r.lc = "shutdown" -> [r EXCEPT !.lc = "sigterm", !.connected = FALSE]
                        [] r.lc = "sigterm"  -> [r EXCEPT !.lc = "sigkill"]
                        [] OTHER -> Resolve(ReleaseLifecycle(r), TRUE))

(* #terminateLifecycle gives up one wait: SIGTERM, then SIGKILL, and then  *)
(* the process is abandoned and everyone who awaits it is told.            *)
TerminationTimeout(k) ==
    LET r == rec[k]
    IN  /\ Idle /\ r.lc \in Terminating /\ ~r.exited
        /\ Becomes(k, CASE r.lc = "shutdown" -> [r EXCEPT !.lc = "sigterm", !.connected = FALSE]
                        [] r.lc = "sigterm"  -> [r EXCEPT !.lc = "sigkill"]
                        [] OTHER -> Resolve([r EXCEPT !.lc = "abandoned"], FALSE))

(* 'exit' of the child, in whatever phase of its lifecycle: #markExited,   *)
(* and #failRecord while the supervisor still listens.                     *)
Exited(r) ==
    CASE r.lc = "abandoned" ->
            LET free == ReleaseLifecycle(r)
            IN  IF free.removeWhenReaped /\ ~free.desired THEN Delete(free) ELSE free
      [] r.lc \in Terminating -> [r EXCEPT !.exited = TRUE]
      [] OTHER -> FailRecord([r EXCEPT !.exited = TRUE], r.childGen)

ChildExit(k) ==
    /\ Idle /\ rec[k].lc # "none" /\ ~rec[k].exited
    /\ live' = [live EXCEPT ![k] = @ - 1]
    /\ rec' = [rec EXCEPT ![k] = Exited(rec[k])]
    /\ UNCHANGED <<disposed, calls, wire, made, sequence>>

(* 'error' and 'disconnect' of an attached child, and a message that is no *)
(* WorkerEvent.                                                            *)
ChildFails(k) ==
    /\ Idle /\ rec[k].child /\ ~rec[k].exited
    /\ \E connected \in BOOLEAN :
          Becomes(k, FailRecord([rec[k] EXCEPT !.connected = @ /\ connected], rec[k].childGen))

(* #receive: only a current child is heard.                                *)
Heard(k) == Idle /\ rec[k].child /\ ~rec[k].exited /\ rec[k].connected /\ IsCurrent(rec[k])

(* Mutant: no online watchdog after ready.                                 *)
ChildReadyUnwatched(k) ==
    /\ Heard(k)
    /\ Becomes(k, IF rec[k].readySeen THEN FailRecord(rec[k], rec[k].childGen)
                  ELSE [rec[k] EXCEPT !.readySeen = TRUE, !.readyTimer = FALSE])

ChildReady(k) ==
    LET r == [rec[k] EXCEPT !.readySeen = TRUE, !.readyTimer = FALSE, !.onlineTimer = TRUE]
    IN  /\ Heard(k)
        /\ \/ /\ ~rec[k].readySeen
              /\ \E scheduled \in Scheduled :
                    Becomes(k, IF scheduled THEN r ELSE FailRecord(r, r.childGen))
           \/ /\ rec[k].readySeen
              /\ Becomes(k, FailRecord(rec[k], rec[k].childGen))

(* #flush: everything buffered is written in order, until a write throws   *)
(* and the record fails.                                                   *)
Flush(k, r) ==
    LET flushed == [r EXCEPT !.buffer = <<>>]
    IN  \E n \in 0..Len(r.buffer) :
          /\ wire' = [wire EXCEPT ![k] = @ \o SubSeq(r.buffer, 1, n)]
          /\ rec' = [rec EXCEPT ![k] = IF n = Len(r.buffer) THEN flushed
                                       ELSE FailRecord(flushed, r.childGen)]

(* #connection, online: the stable timer is armed and the buffer flushed.  *)
ChildOnline(k) ==
    LET r == [rec[k] EXCEPT !.onlineTimer = FALSE, !.state = "online", !.routable = TRUE,
                            !.stableTimer = TRUE]
    IN  /\ Heard(k) /\ rec[k].readySeen
        /\ ~(rec[k].routable /\ rec[k].state = "online")
        /\ \/ Flush(k, r)
           \/ /\ TimersMayFail
              /\ rec' = [rec EXCEPT ![k] = FailRecord(r, r.childGen)]
              /\ UNCHANGED wire
        /\ UNCHANGED <<disposed, calls, live, made, sequence>>

(* #connection, connecting or offline: the online watchdog runs again.     *)
ChildOffline(k, state) ==
    LET r == [rec[k] EXCEPT !.routable = FALSE, !.state = state, !.stableTimer = FALSE,
                            !.onlineTimer = TRUE]
    IN  /\ Heard(k) /\ rec[k].readySeen
        /\ \E scheduled \in Scheduled :
              Becomes(k, IF scheduled \/ rec[k].onlineTimer THEN r ELSE FailRecord(r, r.childGen))

(* #result: a worker answers what was written to it.                       *)
ChildResult(k, q) ==
    /\ Heard(k) /\ rec[k].readySeen
    /\ q \in rec[k].pending /\ \E i \in DOMAIN wire[k] : wire[k][i] = q
    /\ Becomes(k, Forget(rec[k], q))

(* #refresh: one request per worker; a second one under another id fails   *)
(* the record.                                                             *)
ChildRefresh(k) ==
    /\ Heard(k) /\ rec[k].readySeen
    /\ Becomes(k, IF rec[k].refresh = "none" THEN [rec[k] EXCEPT !.refresh = "open"]
                  ELSE FailRecord(rec[k], rec[k].childGen))

RefreshSettles(k) ==
    LET r == [rec[k] EXCEPT !.refresh = "answered"]
    IN  /\ rec[k].refresh = "open"
        /\ \E delivered \in BOOLEAN :
              Becomes(k, IF delivered \/ ~IsCurrent(r) THEN r ELSE FailRecord(r, r.childGen))

Timeout(k) ==
    \/ CredentialTimeout(k) \/ RestartTimeout(k) \/ ReadyTimeout(k) \/ OnlineTimeout(k)
    \/ StableTimeout(k) \/ TerminationTimeout(k)
    \/ \E q \in Requests : RequestTimeout(k, q)

ChildEvent(k) ==
    \/ ChildExit(k) \/ ChildFails(k) \/ ChildReady(k) \/ ChildOnline(k)
    \/ ChildOffline(k, "offline") \/ ChildOffline(k, "starting")
    \/ \E q \in Requests : ChildResult(k, q)
    \/ ChildRefresh(k)

Next ==
    \/ \E c \in Calls : \E want \in Wanted : Reconcile(c, want)
    \/ \E c \in Calls : ReconcileStart(c)
    \/ Dispose
    \/ \E k \in Keys :
          \/ Stop(k) \/ Restart(k) \/ Request(k)
          \/ React(k) \/ Timeout(k) \/ ChildEvent(k)
          \/ \E ok \in BOOLEAN : CredentialSettles(k, ok)
          \/ RefreshSettles(k)

Spec == Init /\ [][Next]_vars

(* The event loop runs every reaction and every timer that is due.  No     *)
(* fairness for the child, the credential resolver or the callers.         *)
Fairness ==
    /\ \A k \in Keys :
          /\ WF_vars(React(k))
          /\ WF_vars(TerminationTimeout(k)) /\ WF_vars(CredentialTimeout(k))
          /\ WF_vars(ReadyTimeout(k)) /\ WF_vars(OnlineTimeout(k))
          /\ \A q \in Requests : WF_vars(RequestTimeout(k, q))
    /\ \A c \in Calls : WF_vars(ReconcileStart(c))

FairSpec == Spec /\ Fairness

(* Restart timers fire, too, and the resolver always answers.              *)
RestartSpec ==
    /\ FairSpec
    /\ \A k \in Keys : /\ WF_vars(RestartTimeout(k))
                        /\ WF_vars(\E ok \in BOOLEAN : CredentialSettles(k, ok))

-----------------------------------------------------------------------------
(* Properties.                                                             *)

(* At most one worker process per binding: neither a crash loop, a         *)
(* credential change, a removal with re-add nor a process that survives    *)
(* SIGKILL ever leaves two workers on one IM account and storageDir.       *)
OneWorker == \A k \in Keys : live[k] <= 1

(* A process that may still run is tracked by the record under its key:    *)
(* #records never forgets a worker it could not reap.                      *)
NoOrphan ==
    \A k \in Keys : live[k] > 0 => rec[k].present /\ rec[k].lc # "none" /\ ~rec[k].exited

(* The worker the supervisor listens to was given the credential that its  *)
(* binding refers to now, however often reconcile() changed the tokenRef   *)
(* while lookups, restarts and terminations were under way.                *)
CurrentCredential ==
    \A k \in Keys : IsCurrent(rec[k]) => rec[k].childToken = rec[k].token

(* A desired record in state starting, online or offline has a worker, a   *)
(* spawn, or a termination after which there will be one: what snapshots() *)
(* reports as working is being worked on.                                  *)
SnapshotHonest ==
    \A k \in Keys :
        Idle /\ ~disposed /\ rec[k].desired /\ rec[k].state \in {"starting", "online", "offline"}
        => rec[k].child \/ rec[k].attempt = "lookup" \/ rec[k].lc \in Terminating

(* Buffered requests are pending ones, and no request is pending on a      *)
(* binding that is not desired (#rejectPending, #removeBuffered, the       *)
(* request timer); requests are buffered and reach the workers of a        *)
(* binding in the order in which they were made, and none is ever written  *)
(* twice, whatever crashes in between (#flush).                            *)
RequestsAccounted ==
    \A k \in Keys :
        LET r == rec[k]
        IN  /\ \A i \in 1..Len(r.buffer) : r.buffer[i] \in r.pending
            /\ r.pending # {} => r.present /\ r.desired
            /\ Cardinality(r.pending) <= MaxPending
            /\ \A i, j \in 1..Len(r.buffer) : i < j => r.buffer[i] < r.buffer[j]
            /\ \A i, j \in 1..Len(wire[k]) : i < j => wire[k][i] < wire[k][j]

(* What the supervisor promises of the worker processes (WorkerSlots): one *)
(* slot per binding, filled only while it is empty, only for a desired     *)
(* binding with the credential it refers to, and never after dispose().    *)
Slots == INSTANCE WorkerSlots WITH
    worker <- [k \in Keys |-> IF live[k] > 0 THEN rec[k].childToken ELSE NoToken],
    bound  <- [k \in Keys |-> IF rec[k].desired THEN rec[k].token ELSE NoToken],
    closed <- disposed

ImplementsSlots == Slots!Spec

(* Whatever is awaited settles.  Every reconcile() gets past its removals, *)
(* though workers ignore shutdown and signals and though another one       *)
(* removes or re-adds the same keys meanwhile; a spawn attempt ends even   *)
(* when the credential resolver never answers (#boundedCredential), so it  *)
(* cannot block later spawns for good; and every accepted request is       *)
(* settled, whatever becomes of its worker.                                *)
AllSettle ==
    /\ \A c \in Calls : calls[c].active ~> ~calls[c].active
    /\ \A k \in Keys : rec[k].attempt # "none" ~> rec[k].attempt = "none"
    /\ \A k \in Keys : \A q \in Requests : q \in rec[k].pending ~> q \notin rec[k].pending

(* A worker that goes silent before it is online, or after it went         *)
(* offline, is given up: it gets back online or stops being heard.         *)
SilentWorkerReplaced ==
    \A k \in Keys : IsCurrent(rec[k]) /\ ~rec[k].routable
                    ~> rec[k].routable \/ ~IsCurrent(rec[k])

(* dispose() leaves no worker behind but those that survived SIGKILL.      *)
DisposeReaps ==
    disposed ~> [](\A k \in Keys : live[k] > 0 => rec[k].lc = "abandoned")

(* A worker that crashed is restarted with bounded backoff: until one runs *)
(* again, is no longer wanted or was abandoned, there is a next attempt.   *)
CrashRestarts ==
    \A k \in Keys :
        rec[k].desired /\ rec[k].restartCount > 0 /\ rec[k].state = "backoff"
        ~> \/ rec[k].child \/ ~rec[k].desired \/ rec[k].lc = "abandoned"
           \/ rec[k].gen >= MaxGeneration

=============================================================================
