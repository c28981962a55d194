----------------------- MODULE WorkerSupervisorProofs -----------------------
(***************************************************************************)
(* Proofs about WorkerSupervisor, for any set of bindings, credentials and *)
(* concurrent calls and for any bounds.                                    *)
(*                                                                         *)
(* The inductive invariant says of every record what its fields say of     *)
(* each other (Shape), that a deletion that waits among its reactions can  *)
(* never find a worker (DeletionsSafe), and that the live processes of its *)
(* key are the one it tracks.  Every helper keeps Sound, so an action      *)
(* keeps it because it is a composition of helpers.  What the records keep *)
(* beside the worker follows after the refinement of WorkerSlots.          *)
(***************************************************************************)
EXTENDS WorkerSupervisor, SequenceTheorems, FiniteSetTheorems, TLAPS

(* A deletion may run only while no process is tracked, and none may start *)
(* before it has run.                                                      *)
Deletes(m) == m.ok /\ m.kind \in {"remove", "dispose"}

DeletionsSafe(r) ==
    \A i \in 1..Len(r.micro) : Deletes(r.micro[i]) =>
        r.lc = "none" /\ (r.attempt = "granted" => r.spawnGen < r.gen)

(* What the fields of a record say of each other.                          *)
Shape(r) ==
    /\ r.restartTimer => r.armed > 0
    /\ r.child <=> r.lc = "tracked"
    /\ r.desired => r.present
    /\ r.lc # "none" => r.present /\ r.childToken \in Tokens
    /\ r.present => r.token \in Tokens
    /\ r.attempt \in {"lookup", "granted", "refused"} => r.lc = "none"
    /\ r.lookup = "open" => r.attempt = "lookup"
    /\ r.attempt \in {"lookup", "granted"} => r.credential \in Tokens
    /\ r.spawnGen <= r.gen /\ r.childGen <= r.gen
    /\ r.attempt \in {"lookup", "granted"} /\ r.spawnGen = r.gen => r.credential = r.token
    /\ r.child /\ r.childGen = r.gen => r.childToken = r.token

Sound(r) == r \in Records /\ Shape(r) /\ DeletionsSafe(r)

(* The tracked process may still run.                                      *)
Alive(r) == r.lc # "none" /\ ~r.exited

(* From r to s neither the worker nor what is wanted of it changes.        *)
SameWorker(r, s) ==
    /\ Alive(s) <=> Alive(r)
    /\ Alive(r) => s.childToken = r.childToken

SameBinding(r, s) == s.desired = r.desired /\ s.token = r.token

-----------------------------------------------------------------------------
(* Helpers.                                                                *)

(* Quiet changes nothing the worker depends on.                             *)
LEMMA QuietSound ==
    ASSUME NEW r, Sound(r), NEW s \in States
    PROVE  Sound(Quiet(r, s)) /\ SameWorker(r, Quiet(r, s)) /\ SameBinding(r, Quiet(r, s))
<1>1. Quiet(r, s) \in Records
  BY DEF Quiet, Records, Sound
<1>2. Shape(Quiet(r, s))
  BY DEF Quiet, Records, Sound, Shape
<1>3. DeletionsSafe(Quiet(r, s))
  BY DEF Quiet, Records, Sound, DeletionsSafe, Shape
<1>4. SameWorker(r, Quiet(r, s))
  BY DEF Quiet, Records, Sound, Shape, SameWorker, Alive
<1>5. SameBinding(r, Quiet(r, s))
  BY DEF Quiet, Records, Sound, Shape, SameBinding
<1>. QED  BY <1>1, <1>2, <1>3, <1>4, <1>5 DEF Sound

(* #rejectPending leaves worker and binding alone.                          *)
LEMMA RejectSound ==
    ASSUME NEW r, Sound(r)
    PROVE  Sound(RejectPending(r)) /\ SameWorker(r, RejectPending(r)) /\ SameBinding(r, RejectPending(r))
<1>a0. <<>> \in Seq(Requests)
  OBVIOUS
<1>1. RejectPending(r) \in Records
  BY <1>a0 DEF RejectPending, Records, Sound
<1>2. Shape(RejectPending(r))
  BY <1>a0 DEF RejectPending, Records, Sound, Shape
<1>3. DeletionsSafe(RejectPending(r))
  BY <1>a0 DEF RejectPending, Records, Sound, DeletionsSafe, Shape
<1>4. SameWorker(r, RejectPending(r))
  BY <1>a0 DEF RejectPending, Records, Sound, Shape, SameWorker, Alive
<1>5. SameBinding(r, RejectPending(r))
  BY <1>a0 DEF RejectPending, Records, Sound, Shape, SameBinding
<1>. QED  BY <1>1, <1>2, <1>3, <1>4, <1>5 DEF Sound

(* #cancelStartupTimers leaves worker and binding alone.                    *)
LEMMA StartupTimersSound ==
    ASSUME NEW r, Sound(r)
    PROVE  Sound(CancelStartupTimers(r)) /\ SameWorker(r, CancelStartupTimers(r)) /\ SameBinding(r, CancelStartupTimers(r))
<1>1. CancelStartupTimers(r) \in Records
  BY DEF CancelStartupTimers, Records, Sound
<1>2. Shape(CancelStartupTimers(r))
  BY DEF CancelStartupTimers, Records, Sound, Shape
<1>3. DeletionsSafe(CancelStartupTimers(r))
  BY DEF CancelStartupTimers, Records, Sound, DeletionsSafe, Shape
<1>4. SameWorker(r, CancelStartupTimers(r))
  BY DEF CancelStartupTimers, Records, Sound, Shape, SameWorker, Alive
<1>5. SameBinding(r, CancelStartupTimers(r))
  BY DEF CancelStartupTimers, Records, Sound, Shape, SameBinding
<1>. QED  BY <1>1, <1>2, <1>3, <1>4, <1>5 DEF Sound

(* A record stays a record when its timers are cleared.                     *)
LEMMA TimersType ==
    ASSUME NEW r \in Records, NEW n \in Nat
    PROVE  [r EXCEPT !.stableTimer = FALSE, !.restartTimer = FALSE, !.armed = n] \in Records
BY DEF Records

(* #cancelLifecycleTimers never clears a restart timer that does not run.   *)
LEMMA LifecycleTimersSound ==
    ASSUME NEW r, Sound(r)
    PROVE  Sound(CancelLifecycleTimers(r)) /\ SameWorker(r, CancelLifecycleTimers(r)) /\ SameBinding(r, CancelLifecycleTimers(r))
<1>a0. (IF r.restartTimer THEN r.armed - 1 ELSE r.armed) \in Nat
  BY DEF Sound, Records, Shape
<1>1. CancelLifecycleTimers(r) \in Records
  <2>1. CancelStartupTimers(r) \in Records
    BY StartupTimersSound DEF Sound
  <2>. QED  BY <1>a0, <2>1, TimersType DEF CancelLifecycleTimers
<1>2. Shape(CancelLifecycleTimers(r))
  BY <1>a0 DEF CancelLifecycleTimers, CancelStartupTimers, Records, Sound, Shape
<1>3. DeletionsSafe(CancelLifecycleTimers(r))
  BY <1>a0 DEF CancelLifecycleTimers, CancelStartupTimers, Records, Sound, DeletionsSafe, Shape
<1>4. SameWorker(r, CancelLifecycleTimers(r))
  BY <1>a0 DEF CancelLifecycleTimers, CancelStartupTimers, Records, Sound, Shape, SameWorker, Alive
<1>5. SameBinding(r, CancelLifecycleTimers(r))
  BY <1>a0 DEF CancelLifecycleTimers, CancelStartupTimers, Records, Sound, Shape, SameBinding
<1>. QED  BY <1>1, <1>2, <1>3, <1>4, <1>5 DEF Sound

(* A reaction may be queued if it deletes nothing that still runs.          *)
LEMMA ThenSound ==
    ASSUME NEW r, Sound(r), NEW m \in Reactions, Deletes(m) => r.lc = "none" /\ (r.attempt = "granted" => r.spawnGen < r.gen)
    PROVE  Sound(Then(r, m)) /\ SameWorker(r, Then(r, m)) /\ SameBinding(r, Then(r, m))
<1>a0. Append(r.micro, m) \in Seq(Reactions)
  BY DEF Sound, Records
<1>a1. \A i \in 1..Len(Append(r.micro, m)) : Append(r.micro, m)[i] = m \/ (i \in 1..Len(r.micro) /\ Append(r.micro, m)[i] = r.micro[i])
  BY DEF Sound, Records
<1>1. Then(r, m) \in Records
  BY <1>a0, <1>a1 DEF Then, Records, Sound
<1>2. Shape(Then(r, m))
  BY <1>a0, <1>a1 DEF Then, Records, Sound, Shape
<1>3. DeletionsSafe(Then(r, m))
  BY <1>a0, <1>a1 DEF Then, Records, Sound, DeletionsSafe, Shape
<1>4. SameWorker(r, Then(r, m))
  BY <1>a0, <1>a1 DEF Then, Records, Sound, Shape, SameWorker, Alive
<1>5. SameBinding(r, Then(r, m))
  BY <1>a0, <1>a1 DEF Then, Records, Sound, Shape, SameBinding
<1>. QED  BY <1>1, <1>2, <1>3, <1>4, <1>5 DEF Sound

(* Releasing a lifecycle that is no longer listened to is sound.            *)
LEMMA ReleaseSound ==
    ASSUME NEW r, Sound(r), r.lc # "tracked"
    PROVE  Sound(ReleaseLifecycle(r)) /\ SameBinding(r, ReleaseLifecycle(r))
<1>1. ReleaseLifecycle(r) \in Records
  BY DEF ReleaseLifecycle, Lifecycles, Records, Sound
<1>2. Shape(ReleaseLifecycle(r))
  BY DEF ReleaseLifecycle, Lifecycles, Records, Sound, Shape
<1>3. DeletionsSafe(ReleaseLifecycle(r))
  BY DEF ReleaseLifecycle, Lifecycles, Records, Sound, DeletionsSafe, Shape
<1>4. SameBinding(r, ReleaseLifecycle(r))
  BY DEF ReleaseLifecycle, Lifecycles, Records, Sound, Shape, SameBinding
<1>. QED  BY <1>1, <1>2, <1>3, <1>4 DEF Sound

(* A new record is sound and has no worker.                                 *)
LEMMA NewRecordSound ==
    ASSUME NEW t \in Tokens \cup {NoToken}
    PROVE  Sound(NewRecord(t)) /\ ~Alive(NewRecord(t))
<1>a. <<>> \in Seq(Requests) /\ <<>> \in Seq(Reactions) /\ Len(<<>>) = 0
  OBVIOUS
<1>1. NewRecord(t) \in Records
  BY <1>a DEF NewRecord, Records, States, Lifecycles, Attempts, Restarts
<1>2. Shape(NewRecord(t))
  <2>. DEFINE n == NewRecord(t)
  <2>1. (n.desired <=> t # NoToken) /\ (n.present <=> t # NoToken) /\ n.token = t
    BY DEF NewRecord
  <2>2. n.lc = "none" /\ ~n.child /\ n.attempt = "none" /\ n.lookup = "none" /\ ~n.restartTimer
    BY DEF NewRecord
  <2>3. n.gen = 0 /\ n.spawnGen = 0 /\ n.childGen = 0
    BY DEF NewRecord
  <2>. HIDE DEF n
  <2>4. Shape(n)
    BY <2>1, <2>2, <2>3 DEF Shape
  <2>. QED  BY <2>4 DEF n
<1>3. DeletionsSafe(NewRecord(t))
  BY <1>a DEF NewRecord, DeletionsSafe
<1>. QED  BY <1>1, <1>2, <1>3 DEF Sound, Alive, NewRecord

(* Other reactions may be put in the queue, as long as deletions are safe. *)
LEMMA MicroSound ==
    ASSUME NEW r, Sound(r), NEW q \in Seq(Reactions),
           \A i \in 1..Len(q) : Deletes(q[i]) =>
              r.lc = "none" /\ (r.attempt = "granted" => r.spawnGen < r.gen)
    PROVE  LET s == [r EXCEPT !.micro = q]
           IN  Sound(s) /\ SameWorker(r, s) /\ SameBinding(r, s)
<1>. DEFINE s == [r EXCEPT !.micro = q]
<1>1. s \in Records
  BY DEF Records, Sound
<1>2. Shape(s)
  BY DEF Records, Sound, Shape
<1>3. DeletionsSafe(s)
  BY DEF Records, Sound, DeletionsSafe
<1>. QED  BY <1>1, <1>2, <1>3 DEF Sound, SameWorker, SameBinding, Alive, Records

(* A deleted record is sound, not desired and has no worker.                *)
LEMMA DeleteSound ==
    ASSUME NEW r, Sound(r)
    PROVE  Sound(Delete(r)) /\ ~Alive(Delete(r)) /\ ~Delete(r).desired
<1>. DEFINE q == [i \in 1..Len(r.micro) |-> [r.micro[i] EXCEPT !.kind =
                     IF @ \in {"remove", "notify"} THEN "notify" ELSE "void"]]
<1>. DEFINE n == NewRecord(NoToken)
<1>1. r.micro \in Seq(Reactions) /\ Len(r.micro) \in Nat
  BY DEF Sound, Records
<1>2. \A i \in 1..Len(r.micro) : q[i] \in Reactions /\ ~Deletes(q[i])
  <2>. TAKE i \in 1..Len(r.micro)
  <2>1. r.micro[i] \in Reactions
    BY <1>1
  <2>2. PICK kind \in {"notify", "void"} : q[i] = [r.micro[i] EXCEPT !.kind = kind]
    BY <2>1
  <2>. QED  BY <2>1, <2>2 DEF Reactions, Kinds, Deletes
<1>3. q \in Seq(Reactions) /\ Len(q) = Len(r.micro)
  <2>1. q \in [1..Len(r.micro) -> Reactions]
    BY <1>2
  <2>. HIDE DEF q
  <2>. QED  BY <1>1, <2>1
<1>4. Sound(n) /\ ~Alive(n) /\ ~n.desired
  BY NewRecordSound DEF NewRecord
<1>5. \A i \in 1..Len(q) : Deletes(q[i]) => n.lc = "none" /\ (n.attempt = "granted" => n.spawnGen < n.gen)
  BY <1>2, <1>3
<1>. HIDE DEF q, n
<1>6. Sound([n EXCEPT !.micro = q]) /\ SameWorker(n, [n EXCEPT !.micro = q])
      /\ SameBinding(n, [n EXCEPT !.micro = q])
  BY <1>3, <1>4, <1>5, MicroSound
<1>7. Delete(r) = [n EXCEPT !.micro = q]
  BY DEF Delete, q, n
<1>. QED  BY <1>4, <1>6, <1>7 DEF SameWorker, SameBinding

(* #deleteDormantRecord deletes only what has no worker.                    *)
LEMMA DormantSound ==
    ASSUME NEW r, Sound(r)
    PROVE  Sound(DeleteDormantRecord(r)) /\ SameWorker(r, DeleteDormantRecord(r))
BY DeleteSound DEF DeleteDormantRecord, SameWorker, Alive

(* The termination promise resolves with reaped once the lifecycle was     *)
(* released, or without while it is abandoned.                             *)
LEMMA ResolveSound ==
    ASSUME NEW r, Sound(r), NEW reaped \in BOOLEAN,
           reaped => r.lc = "none" /\ r.attempt # "granted"
    PROVE  Sound(Resolve(r, reaped)) /\ SameWorker(r, Resolve(r, reaped))
           /\ SameBinding(r, Resolve(r, reaped))
<1>. DEFINE v == [i \in 1..Len(r.waiters) |-> [r.waiters[i] EXCEPT !.ok = reaped]]
<1>. DEFINE q == r.micro \o v
<1>1. r.micro \in Seq(Reactions) /\ r.waiters \in Seq(Reactions)
  BY DEF Sound, Records
<1>2. \A i \in 1..Len(r.waiters) : v[i] \in Reactions /\ v[i].ok = reaped
  <2>. TAKE i \in 1..Len(r.waiters)
  <2>1. r.waiters[i] \in Reactions
    BY <1>1
  <2>2. v[i] = [r.waiters[i] EXCEPT !.ok = reaped]
    BY <2>1
  <2>. QED  BY <2>1, <2>2 DEF Reactions
<1>3. v \in Seq(Reactions) /\ Len(v) = Len(r.waiters)
  <2>1. v \in [1..Len(r.waiters) -> Reactions]
    BY <1>2
  <2>. HIDE DEF v
  <2>. QED  BY <1>1, <2>1
<1>. HIDE DEF v
<1>4. q \in Seq(Reactions)
  BY <1>1, <1>3
<1>5. \A i \in 1..Len(q) : \/ i \in 1..Len(r.micro) /\ q[i] = r.micro[i]
                           \/ \E j \in 1..Len(v) : q[i] = v[j]
  BY <1>1, <1>3
<1>6. \A i \in 1..Len(q) : Deletes(q[i]) =>
         r.lc = "none" /\ (r.attempt = "granted" => r.spawnGen < r.gen)
  BY <1>2, <1>3, <1>5 DEF Deletes, Sound, DeletionsSafe
<1>. HIDE DEF q
<1>. DEFINE s == [r EXCEPT !.micro = q]
<1>7. Sound(s) /\ SameWorker(r, s) /\ SameBinding(r, s)
  BY <1>4, <1>6, MicroSound
<1>. DEFINE t == [s EXCEPT !.waiters = <<>>]
<1>8. <<>> \in Seq(Reactions)
  OBVIOUS
<1>. HIDE DEF s
<1>9. t \in Records
  BY <1>7, <1>8 DEF Sound, Records
<1>10. Shape(t)
  BY <1>7 DEF Sound, Records, Shape
<1>11. DeletionsSafe(t)
  BY <1>7 DEF Sound, Records, DeletionsSafe
<1>12. SameWorker(r, t) /\ SameBinding(r, t)
  BY <1>7 DEF Sound, Records, SameWorker, SameBinding, Alive
<1>13. Resolve(r, reaped) = t
  BY DEF Resolve, s, q, v
<1>. QED  BY <1>9, <1>10, <1>11, <1>12, <1>13 DEF Sound

(* A record stays a record when its waiters change.                         *)
LEMMA WaitersType ==
    ASSUME NEW r \in Records, NEW q \in Seq(Reactions)
    PROVE  [r EXCEPT !.waiters = q] \in Records
BY DEF Records

(* A record stays a record when its child is detached.                      *)
LEMMA DetachedType ==
    ASSUME NEW r \in Records, NEW q \in Seq(Reactions), NEW lc \in Lifecycles
    PROVE  [r EXCEPT !.child = FALSE, !.waiters = q, !.lc = lc] \in Records
BY DEF Records

(* #terminate keeps track of the process until its exit was seen.           *)
LEMMA TerminateSound ==
    ASSUME NEW r, Sound(r), NEW w \in Reactions, Deletes(w) => r.spawnGen < r.gen
    PROVE  Sound(Terminate(r, w)) /\ SameWorker(r, Terminate(r, w))
           /\ SameBinding(r, Terminate(r, w))
<1>. DEFINE t == Terminate(r, w)
<1>1. CASE r.lc = "none"
  <2>1. t = Then(r, w)
    BY <1>1 DEF Terminate, Terminating
  <2>. QED  BY <1>1, <2>1, ThenSound
<1>2. CASE r.lc = "abandoned"
  <2>1. [w EXCEPT !.ok = FALSE] \in Reactions /\ ~Deletes([w EXCEPT !.ok = FALSE])
    BY DEF Reactions, Deletes
  <2>2. t = Then(r, [w EXCEPT !.ok = FALSE])
    BY <1>2 DEF Terminate, Terminating
  <2>. QED  BY <2>1, <2>2, ThenSound
<1>a. Append(r.waiters, w) \in Seq(Reactions)
  BY DEF Sound, Records
<1>3. CASE r.lc \in Terminating
  <2>1. t = [r EXCEPT !.waiters = Append(r.waiters, w)]
    BY <1>3 DEF Terminate, Terminating
  <2>2. t \in Records
    BY <1>a, <2>1, WaitersType DEF Sound
  <2>3. Shape(t)
    BY <2>1 DEF Sound, Records, Shape
  <2>4. DeletionsSafe(t)
    BY <2>1 DEF Sound, Records, DeletionsSafe
  <2>. QED  BY <2>1, <2>2, <2>3, <2>4 DEF Sound, Records, SameWorker, SameBinding, Alive
<1>4. CASE r.lc = "tracked" /\ r.exited
  <2>. DEFINE s == ReleaseLifecycle([r EXCEPT !.child = FALSE])
  <2>1. t = Then(s, w)
    BY <1>4 DEF Terminate, Terminating
  <2>2. s \in Records
    BY DEF Sound, Records, ReleaseLifecycle, Lifecycles
  <2>3. Shape(s)
    BY <1>4 DEF Sound, Records, Shape, ReleaseLifecycle
  <2>4. DeletionsSafe(s)
    BY <1>4 DEF Sound, Records, Shape, DeletionsSafe, ReleaseLifecycle
  <2>5. s.lc = "none" /\ s.spawnGen = r.spawnGen /\ s.gen = r.gen
    BY DEF Sound, Records, ReleaseLifecycle
  <2>6. SameWorker(r, s) /\ SameBinding(r, s)
    BY <1>4 DEF Sound, Records, ReleaseLifecycle, SameWorker, SameBinding, Alive
  <2>. HIDE DEF s
  <2>7. Sound(Then(s, w)) /\ SameWorker(s, Then(s, w)) /\ SameBinding(s, Then(s, w))
    BY <2>2, <2>3, <2>4, <2>5, ThenSound DEF Sound
  <2>. QED  BY <2>1, <2>6, <2>7 DEF SameWorker, SameBinding
<1>5. CASE r.lc = "tracked" /\ ~r.exited
  <2>1. PICK lc \in Terminating : t = [r EXCEPT !.child = FALSE,
                                        !.waiters = Append(r.waiters, w), !.lc = lc]
    BY <1>5 DEF Terminate, Terminating
  <2>2. t \in Records
    <3>1. lc \in Lifecycles
      BY DEF Lifecycles
    <3>2. r \in Records
      BY DEF Sound
    <3>3. [r EXCEPT !.child = FALSE, !.waiters = Append(r.waiters, w), !.lc = lc] \in Records
      BY <1>a, <3>1, <3>2, DetachedType
    <3>. QED  BY <2>1, <3>3
  <2>3. Shape(t)
    BY <1>5, <2>1 DEF Sound, Records, Shape, Terminating
  <2>4. DeletionsSafe(t)
    BY <1>5, <2>1 DEF Sound, Records, DeletionsSafe
  <2>. QED
    BY <1>5, <2>1, <2>2, <2>3, <2>4 DEF Sound, Records, SameWorker, SameBinding, Alive, Terminating
<1>. QED  BY <1>1, <1>2, <1>3, <1>4, <1>5 DEF Sound, Records, Lifecycles

(* Assignments that come with every restart, stop, removal and disposal.   *)
LEMMA BumpSound ==
    ASSUME NEW r, Sound(r)
    PROVE  LET s == [r EXCEPT !.gen = @ + 1]
           IN  Sound(s) /\ SameWorker(r, s) /\ SameBinding(r, s) /\ s.spawnGen < s.gen
<1>. DEFINE s == [r EXCEPT !.gen = @ + 1]
<1>a. r.gen + 1 \in Nat /\ r.gen \in Nat /\ r.spawnGen \in Nat /\ r.childGen \in Nat
  BY DEF Sound, Records
<1>1. s \in Records
  BY <1>a DEF Sound, Records
<1>2. Shape(s)
  BY <1>a DEF Sound, Records, Shape
<1>3. DeletionsSafe(s)
  BY <1>a DEF Sound, Records, DeletionsSafe
<1>4. SameWorker(r, s) /\ SameBinding(r, s)
  BY DEF Sound, Records, SameWorker, SameBinding, Alive
<1>5. s.spawnGen < s.gen
  BY <1>a DEF Sound, Records, Shape
<1>. QED  BY <1>1, <1>2, <1>3, <1>4, <1>5 DEF Sound

(* Fields that neither Shape nor the worker depend on may change freely.   *)
SameCore(r, s) ==
    /\ s.restartTimer = r.restartTimer /\ s.armed = r.armed /\ s.micro = r.micro
    /\ s.child = r.child /\ s.lc = r.lc /\ s.exited = r.exited
    /\ s.childGen = r.childGen /\ s.childToken = r.childToken
    /\ s.desired = r.desired /\ s.present = r.present /\ s.token = r.token /\ s.gen = r.gen
    /\ s.attempt = r.attempt /\ s.spawnGen = r.spawnGen
    /\ s.lookup = r.lookup /\ s.credential = r.credential

(* Such a change keeps a record sound, and its worker.                      *)
LEMMA CoreSound ==
    ASSUME NEW r, Sound(r), NEW s \in Records, SameCore(r, s)
    PROVE  Sound(s) /\ SameWorker(r, s) /\ SameBinding(r, s)
<1>1. Shape(s)
  BY DEF Sound, Shape, SameCore
<1>2. DeletionsSafe(s)
  BY DEF Sound, DeletionsSafe, SameCore
<1>. QED  BY <1>1, <1>2 DEF Sound, SameCore, SameWorker, SameBinding, Alive

(* Keeping worker and binding is transitive.                                *)
LEMMA SameTrans ==
    ASSUME NEW r, NEW s, NEW t,
           SameWorker(r, s), SameBinding(r, s), SameWorker(s, t), SameBinding(s, t)
    PROVE  SameWorker(r, t) /\ SameBinding(r, t)
BY DEF SameWorker, SameBinding

(* The reactions the methods register are reactions.                        *)
LEMMA ReactionType ==
    /\ \A kind \in Kinds : Reaction(kind) \in Reactions
    /\ \A kind \in Kinds, g \in Nat : [Reaction(kind) EXCEPT !.gen = g] \in Reactions
    /\ \A kind \in Kinds, c \in Calls : [Reaction(kind) EXCEPT !.call = c] \in Reactions
BY DEF Reaction, Reactions

(* #failRecord keeps the process until it was reaped.                       *)
LEMMA FailSound ==
    ASSUME NEW r, Sound(r), NEW g \in Nat
    PROVE  Sound(FailRecord(r, g)) /\ SameWorker(r, FailRecord(r, g))
           /\ SameBinding(r, FailRecord(r, g))
<1>. DEFINE w == [Reaction("fail") EXCEPT !.gen = g]
<1>. DEFINE a == CancelStartupTimers(r)
<1>. DEFINE b == [a EXCEPT !.failedGen = g, !.stableTimer = FALSE, !.restartCount = @ + 1]
<1>. DEFINE c == Quiet(b, "backoff")
<1>. DEFINE d == RejectPending(c)
<1>1. CASE ~OwnsGeneration(r, g)
  BY <1>1 DEF FailRecord, SameWorker, SameBinding
<1>2. CASE OwnsGeneration(r, g)
  <2>1. FailRecord(r, g) = Terminate(d, w)
    BY <1>2 DEF FailRecord
  <2>2. w \in Reactions /\ ~Deletes(w)
    BY DEF Reaction, Reactions, Kinds, Deletes
  <2>3. Sound(a) /\ SameWorker(r, a) /\ SameBinding(r, a)
    BY StartupTimersSound
  <2>. HIDE DEF a, w
  <2>4. a.restartCount + 1 \in Nat
    BY <2>3 DEF Sound, Records
  <2>5. b \in Records
    <3>1. \A n \in Nat : [a EXCEPT !.failedGen = g, !.stableTimer = FALSE,
                                   !.restartCount = n] \in Records
      BY <2>3 DEF Sound, Records
    <3>. QED  BY <2>4, <3>1
  <2>5a. SameCore(a, b)
    BY <2>3 DEF Sound, Records, SameCore
  <2>. HIDE DEF b
  <2>6. Sound(b) /\ SameWorker(a, b) /\ SameBinding(a, b)
    BY <2>3, <2>5, <2>5a, CoreSound
  <2>7. Sound(c) /\ SameWorker(b, c) /\ SameBinding(b, c)
    BY <2>6, QuietSound DEF States
  <2>. HIDE DEF c
  <2>8. Sound(d) /\ SameWorker(c, d) /\ SameBinding(c, d)
    BY <2>7, RejectSound
  <2>. HIDE DEF d
  <2>9. Sound(Terminate(d, w)) /\ SameWorker(d, Terminate(d, w)) /\ SameBinding(d, Terminate(d, w))
    BY <2>2, <2>8, TerminateSound
  <2>10. SameWorker(r, b) /\ SameBinding(r, b)
    BY <2>3, <2>6, SameTrans
  <2>11. SameWorker(r, d) /\ SameBinding(r, d)
    BY <2>7, <2>8, <2>10, SameTrans
  <2>. QED  BY <2>1, <2>9, <2>11, SameTrans
<1>. QED  BY <1>1, <1>2

(* #spawn starts an attempt only where no process is tracked.               *)
LEMMA SpawnSound ==
    ASSUME NEW r, Sound(r)
    PROVE  Sound(Spawn(r)) /\ SameWorker(r, Spawn(r)) /\ SameBinding(r, Spawn(r))
<1>1. CASE ~MaySpawn(r)
  BY <1>1 DEF Spawn, SameWorker, SameBinding
<1>2. CASE MaySpawn(r) /\ r.attempt # "none"
  <2>1. PICK respawn \in BOOLEAN : Spawn(r) = [r EXCEPT !.respawn = respawn]
    BY <1>2 DEF Spawn
  <2>2. Spawn(r) \in Records
    <3>1. [r EXCEPT !.respawn = respawn] \in Records
      BY DEF Sound, Records
    <3>. QED  BY <2>1, <3>1
  <2>3. SameCore(r, Spawn(r))
    BY <2>1 DEF Sound, Records, SameCore
  <2>. QED  BY <2>2, <2>3, CoreSound
<1>3. CASE MaySpawn(r) /\ r.attempt = "none"
  <2>. DEFINE q == Quiet(r, "starting")
  <2>. DEFINE s == [q EXCEPT !.gen = @ + 1, !.spawnGen = r.gen + 1,
                             !.failedGen = 0, !.refresh = "none"]
  <2>1. Spawn(r) = BoundedCredential(s)
    BY <1>3 DEF Spawn
  <2>2a. Sound(q) /\ SameWorker(r, q) /\ SameBinding(r, q)
    BY QuietSound DEF States
  <2>2b. SameCore(r, q)
    BY DEF Quiet, SameCore, Sound, Records
  <2>2. Sound(q) /\ SameWorker(r, q) /\ SameBinding(r, q) /\ SameCore(r, q)
    BY <2>2a, <2>2b
  <2>. HIDE DEF q
  <2>3. q.gen \in Nat /\ q.gen + 1 \in Nat /\ r.gen = q.gen
    BY <2>2 DEF Sound, Records, SameCore
  <2>4. s \in Records
    BY <2>2, <2>3 DEF Sound, Records
  <2>5. /\ q.lc = "none" /\ ~q.child /\ q.attempt = "none" /\ q.present /\ q.desired
        /\ q.lookup # "open" /\ q.token \in Tokens
    BY <1>3, <2>2 DEF SameCore, MaySpawn, Sound, Shape
  <2>6a. Shape(s)
    <3>1. s.gen = q.gen + 1 /\ s.spawnGen = q.gen + 1 /\ s.childGen = q.childGen
      BY <2>2, <2>3 DEF Sound, Records
    <3>2. q.childGen \in Nat /\ q.childGen <= q.gen
      BY <2>2 DEF Sound, Records, Shape
    <3>3. /\ s.restartTimer = q.restartTimer /\ s.armed = q.armed /\ s.child = q.child
          /\ s.lc = q.lc /\ s.desired = q.desired /\ s.present = q.present /\ s.token = q.token
          /\ s.childToken = q.childToken /\ s.attempt = q.attempt /\ s.lookup = q.lookup
      BY <2>2 DEF Sound, Records
    <3>. HIDE DEF s
    <3>. QED  BY <2>2, <2>3, <2>5, <3>1, <3>2, <3>3 DEF Sound, Shape
  <2>6b. DeletionsSafe(s)
    BY <2>2, <2>3, <2>5 DEF Sound, Records, DeletionsSafe
  <2>7. SameWorker(q, s) /\ SameBinding(q, s)
    BY <2>2 DEF Sound, Records, SameWorker, SameBinding, Alive
  <2>8. /\ s.lc = "none" /\ ~s.child /\ s.attempt = "none" /\ s.present /\ s.desired
        /\ s.lookup # "open" /\ s.token \in Tokens
    BY <2>2, <2>5 DEF Sound, Records
  <2>. HIDE DEF s
  <2>. DEFINE b == BoundedCredential(s)
  <2>9. ASSUME s.lookup = "none" PROVE Sound(b) /\ SameWorker(s, b) /\ SameBinding(s, b)
    <3>1. b = [s EXCEPT !.attempt = "lookup", !.lookup = "open", !.credential = s.token]
      BY <2>9 DEF BoundedCredential
    <3>2. b \in Records
      <4>1. s.token \in Tokens \cup {NoToken} /\ "lookup" \in Attempts
        BY <2>8 DEF Attempts
      <4>2. [s EXCEPT !.attempt = "lookup", !.lookup = "open", !.credential = s.token] \in Records
        BY <2>4, <4>1 DEF Records
      <4>. QED  BY <3>1, <4>2
    <3>3. Shape(b)
      BY <2>4, <2>6a, <2>8, <3>1 DEF Records, Shape
    <3>4. DeletionsSafe(b)
      BY <2>4, <2>6b, <2>8, <3>1 DEF Records, DeletionsSafe
    <3>5. SameWorker(s, b) /\ SameBinding(s, b)
      BY <2>4, <3>1 DEF Records, SameWorker, SameBinding, Alive
    <3>. QED  BY <3>2, <3>3, <3>4, <3>5 DEF Sound
  <2>10. ASSUME s.lookup # "none" PROVE Sound(b) /\ SameWorker(s, b) /\ SameBinding(s, b)
    <3>1. b = [s EXCEPT !.attempt = "refused"]
      BY <2>8, <2>10 DEF BoundedCredential
    <3>2. b \in Records
      <4>1. "refused" \in Attempts
        BY DEF Attempts
      <4>2. [s EXCEPT !.attempt = "refused"] \in Records
        BY <2>4, <4>1 DEF Records
      <4>. QED  BY <3>1, <4>2
    <3>3. Shape(b)
      BY <2>4, <2>6a, <2>8, <3>1 DEF Records, Shape
    <3>4. DeletionsSafe(b)
      BY <2>4, <2>6b, <2>8, <3>1 DEF Records, DeletionsSafe
    <3>5. SameWorker(s, b) /\ SameBinding(s, b)
      BY <2>4, <3>1 DEF Records, SameWorker, SameBinding, Alive
    <3>. QED  BY <3>2, <3>3, <3>4, <3>5 DEF Sound
  <2>11. Sound(b) /\ SameWorker(s, b) /\ SameBinding(s, b)
    BY <2>9, <2>10
  <2>12. SameWorker(r, s) /\ SameBinding(r, s)
    BY <2>2, <2>7, SameTrans
  <2>. QED  BY <2>1, <2>11, <2>12, SameTrans
<1>. QED  BY <1>1, <1>2, <1>3

(* #cancelLifecycleTimers, #rejectPending, the new state and #terminate,   *)
(* as restarts, removals and the disposal call them one after the other.   *)
LEMMA RetireSound ==
    ASSUME NEW r, Sound(r), NEW state \in States, NEW w \in Reactions,
           Deletes(w) => r.spawnGen < r.gen
    PROVE  LET s == Terminate(RejectPending(Quiet(CancelLifecycleTimers(r), state)), w)
               t == Terminate(Quiet(RejectPending(CancelLifecycleTimers(r)), state), w)
               u == Terminate(RejectPending(CancelLifecycleTimers(r)), w)
           IN  /\ Sound(s) /\ SameWorker(r, s) /\ SameBinding(r, s)
               /\ Sound(t) /\ SameWorker(r, t) /\ SameBinding(r, t)
               /\ Sound(u) /\ SameWorker(r, u) /\ SameBinding(r, u)
<1>. DEFINE a == CancelLifecycleTimers(r)
<1>. DEFINE b == Quiet(a, state)
<1>. DEFINE c == RejectPending(b)
<1>. DEFINE d == RejectPending(a)
<1>. DEFINE e == Quiet(d, state)
<1>0. r \in Records
  BY DEF Sound
<1>1. Sound(a) /\ SameWorker(r, a) /\ SameBinding(r, a)
  BY LifecycleTimersSound
<1>1a. a.spawnGen = r.spawnGen /\ a.gen = r.gen
  BY <1>0 DEF CancelLifecycleTimers, CancelStartupTimers, Records
<1>. HIDE DEF a
<1>2. Sound(b) /\ SameWorker(a, b) /\ SameBinding(a, b)
  BY <1>1, QuietSound
<1>2a. b.spawnGen = a.spawnGen /\ b.gen = a.gen
  BY <1>1 DEF Quiet, Sound, Records
<1>. HIDE DEF b
<1>3. Sound(c) /\ SameWorker(b, c) /\ SameBinding(b, c)
  BY <1>2, RejectSound
<1>3a. c.spawnGen = b.spawnGen /\ c.gen = b.gen
  BY <1>2 DEF RejectPending, Sound, Records
<1>. HIDE DEF c
<1>4. Sound(d) /\ SameWorker(a, d) /\ SameBinding(a, d)
  BY <1>1, RejectSound
<1>4a. d.spawnGen = a.spawnGen /\ d.gen = a.gen
  BY <1>1 DEF RejectPending, Sound, Records
<1>. HIDE DEF d
<1>5. Sound(e) /\ SameWorker(d, e) /\ SameBinding(d, e)
  BY <1>4, QuietSound
<1>5a. e.spawnGen = d.spawnGen /\ e.gen = d.gen
  BY <1>4 DEF Quiet, Sound, Records
<1>. HIDE DEF e
<1>6. \A x : SameWorker(c, x) /\ SameBinding(c, x) => SameWorker(r, x) /\ SameBinding(r, x)
  BY <1>1, <1>2, <1>3 DEF SameWorker, SameBinding
<1>7. \A x : SameWorker(e, x) /\ SameBinding(e, x) => SameWorker(r, x) /\ SameBinding(r, x)
  BY <1>1, <1>4, <1>5 DEF SameWorker, SameBinding
<1>8. \A x : SameWorker(d, x) /\ SameBinding(d, x) => SameWorker(r, x) /\ SameBinding(r, x)
  BY <1>1, <1>4 DEF SameWorker, SameBinding
<1>9. LET s == Terminate(c, w) IN Sound(s) /\ SameWorker(r, s) /\ SameBinding(r, s)
  BY <1>1a, <1>2a, <1>3, <1>3a, <1>6, TerminateSound
<1>10. LET t == Terminate(e, w) IN Sound(t) /\ SameWorker(r, t) /\ SameBinding(r, t)
  BY <1>1a, <1>4a, <1>5, <1>5a, <1>7, TerminateSound
<1>11. LET u == Terminate(d, w) IN Sound(u) /\ SameWorker(r, u) /\ SameBinding(r, u)
  BY <1>1a, <1>4, <1>4a, <1>8, TerminateSound
<1>. QED  BY <1>9, <1>10, <1>11 DEF a, b, c, d, e

(* #restartRecord terminates before it spawns.                              *)
LEMMA RestartSound ==
    ASSUME NEW r, Sound(r), NEW queue \in BOOLEAN
    PROVE  LET s == RestartRecord(r, queue)
           IN  Sound(s) /\ SameWorker(r, s) /\ SameBinding(r, s)
<1>1. CASE r.restart # "none"
  <2>1. PICK requeue \in BOOLEAN : RestartRecord(r, queue) = [r EXCEPT !.requeue = requeue]
    BY <1>1 DEF RestartRecord, Sound, Records
  <2>2. [r EXCEPT !.requeue = requeue] \in Records
    BY DEF Sound, Records
  <2>3. SameCore(r, [r EXCEPT !.requeue = requeue])
    BY DEF Sound, Records, SameCore
  <2>. QED  BY <2>1, <2>2, <2>3, CoreSound
<1>2. CASE r.restart = "none"
  <2>. DEFINE w == [Reaction("restart") EXCEPT !.gen = r.gen + 1]
  <2>. DEFINE a == [r EXCEPT !.gen = @ + 1]
  <2>. DEFINE b == [a EXCEPT !.restart = "terminate"]
  <2>1. w \in Reactions /\ ~Deletes(w)
    <3>1. r.gen + 1 \in Nat
      BY DEF Sound, Records
    <3>. QED  BY <3>1 DEF Reaction, Reactions, Kinds, Deletes
  <2>2. Sound(a) /\ SameWorker(r, a) /\ SameBinding(r, a)
    BY BumpSound
  <2>3. [r EXCEPT !.gen = @ + 1, !.restart = "terminate"] = b
    OBVIOUS
  <2>. HIDE DEF a
  <2>4. b \in Records
    BY <2>2 DEF Sound, Records, Restarts
  <2>5. SameCore(a, b)
    BY <2>2 DEF Sound, Records, SameCore
  <2>. HIDE DEF b, w
  <2>6. Sound(b) /\ SameWorker(a, b) /\ SameBinding(a, b)
    BY <2>2, <2>4, <2>5, CoreSound
  <2>. DEFINE s == Terminate(RejectPending(Quiet(CancelLifecycleTimers(b), "backoff")), w)
  <2>7. Sound(s) /\ SameWorker(b, s) /\ SameBinding(b, s)
    BY <2>1, <2>6, RetireSound DEF States
  <2>8. RestartRecord(r, queue) = s
    BY <1>2, <2>3 DEF RestartRecord, PerformRestart, w
  <2>9. SameWorker(r, b) /\ SameBinding(r, b)
    BY <2>2, <2>6, SameTrans
  <2>. QED  BY <2>7, <2>8, <2>9, SameTrans
<1>. QED  BY <1>1, <1>2

(* So does the spawn a restart awaits.                                      *)
LEMMA AwaitSpawnSound ==
    ASSUME NEW r, Sound(r)
    PROVE  LET s == AwaitSpawn(r) IN Sound(s) /\ SameWorker(r, s) /\ SameBinding(r, s)
<1>1. \A a, x : Sound(a) /\ x \in Restarts =>
          LET b == [a EXCEPT !.restart = x] IN Sound(b) /\ SameWorker(a, b) /\ SameBinding(a, b)
  <2>. TAKE a, x
  <2>. HAVE Sound(a) /\ x \in Restarts
  <2>1. [a EXCEPT !.restart = x] \in Records
    BY DEF Sound, Records
  <2>2. SameCore(a, [a EXCEPT !.restart = x])
    BY DEF Sound, Records, SameCore
  <2>. QED  BY <2>1, <2>2, CoreSound
<1>2. CASE ~MaySpawn(r)
  BY <1>1, <1>2 DEF AwaitSpawn, Restarts
<1>3. CASE MaySpawn(r)
  <2>1. PICK x \in {"chain", "spawn"} : AwaitSpawn(r) = [Spawn(r) EXCEPT !.restart = x]
    BY <1>3 DEF AwaitSpawn
  <2>2. Sound(Spawn(r)) /\ SameWorker(r, Spawn(r)) /\ SameBinding(r, Spawn(r))
    BY SpawnSound
  <2>3. x \in Restarts
    BY DEF Restarts
  <2>. DEFINE s == [Spawn(r) EXCEPT !.restart = x]
  <2>4. Sound(s) /\ SameWorker(Spawn(r), s) /\ SameBinding(Spawn(r), s)
    BY <1>1, <2>2, <2>3
  <2>. QED  BY <2>1, <2>2, <2>4, SameTrans
<1>. QED  BY <1>2, <1>3

-----------------------------------------------------------------------------
(* What the public methods and the events do to a record.                  *)

(* A binding that is given up gets a generation no spawn has.               *)
LEMMA UndesiredSound ==
    ASSUME NEW r, Sound(r), NEW x \in BOOLEAN
    PROVE  LET s == [r EXCEPT !.desired = FALSE, !.gen = @ + 1, !.removeWhenReaped = x]
           IN  Sound(s) /\ SameWorker(r, s) /\ s.spawnGen < s.gen
<1>. DEFINE a == [r EXCEPT !.gen = @ + 1]
<1>. DEFINE s == [a EXCEPT !.desired = FALSE, !.removeWhenReaped = x]
<1>1. Sound(a) /\ SameWorker(r, a) /\ a.spawnGen < a.gen
  BY BumpSound
<1>2. [r EXCEPT !.desired = FALSE, !.gen = @ + 1, !.removeWhenReaped = x] = s
  BY DEF Sound, Records
<1>. HIDE DEF a
<1>3. s \in Records
  BY <1>1 DEF Sound, Records
<1>4. Shape(s)
  BY <1>1 DEF Sound, Records, Shape
<1>5. DeletionsSafe(s)
  BY <1>1 DEF Sound, Records, DeletionsSafe
<1>6. SameWorker(a, s) /\ s.spawnGen < s.gen
  BY <1>1 DEF Sound, Records, SameWorker, Alive
<1>7. SameWorker(r, s)
  BY <1>1, <1>6 DEF SameWorker
<1>. QED  BY <1>2, <1>3, <1>4, <1>5, <1>6, <1>7 DEF Sound

(* A removal keeps track of its process.                                    *)
LEMMA RemoveSound ==
    ASSUME NEW r, Sound(r), NEW c \in Calls
    PROVE  Sound(RemoveRecord(r, c)) /\ SameWorker(r, RemoveRecord(r, c))
<1>. DEFINE w == [Reaction("remove") EXCEPT !.call = c]
<1>. DEFINE s == [r EXCEPT !.desired = FALSE, !.gen = @ + 1, !.removeWhenReaped = TRUE]
<1>. DEFINE t == Terminate(Quiet(RejectPending(CancelLifecycleTimers(s)), "stopped"), w)
<1>1. w \in Reactions
  BY DEF Reaction, Reactions, Kinds
<1>2. Sound(s) /\ SameWorker(r, s) /\ s.spawnGen < s.gen
  BY UndesiredSound
<1>3. RemoveRecord(r, c) = t
  BY DEF RemoveRecord
<1>. HIDE DEF s, w
<1>4. Sound(t) /\ SameWorker(s, t)
  BY <1>1, <1>2, RetireSound DEF States
<1>. QED  BY <1>2, <1>3, <1>4 DEF SameWorker

(* So does stop().                                                          *)
LEMMA StopSound ==
    ASSUME NEW r, Sound(r)
    PROVE  LET s == Terminate(RejectPending(CancelLifecycleTimers([r EXCEPT
                       !.desired = FALSE, !.gen = @ + 1, !.removeWhenReaped = FALSE])),
                       Reaction("stop"))
           IN  Sound(s) /\ SameWorker(r, s)
<1>. DEFINE w == Reaction("stop")
<1>. DEFINE s == [r EXCEPT !.desired = FALSE, !.gen = @ + 1, !.removeWhenReaped = FALSE]
<1>. DEFINE t == Terminate(RejectPending(CancelLifecycleTimers(s)), w)
<1>1. w \in Reactions
  BY DEF Reaction, Reactions, Kinds
<1>2. Sound(s) /\ SameWorker(r, s) /\ s.spawnGen < s.gen
  BY UndesiredSound
<1>. HIDE DEF s, w
<1>3. "stopped" \in States
  BY DEF States
<1>4. Sound(t) /\ SameWorker(s, t)
  BY <1>1, <1>2, <1>3, RetireSound
<1>. QED  BY <1>2, <1>4 DEF SameWorker, s, w

(* A cancelled lookup refuses the spawn that awaits it.                     *)
LEMMA CancelLookupSound ==
    ASSUME NEW r, Sound(r)
    PROVE  LET s == CancelLookup(r)
           IN  Sound(s) /\ SameWorker(r, s) /\ SameBinding(r, s)
               /\ s.spawnGen = r.spawnGen /\ s.gen = r.gen
<1>1. CASE r.lookup # "open"
  BY <1>1 DEF CancelLookup, SameWorker, SameBinding
<1>2. CASE r.lookup = "open"
  <2>. DEFINE s == [r EXCEPT !.lookup = "blocked", !.attempt = "refused"]
  <2>1. CancelLookup(r) = s
    BY <1>2 DEF CancelLookup
  <2>2. s \in Records
    BY DEF Sound, Records, Attempts
  <2>3. Shape(s)
    BY <1>2 DEF Sound, Records, Shape
  <2>4. DeletionsSafe(s)
    BY DEF Sound, Records, DeletionsSafe
  <2>5. SameWorker(r, s) /\ SameBinding(r, s) /\ s.spawnGen = r.spawnGen /\ s.gen = r.gen
    BY DEF Sound, Records, SameWorker, SameBinding, Alive
  <2>. QED  BY <2>1, <2>2, <2>3, <2>4, <2>5 DEF Sound
<1>. QED  BY <1>1, <1>2

(* dispose() keeps track of the processes it terminates.                    *)
LEMMA DisposeSound ==
    ASSUME NEW r, Sound(r)
    PROVE  Sound(DisposeRecord(r)) /\ SameWorker(r, DisposeRecord(r))
<1>. DEFINE w == Reaction("dispose")
<1>. DEFINE s == [r EXCEPT !.desired = FALSE, !.gen = @ + 1, !.removeWhenReaped = TRUE]
<1>. DEFINE c == CancelLookup(s)
<1>. DEFINE t == Terminate(Quiet(RejectPending(CancelLifecycleTimers(c)), "stopped"), w)
<1>1. w \in Reactions
  BY DEF Reaction, Reactions, Kinds
<1>2. Sound(s) /\ SameWorker(r, s) /\ s.spawnGen < s.gen
  BY UndesiredSound
<1>3. DisposeRecord(r) = t
  BY DEF DisposeRecord
<1>. HIDE DEF s, w
<1>4. Sound(c) /\ SameWorker(s, c) /\ c.spawnGen < c.gen
  BY <1>2, CancelLookupSound
<1>. HIDE DEF c
<1>5. Sound(t) /\ SameWorker(c, t)
  BY <1>1, <1>4, RetireSound DEF States
<1>. QED  BY <1>2, <1>3, <1>4, <1>5 DEF SameWorker

(* reconcile() keeps the worker of a binding it adds or changes.            *)
LEMMA ReaddSound ==
    ASSUME NEW r, Sound(r), NEW token \in Tokens
    PROVE  Sound(Readd(r, token)) /\ SameWorker(r, Readd(r, token))
<1>1. CASE ~r.present
  <2>. DEFINE n == NewRecord(token)
  <2>. DEFINE s == [n EXCEPT !.micro = r.micro]
  <2>1. Sound(n) /\ ~Alive(n) /\ n.lc = "none" /\ n.attempt # "granted"
    BY NewRecordSound DEF NewRecord
  <2>2. Readd(r, token) = Spawn(s)
    BY <1>1 DEF Readd
  <2>3. r.micro \in Seq(Reactions)
    BY DEF Sound, Records
  <2>. HIDE DEF n
  <2>4. Sound(s) /\ SameWorker(n, s)
    BY <2>1, <2>3, MicroSound
  <2>. HIDE DEF s
  <2>5. Sound(Spawn(s)) /\ SameWorker(s, Spawn(s))
    BY <2>4, SpawnSound
  <2>6. ~Alive(r)
    BY <1>1 DEF Alive, Sound, Shape
  <2>. QED  BY <2>1, <2>2, <2>4, <2>5, <2>6 DEF SameWorker
<1>2. CASE r.present
  <2>. DEFINE g == IF r.token # token THEN r.gen + 1 ELSE r.gen
  <2>. DEFINE kept == [r EXCEPT !.token = token, !.desired = TRUE, !.removeWhenReaped = FALSE,
                                !.gen = g]
  <2>1. g \in Nat /\ g >= r.gen /\ (g = r.gen => r.token = token)
    BY DEF Sound, Records
  <2>. HIDE DEF g
  <2>2. kept \in Records
    BY <2>1 DEF Sound, Records
  <2>3. Shape(kept)
    <3>1. kept.gen = g /\ kept.token = token /\ kept.desired /\ kept.present
      BY <1>2 DEF Sound, Records
    <3>2. /\ kept.restartTimer = r.restartTimer /\ kept.armed = r.armed /\ kept.child = r.child
          /\ kept.lc = r.lc /\ kept.childToken = r.childToken /\ kept.attempt = r.attempt
          /\ kept.lookup = r.lookup /\ kept.credential = r.credential
          /\ kept.spawnGen = r.spawnGen /\ kept.childGen = r.childGen
      BY DEF Sound, Records
    <3>3. r.spawnGen \in Nat /\ r.childGen \in Nat /\ r.gen \in Nat
      BY DEF Sound, Records
    <3>. HIDE DEF kept
    <3>. QED  BY <2>1, <3>1, <3>2, <3>3 DEF Sound, Shape
  <2>4. DeletionsSafe(kept)
    <3>1. kept.micro = r.micro /\ kept.lc = r.lc /\ kept.attempt = r.attempt
          /\ kept.spawnGen = r.spawnGen /\ kept.gen = g
      BY DEF Sound, Records
    <3>2. r.spawnGen \in Nat /\ r.gen \in Nat
      BY DEF Sound, Records
    <3>. HIDE DEF kept
    <3>. QED  BY <2>1, <3>1, <3>2 DEF Sound, DeletionsSafe
  <2>5. SameWorker(r, kept)
    BY DEF Sound, Records, SameWorker, Alive
  <2>6. kept.waiters = r.waiters
    BY DEF Sound, Records
  <2>7. \/ Readd(r, token) = kept
        \/ Readd(r, token) = [kept EXCEPT !.waiters = Append(@, Reaction("readd"))]
        \/ Readd(r, token) = RestartRecord(kept, TRUE)
        \/ Readd(r, token) = Spawn(kept)
    <3>1. kept = Rebound(r, token)
      BY DEF Rebound, g
    <3>. HIDE DEF kept
    <3>. QED  BY <1>2, <3>1 DEF Readd
  <2>. HIDE DEF kept
  <2>8. Sound(kept)
    BY <2>2, <2>3, <2>4 DEF Sound
  <2>9. LET s == [kept EXCEPT !.waiters = Append(@, Reaction("readd"))]
        IN  Sound(s) /\ SameWorker(kept, s)
    <3>. DEFINE q == Append(kept.waiters, Reaction("readd"))
    <3>. DEFINE s == [kept EXCEPT !.waiters = q]
    <3>1. q \in Seq(Reactions)
      <4>1. Reaction("readd") \in Reactions
        BY DEF Reaction, Reactions, Kinds
      <4>. QED  BY <2>2, <4>1 DEF Records
    <3>. HIDE DEF q
    <3>2. s \in Records
      BY <2>2, <3>1, WaitersType
    <3>3. SameCore(kept, s)
      BY <2>2 DEF Records, SameCore
    <3>4. Sound(s) /\ SameWorker(kept, s)
      BY <2>8, <3>2, <3>3, CoreSound
    <3>. QED  BY <3>4 DEF q
  <2>10. Sound(RestartRecord(kept, TRUE)) /\ SameWorker(kept, RestartRecord(kept, TRUE))
    BY <2>8, RestartSound
  <2>11. Sound(Spawn(kept)) /\ SameWorker(kept, Spawn(kept))
    BY <2>8, SpawnSound
  <2>. QED  BY <2>5, <2>7, <2>8, <2>9, <2>10, <2>11 DEF SameWorker
<1>. QED  BY <1>1, <1>2 DEF Sound, Records

(* A credential that the generation still owns starts the one worker.      *)
LEMMA TrackedSound ==
    ASSUME NEW r, Sound(r), r.attempt = "granted", OwnsGeneration(r, r.spawnGen)
    PROVE  LET s == Tracked([r EXCEPT !.attempt = "over"])
           IN  /\ Sound(s) /\ SameBinding(r, s) /\ s.spawnGen = r.spawnGen
               /\ ~Alive(r) /\ Alive(s) /\ r.desired /\ s.childToken = r.token
<1>. DEFINE a == [r EXCEPT !.attempt = "over"]
<1>. DEFINE s == Tracked(a)
<1>1. r.gen = r.spawnGen /\ r.present /\ r.desired
  BY DEF OwnsGeneration
<1>2. r.lc = "none" /\ r.credential \in Tokens /\ r.credential = r.token
  BY <1>1 DEF Sound, Shape
<1>3. a \in Records
  BY DEF Sound, Records, Attempts
<1>4. /\ a.attempt = "over" /\ a.spawnGen = r.spawnGen /\ a.gen = r.gen /\ a.micro = r.micro
      /\ a.credential = r.credential /\ a.token = r.token /\ a.desired = r.desired
      /\ a.present = r.present /\ a.lookup = r.lookup /\ a.restartTimer = r.restartTimer
      /\ a.armed = r.armed
  BY DEF Sound, Records
<1>. HIDE DEF a
<1>5. s \in Records
  <2>1. a.spawnGen \in Nat /\ a.credential \in Tokens \cup {NoToken} /\ "tracked" \in Lifecycles
    BY <1>3 DEF Records, Lifecycles
  <2>. QED  BY <1>3, <2>1 DEF Tracked, Records
<1>6. /\ s.attempt = "over" /\ s.spawnGen = a.spawnGen /\ s.gen = a.gen /\ s.micro = a.micro
      /\ s.token = a.token /\ s.desired = a.desired /\ s.present = a.present
      /\ s.lookup = a.lookup /\ s.restartTimer = a.restartTimer /\ s.armed = a.armed
      /\ s.child /\ s.lc = "tracked" /\ ~s.exited
      /\ s.childGen = a.spawnGen /\ s.childToken = a.credential
  BY <1>3, <1>4 DEF Tracked, Records
<1>. HIDE DEF s
<1>7. Shape(s)
  BY <1>1, <1>2, <1>4, <1>6 DEF Sound, Shape
<1>8. DeletionsSafe(s)
  <2>1. r.gen \in Nat /\ r.spawnGen \in Nat
    BY DEF Sound, Records
  <2>. QED  BY <1>1, <1>4, <1>6, <2>1 DEF Sound, DeletionsSafe
<1>9. Sound(s) /\ SameBinding(r, s) /\ s.spawnGen = r.spawnGen
  BY <1>4, <1>5, <1>6, <1>7, <1>8 DEF Sound, SameBinding
<1>10. ~Alive(r) /\ Alive(s) /\ s.childToken = r.token
  BY <1>2, <1>4, <1>6 DEF Alive
<1>. QED  BY <1>1, <1>9, <1>10 DEF s, a

(* #removeBuffered leaves a buffer of requests.                             *)
LEMMA RemoveBufferedType ==
    ASSUME NEW b \in Seq(Requests), NEW q PROVE RemoveBuffered(b, q) \in Seq(Requests)
<1>1. CASE ~\E i \in 1..Len(b) : b[i] = q
  BY <1>1 DEF RemoveBuffered
<1>2. CASE \E i \in 1..Len(b) : b[i] = q
  <2>. DEFINE i == CHOOSE i \in 1..Len(b) : b[i] = q
  <2>1. i \in 1..Len(b)
    BY <1>2
  <2>2. RemoveBuffered(b, q) = SubSeq(b, 1, i - 1) \o SubSeq(b, i + 1, Len(b))
    BY <1>2 DEF RemoveBuffered
  <2>. HIDE DEF i
  <2>3. SubSeq(b, 1, i - 1) \in Seq(Requests) /\ SubSeq(b, i + 1, Len(b)) \in Seq(Requests)
    BY <2>1
  <2>. QED  BY <2>2, <2>3
<1>. QED  BY <1>1, <1>2

(* Settling a request leaves worker and binding alone.                      *)
LEMMA ForgetSound ==
    ASSUME NEW r, Sound(r), NEW q
    PROVE  LET s == Forget(r, q) IN Sound(s) /\ SameWorker(r, s) /\ SameBinding(r, s)
<1>1. RemoveBuffered(r.buffer, q) \in Seq(Requests) /\ r.pending \ {q} \in SUBSET Requests
  BY RemoveBufferedType DEF Sound, Records
<1>2. Forget(r, q) \in Records
  BY <1>1 DEF Forget, Sound, Records
<1>3. SameCore(r, Forget(r, q))
  BY DEF Forget, Sound, Records, SameCore
<1>. QED  BY <1>2, <1>3, CoreSound

(* The exit of the tracked process, whatever the supervisor was doing.     *)
LEMMA ExitedSound ==
    ASSUME NEW r, Sound(r), Alive(r)
    PROVE  LET s == Exited(r)
           IN  Sound(s) /\ ~Alive(s) /\ (s.desired <=> r.desired) /\ (r.desired => SameBinding(r, s))
<1>1. CASE r.lc = "abandoned"
  <2>. DEFINE f == ReleaseLifecycle(r)
  <2>1. Sound(f) /\ SameBinding(r, f)
    BY <1>1, ReleaseSound
  <2>2. ~Alive(f) /\ f.desired = r.desired
    BY <2>1 DEF ReleaseLifecycle, Alive, Sound, Records, SameBinding
  <2>3. Exited(r) = IF f.removeWhenReaped /\ ~f.desired THEN Delete(f) ELSE f
    BY <1>1 DEF Exited, Terminating
  <2>. HIDE DEF f
  <2>. QED  BY <2>1, <2>2, <2>3, DeleteSound DEF SameBinding
<1>. DEFINE e == [r EXCEPT !.exited = TRUE]
<1>2. e \in Records
  BY DEF Sound, Records
<1>3. Shape(e)
  BY DEF Sound, Records, Shape
<1>4. DeletionsSafe(e)
  BY DEF Sound, Records, DeletionsSafe
<1>5. SameBinding(r, e) /\ ~Alive(e)
  BY DEF Sound, Records, SameBinding, Alive
<1>6. CASE r.lc # "abandoned"
  <2>1. Exited(r) \in {e, FailRecord(e, r.childGen)}
    BY <1>6 DEF Exited, Terminating
  <2>2. r.childGen \in Nat
    BY DEF Sound, Records
  <2>. HIDE DEF e
  <2>3. Sound(e)
    BY <1>2, <1>3, <1>4 DEF Sound
  <2>4. LET s == FailRecord(e, r.childGen)
        IN  Sound(s) /\ SameWorker(e, s) /\ SameBinding(e, s)
    BY <2>2, <2>3, FailSound
  <2>. QED  BY <1>5, <2>1, <2>3, <2>4 DEF SameWorker, SameBinding
<1>. QED  BY <1>1, <1>6

-----------------------------------------------------------------------------
(* Steps.                                                                  *)

(* The inductive invariant: the records are sound, and the processes that  *)
(* were started and did not exit are exactly those that records track.     *)
Inv ==
    /\ TypeOK
    /\ \A k \in Keys : Sound(rec[k])
    /\ \A k \in Keys : live[k] = IF Alive(rec[k]) THEN 1 ELSE 0

(* From r to s the record stays sound and keeps its worker.                *)
Keeps(r, s) == Sound(s) /\ SameWorker(r, s)

(* A step that starts no worker and sees none exit.                        *)
Steady ==
    /\ disposed => disposed'
    /\ \A k \in Keys : SameWorker(rec[k], rec'[k])

(* The two steps that do.                                                  *)
Bound(r) == IF r.desired THEN r.token ELSE NoToken

OthersSame(k) ==
    /\ disposed' = disposed
    /\ \A j \in Keys : Bound(rec'[j]) = Bound(rec[j])
    /\ \A j \in Keys \ {k} : SameWorker(rec[j], rec'[j])

Started(k) ==
    /\ ~disposed /\ OthersSame(k)
    /\ ~Alive(rec[k]) /\ Alive(rec'[k])
    /\ rec[k].desired /\ rec'[k].childToken = rec[k].token

Ended(k) == OthersSame(k) /\ Alive(rec[k]) /\ ~Alive(rec'[k])

(* What a step does to the variables the processes do not depend on.       *)
OthersTyped ==
    /\ disposed' \in BOOLEAN
    /\ calls' \in [Calls -> [active : BOOLEAN, failed : BOOLEAN,
                             want : Wanted, waiting : SUBSET Keys]]
    /\ wire' \in [Keys -> Seq(Requests)]
    /\ made' \in Nat
    /\ sequence' \in 0..MaxRequests

(* Keeping the worker is transitive along a composition of helpers.        *)
LEMMA KeepsTrans ==
    ASSUME NEW r, NEW s, NEW t, SameWorker(r, s), Keeps(s, t)
    PROVE  Keeps(r, t)
BY DEF Keeps, SameWorker

(* A step that keeps every record sound, and its worker, is steady.        *)
LEMMA SteadyStep ==
    ASSUME Inv, OthersTyped, disposed => disposed', live' = live,
           rec' \in [Keys -> Records], \A k \in Keys : Keeps(rec[k], rec'[k])
    PROVE  Inv' /\ Steady
<1>1. TypeOK'
  BY DEF Inv, TypeOK, OthersTyped
<1>2. \A k \in Keys : Sound(rec'[k]) /\ SameWorker(rec[k], rec'[k])
  BY DEF Keeps
<1>3. \A k \in Keys : live'[k] = IF Alive(rec'[k]) THEN 1 ELSE 0
  BY <1>2 DEF Inv, SameWorker
<1>. QED  BY <1>1, <1>2, <1>3 DEF Inv, Steady

(* So is a step that changes one record and other variables.               *)
LEMMA RecordStep ==
    ASSUME Inv, NEW k \in Keys, NEW r, rec' = [rec EXCEPT ![k] = r], Keeps(rec[k], r),
           OthersTyped, disposed => disposed', live' = live
    PROVE  Inv' /\ Steady
<1>1. rec \in [Keys -> Records] /\ r \in Records
  BY DEF Inv, TypeOK, Keeps, Sound
<1>2. rec' \in [Keys -> Records]
  BY <1>1
<1>3. \A j \in Keys : Sound(rec[j]) /\ SameWorker(rec[j], rec[j])
  BY DEF Inv, SameWorker
<1>4. \A j \in Keys : Keeps(rec[j], rec'[j])
  BY <1>1, <1>3 DEF Keeps
<1>. QED  BY <1>2, <1>4, SteadyStep

(* The variables that a step leaves alone stay typed.                       *)
LEMMA Unchanged ==
    ASSUME Inv, UNCHANGED <<disposed, calls, wire, made, sequence>>
    PROVE  OthersTyped
BY DEF Inv, TypeOK, OthersTyped

(* A reaction or timer that only changes its record is steady.              *)
LEMMA BecomesStep ==
    ASSUME Inv, NEW k \in Keys, NEW r, Becomes(k, r), Keeps(rec[k], r)
    PROVE  Inv' /\ Steady
<1>1. OthersTyped
  BY Unchanged DEF Becomes
<1>. QED  BY <1>1, RecordStep DEF Becomes

(* The head of the queue runs and leaves it.                               *)
LEMMA PoppedSound ==
    ASSUME Inv, NEW k \in Keys, rec[k].micro # <<>>
    PROVE  /\ Keeps(rec[k], Popped(k)) /\ SameBinding(rec[k], Popped(k))
           /\ Reacting(k) \in Reactions
           /\ Deletes(Reacting(k)) => ~Alive(rec[k])
<1>. DEFINE r == rec[k]
<1>1. Sound(r)
  BY DEF Inv
<1>2. r.micro \in Seq(Reactions)
  BY <1>1 DEF Sound, Records
<1>. DEFINE q == Tail(r.micro)
<1>3. q \in Seq(Reactions) /\ Len(q) = Len(r.micro) - 1 /\ \A i \in 1..Len(q) : q[i] = r.micro[i + 1]
  BY <1>2
<1>4. \A i \in 1..Len(q) : i + 1 \in 1..Len(r.micro)
  BY <1>2, <1>3
<1>5. 1 \in 1..Len(r.micro) /\ Reacting(k) = r.micro[1]
  BY <1>2 DEF Reacting
<1>6. Popped(k) = [r EXCEPT !.micro = q]
  BY DEF Popped
<1>. HIDE DEF r, q
<1>7. \A i \in 1..Len(q) : Deletes(q[i]) =>
         r.lc = "none" /\ (r.attempt = "granted" => r.spawnGen < r.gen)
  BY <1>1, <1>3, <1>4 DEF Sound, DeletionsSafe
<1>8. Sound(Popped(k)) /\ SameWorker(r, Popped(k)) /\ SameBinding(r, Popped(k))
  BY <1>1, <1>3, <1>6, <1>7, MicroSound
<1>9. Reacting(k) \in Reactions /\ (Deletes(Reacting(k)) => ~Alive(r))
  BY <1>1, <1>2, <1>5 DEF Sound, DeletionsSafe, Alive
<1>. QED  BY <1>8, <1>9 DEF r, Keeps

(* Timer flags, counters and request queues do not matter to the worker.   *)
LEMMA CoreKeeps ==
    ASSUME NEW r, Sound(r), NEW s \in Records, SameCore(r, s)
    PROVE  Keeps(r, s)
BY CoreSound DEF Keeps

(* #failRecord after another change.                                        *)
LEMMA FailKeeps ==
    ASSUME NEW r, NEW s, NEW g \in Nat, Keeps(r, s)
    PROVE  Keeps(r, FailRecord(s, g))
BY FailSound DEF Keeps, SameWorker

(* #spawn after another change.                                             *)
LEMMA SpawnKeeps ==
    ASSUME NEW r, NEW s, Keeps(r, s)
    PROVE  Keeps(r, Spawn(s))
BY SpawnSound DEF Keeps, SameWorker

(* An awaited spawn after another change.                                   *)
LEMMA AwaitSpawnKeeps ==
    ASSUME NEW r, NEW s, Keeps(r, s)
    PROVE  Keeps(r, AwaitSpawn(s))
BY AwaitSpawnSound DEF Keeps, SameWorker

(* #restartRecord after another change.                                     *)
LEMMA RestartKeeps ==
    ASSUME NEW r, NEW s, NEW queue \in BOOLEAN, Keeps(r, s)
    PROVE  Keeps(r, RestartRecord(s, queue))
BY RestartSound DEF Keeps, SameWorker

(* Deleting a record whose worker is gone.                                 *)
LEMMA DeleteKeeps ==
    ASSUME NEW r, NEW s, Keeps(r, s), ~Alive(r)
    PROVE  Keeps(r, Delete(s))
BY DeleteSound DEF Keeps, SameWorker

(* The progress of a restart does not matter to the worker.                 *)
LEMMA RestartFieldKeeps ==
    ASSUME NEW r, NEW s, Keeps(r, s), NEW x \in Restarts
    PROVE  Keeps(r, [s EXCEPT !.restart = x])
<1>. DEFINE t == [s EXCEPT !.restart = x]
<1>1. t \in Records
  BY DEF Keeps, Sound, Records
<1>2. SameCore(s, t)
  BY DEF Keeps, Sound, Records, SameCore
<1>. QED  BY <1>1, <1>2, CoreSound, KeepsTrans DEF Keeps

(* The reactions to terminations.                                          *)
LEMMA OnStoppedStep == ASSUME Inv, NEW k \in Keys, OnStopped(k) PROVE Inv' /\ Steady
<1>1. Keeps(rec[k], Popped(k))
  BY PoppedSound DEF OnStopped, At
<1>2. Keeps(rec[k], Quiet(Popped(k), "stopped"))
  BY <1>1, QuietSound DEF Keeps, SameWorker, States
<1>. QED  BY <1>2, BecomesStep DEF OnStopped

(* A reaction of a record that is gone changes nothing.                     *)
LEMMA OnVoidStep == ASSUME Inv, NEW k \in Keys, OnVoid(k) PROVE Inv' /\ Steady
<1>1. Keeps(rec[k], Popped(k))
  BY PoppedSound DEF OnVoid, At
<1>. QED  BY <1>1, BecomesStep DEF OnVoid

(* The end of a removal forgets no process.                                 *)
LEMMA OnRemovedStep == ASSUME Inv, NEW k \in Keys, OnRemoved(k) PROVE Inv' /\ Steady
<1>. DEFINE m == Reacting(k)
<1>. DEFINE r == IF m.kind = "remove" /\ MayForget(Popped(k), m.ok)
                 THEN Delete(Popped(k)) ELSE Popped(k)
<1>1. Keeps(rec[k], Popped(k)) /\ m \in Reactions /\ (Deletes(m) => ~Alive(rec[k]))
  BY PoppedSound DEF OnRemoved, At
<1>2. Keeps(rec[k], r)
  BY <1>1, DeleteKeeps DEF MayForget, Deletes
<1>3. rec' = [rec EXCEPT ![k] = r]
  BY DEF OnRemoved
<1>4. calls' \in [Calls -> [active : BOOLEAN, failed : BOOLEAN,
                            want : Wanted, waiting : SUBSET Keys]]
  <2>1. calls' = [calls EXCEPT ![m.call].waiting = @ \ {k}, ![m.call].failed = @ \/ ~m.ok]
    BY DEF OnRemoved
  <2>2. calls \in [Calls -> [active : BOOLEAN, failed : BOOLEAN,
                             want : Wanted, waiting : SUBSET Keys]]
    BY DEF Inv, TypeOK
  <2>3. m.ok \in BOOLEAN
    BY <1>1 DEF Reactions
  <2>. HIDE DEF m
  <2>. QED  BY <2>1, <2>2, <2>3
<1>5. UNCHANGED <<disposed, live, wire, made, sequence>>
  BY DEF OnRemoved
<1>6. OthersTyped
  BY <1>4, <1>5 DEF Inv, TypeOK, OthersTyped
<1>. HIDE DEF r, m
<1>. QED  BY <1>2, <1>3, <1>5, <1>6, RecordStep

(* Nor does the end of a disposal.                                          *)
LEMMA OnDisposedStep == ASSUME Inv, NEW k \in Keys, OnDisposed(k) PROVE Inv' /\ Steady
<1>. DEFINE r == IF Reacting(k).ok THEN Delete(Popped(k)) ELSE Popped(k)
<1>1. /\ Keeps(rec[k], Popped(k)) /\ Reacting(k) \in Reactions
      /\ Deletes(Reacting(k)) => ~Alive(rec[k])
  BY PoppedSound DEF OnDisposed, At
<1>2. Keeps(rec[k], r)
  BY <1>1, DeleteKeeps DEF Deletes, OnDisposed, At, Reacting
<1>3. Becomes(k, r)
  BY DEF OnDisposed
<1>. HIDE DEF r
<1>. QED  BY <1>2, <1>3, BecomesStep

(* Scheduling a restart after a failure.                                    *)
LEMMA OnFailedStep == ASSUME Inv, NEW k \in Keys, OnFailed(k) PROVE Inv' /\ Steady
<1>. DEFINE r == Popped(k)
<1>1. Keeps(rec[k], r)
  BY PoppedSound DEF OnFailed, At
<1>2. CASE Becomes(k, r)
  BY <1>1, <1>2, BecomesStep
<1>3. CASE \E scheduled \in Scheduled :
              Becomes(k, [r EXCEPT !.restartTimer = scheduled,
                                   !.armed = IF scheduled THEN @ + 1 ELSE @])
  <2>1. PICK b \in BOOLEAN : Becomes(k, [r EXCEPT !.restartTimer = b,
                                                  !.armed = IF b THEN @ + 1 ELSE @])
    BY <1>3 DEF Scheduled
  <2>. DEFINE n == IF b THEN r.armed + 1 ELSE r.armed
  <2>. DEFINE s == [r EXCEPT !.restartTimer = b, !.armed = n]
  <2>. HIDE DEF r
  <2>2. n \in Nat /\ (b => n > 0)
    BY <1>1 DEF Keeps, Sound, Records
  <2>3. s = [r EXCEPT !.restartTimer = b, !.armed = IF b THEN @ + 1 ELSE @]
    OBVIOUS
  <2>. HIDE DEF n
  <2>4. s \in Records
    BY <1>1, <2>2 DEF Keeps, Sound, Records
  <2>5. Shape(s)
    BY <1>1, <2>2 DEF Keeps, Sound, Records, Shape
  <2>6. DeletionsSafe(s)
    BY <1>1 DEF Keeps, Sound, Records, DeletionsSafe
  <2>7. SameWorker(r, s)
    BY <1>1 DEF Keeps, Sound, Records, SameWorker, Alive
  <2>8. Keeps(rec[k], s)
    BY <1>1, <2>4, <2>5, <2>6, <2>7, KeepsTrans DEF Keeps, Sound
  <2>9. Becomes(k, s)
    BY <2>1, <2>3
  <2>. HIDE DEF s
  <2>. QED  BY <2>8, <2>9, BecomesStep
<1>. QED  BY <1>2, <1>3 DEF OnFailed

(* The spawn after a restart reaped the worker.                             *)
LEMMA OnRestartStep == ASSUME Inv, NEW k \in Keys, OnRestart(k) PROVE Inv' /\ Steady
<1>. DEFINE r == Popped(k)
<1>. DEFINE a == CancelLifecycleTimers(Quiet(r, "starting"))
<1>. DEFINE b == [a EXCEPT !.restartCount = 0, !.failedGen = 0]
<1>1. Keeps(rec[k], r)
  BY PoppedSound DEF OnRestart, At
<1>2. \/ Becomes(k, AwaitSpawn(b))
      \/ Becomes(k, [r EXCEPT !.restart = "over"])
  BY DEF OnRestart
<1>. HIDE DEF r
<1>3. Keeps(rec[k], Quiet(r, "starting"))
  BY <1>1, QuietSound DEF Keeps, SameWorker, States
<1>4. Keeps(rec[k], a)
  BY <1>3, LifecycleTimersSound DEF Keeps, SameWorker
<1>. HIDE DEF a
<1>5. Keeps(rec[k], b)
  <2>1. b \in Records
    BY <1>4 DEF Keeps, Sound, Records
  <2>2. SameCore(a, b)
    BY <1>4 DEF Keeps, Sound, Records, SameCore
  <2>. QED  BY <1>4, <2>1, <2>2, CoreSound, KeepsTrans DEF Keeps
<1>. HIDE DEF b
<1>6. Keeps(rec[k], AwaitSpawn(b))
  BY <1>5, AwaitSpawnKeeps
<1>7. Keeps(rec[k], [r EXCEPT !.restart = "over"])
  BY <1>1, RestartFieldKeeps DEF Restarts
<1>. QED  BY <1>2, <1>6, <1>7, BecomesStep

(* The end of a restart, with or without a queued one.                      *)
LEMMA OnRestartedStep == ASSUME Inv, NEW k \in Keys, OnRestarted(k) PROVE Inv' /\ Steady
<1>. DEFINE r == [rec[k] EXCEPT !.restart = "none", !.requeue = FALSE]
<1>1. Sound(rec[k])
  BY DEF Inv
<1>2. r \in Records
  BY <1>1 DEF Sound, Records, Restarts
<1>3. SameCore(rec[k], r)
  BY <1>1 DEF Sound, Records, SameCore
<1>4. Becomes(k, r) \/ Becomes(k, RestartRecord(r, FALSE))
  BY DEF OnRestarted
<1>. HIDE DEF r
<1>5. Keeps(rec[k], r)
  BY <1>1, <1>2, <1>3, CoreKeeps
<1>6. Keeps(rec[k], RestartRecord(r, FALSE))
  BY <1>5, RestartKeeps
<1>. QED  BY <1>4, <1>5, <1>6, BecomesStep

(* The spawn after a re-added binding was reaped.                           *)
LEMMA OnReaddStep == ASSUME Inv, NEW k \in Keys, OnReadd(k) PROVE Inv' /\ Steady
<1>1. Keeps(rec[k], Popped(k))
  BY PoppedSound DEF OnReadd, At
<1>2. Keeps(rec[k], Spawn(Popped(k)))
  BY <1>1, SpawnKeeps
<1>. QED  BY <1>1, <1>2, BecomesStep DEF OnReadd

(* An exit that was awaited releases the lifecycle and tells everyone.     *)
LEMMA OnReapedStep == ASSUME Inv, NEW k \in Keys, OnReaped(k) PROVE Inv' /\ Steady
<1>. DEFINE r == rec[k]
<1>. DEFINE s == ReleaseLifecycle(r)
<1>1. Sound(r) /\ r.lc \in Terminating /\ r.exited
  BY DEF Inv, OnReaped
<1>2. r.lc # "tracked" /\ r.lc # "none"
  BY <1>1 DEF Terminating
<1>3. Sound(s)
  BY <1>1, <1>2, ReleaseSound
<1>4. s.lc = "none" /\ ~Alive(r) /\ ~Alive(s) /\ s.attempt = r.attempt
  BY <1>1 DEF ReleaseLifecycle, Alive, Sound, Records
<1>5. s.attempt # "granted"
  BY <1>1, <1>2, <1>4 DEF Sound, Shape
<1>6. Becomes(k, Resolve(s, TRUE))
  BY DEF OnReaped
<1>. HIDE DEF s
<1>7. Sound(Resolve(s, TRUE)) /\ SameWorker(s, Resolve(s, TRUE))
  BY <1>3, <1>4, <1>5, ResolveSound
<1>8. Keeps(r, Resolve(s, TRUE))
  BY <1>4, <1>7 DEF Keeps, SameWorker
<1>. QED  BY <1>6, <1>8, BecomesStep

(* A spawn chained to the attempt does not matter to the worker.            *)
LEMMA RespawnKeeps ==
    ASSUME NEW r, NEW s, Keeps(r, s)
    PROVE  Keeps(r, [s EXCEPT !.respawn = FALSE])
<1>. DEFINE t == [s EXCEPT !.respawn = FALSE]
<1>1. t \in Records
  BY DEF Keeps, Sound, Records
<1>2. SameCore(s, t)
  BY DEF Keeps, Sound, Records, SameCore
<1>. QED  BY <1>1, <1>2, CoreSound, KeepsTrans DEF Keeps

(* The end of a spawn attempt.                                              *)
LEMMA OnSpawnedStep == ASSUME Inv, NEW k \in Keys, OnSpawned(k) PROVE Inv' /\ Steady
<1>. DEFINE a == [rec[k] EXCEPT !.attempt = "none", !.spawnGen = 0]
<1>. DEFINE clear == DeleteDormantRecord(a)
<1>. DEFINE next == [clear EXCEPT !.respawn = FALSE]
<1>. DEFINE settled == IF clear.restart = "spawn" THEN [next EXCEPT !.restart = "over"] ELSE next
<1>1. Sound(rec[k]) /\ rec[k].attempt = "over"
  BY DEF Inv, OnSpawned
<1>2. a \in Records
  BY <1>1 DEF Sound, Records, Attempts
<1>3. Shape(a)
  BY <1>1 DEF Sound, Records, Shape
<1>4. DeletionsSafe(a)
  BY <1>1 DEF Sound, Records, DeletionsSafe
<1>5. SameWorker(rec[k], a)
  BY <1>1 DEF Sound, Records, SameWorker, Alive
<1>6. \/ Becomes(k, AwaitSpawn(next)) \/ Becomes(k, Spawn(settled)) \/ Becomes(k, settled)
  BY DEF OnSpawned
<1>. HIDE DEF a
<1>7. Keeps(rec[k], clear)
  BY <1>2, <1>3, <1>4, <1>5, DormantSound DEF Keeps, Sound, SameWorker
<1>. HIDE DEF clear
<1>8. Keeps(rec[k], next)
  BY <1>7, RespawnKeeps
<1>. HIDE DEF next
<1>9. Keeps(rec[k], settled)
  BY <1>8, RestartFieldKeeps DEF Restarts
<1>. HIDE DEF settled
<1>10. Keeps(rec[k], AwaitSpawn(next)) /\ Keeps(rec[k], Spawn(settled))
  BY <1>8, <1>9, AwaitSpawnKeeps, SpawnKeeps
<1>. QED  BY <1>6, <1>9, <1>10, BecomesStep

(* A spawn attempt that got its answer.                                    *)
LEMMA OverKeeps ==
    ASSUME NEW r, Sound(r), r.attempt \in {"granted", "refused"}
    PROVE  Keeps(r, [r EXCEPT !.attempt = "over"])
<1>. DEFINE s == [r EXCEPT !.attempt = "over"]
<1>1. s \in Records
  BY DEF Sound, Records, Attempts
<1>2. Shape(s)
  BY DEF Sound, Records, Shape
<1>3. DeletionsSafe(s)
  BY DEF Sound, Records, DeletionsSafe
<1>4. SameWorker(r, s)
  BY DEF Sound, Records, SameWorker, Alive
<1>. QED  BY <1>1, <1>2, <1>3, <1>4 DEF Keeps, Sound

(* A spawn attempt without a credential starts nothing.                     *)
LEMMA OnNoCredentialStep == ASSUME Inv, NEW k \in Keys, OnNoCredential(k) PROVE Inv' /\ Steady
<1>. DEFINE r == [rec[k] EXCEPT !.attempt = "over"]
<1>1. Keeps(rec[k], r)
  BY OverKeeps DEF Inv, OnNoCredential
<1>2. Becomes(k, r) \/ Becomes(k, [r EXCEPT !.state = "backoff"])
  BY DEF OnNoCredential
<1>. HIDE DEF r
<1>. DEFINE s == [r EXCEPT !.state = "backoff"]
<1>3. s \in Records
  BY <1>1 DEF Keeps, Sound, Records, States
<1>4. SameCore(r, s)
  BY <1>1 DEF Keeps, Sound, Records, SameCore
<1>. HIDE DEF s
<1>5. Keeps(rec[k], s)
  BY <1>1, <1>3, <1>4, CoreSound, KeepsTrans DEF Keeps
<1>. QED  BY <1>1, <1>2, <1>5, BecomesStep DEF s

(* Nor does one whose process cannot be started.                            *)
LEMMA OnSpawnThrowsStep == ASSUME Inv, NEW k \in Keys, OnSpawnThrows(k) PROVE Inv' /\ Steady
<1>. DEFINE r == [rec[k] EXCEPT !.attempt = "over"]
<1>1. Keeps(rec[k], r)
  BY OverKeeps DEF Inv, OnSpawnThrows
<1>2. Becomes(k, FailRecord(r, r.spawnGen))
  BY DEF OnSpawnThrows
<1>. HIDE DEF r
<1>3. r.spawnGen \in Nat
  BY <1>1 DEF Keeps, Sound, Records
<1>4. Keeps(rec[k], FailRecord(r, r.spawnGen))
  BY <1>1, <1>3, FailKeeps
<1>. QED  BY <1>2, <1>4, BecomesStep

(* The only step that starts a worker: there is none, the binding is       *)
(* wanted, and the worker gets the credential the binding refers to.       *)
LEMMA OnCredentialStep == ASSUME Inv, NEW k \in Keys, OnCredential(k) PROVE Inv' /\ Started(k)
<1>. DEFINE r == rec[k]
<1>. DEFINE a == [r EXCEPT !.attempt = "over"]
<1>. DEFINE s == Tracked(a)
<1>1. Sound(r) /\ r.attempt = "granted"
  BY DEF Inv, OnCredential
<1>2. a.spawnGen = r.spawnGen /\ OwnsGeneration(r, r.spawnGen)
  <2>1. OwnsGeneration(a, a.spawnGen)
    BY DEF OnCredential
  <2>2. /\ a.spawnGen = r.spawnGen /\ a.desired = r.desired /\ a.present = r.present
        /\ a.gen = r.gen /\ a.failedGen = r.failedGen
    BY <1>1 DEF Sound, Records
  <2>. HIDE DEF a, r
  <2>. QED  BY <2>1, <2>2 DEF OwnsGeneration
<1>3. /\ Sound(s) /\ SameBinding(r, s) /\ s.spawnGen = r.spawnGen
      /\ ~Alive(r) /\ Alive(s) /\ r.desired /\ s.childToken = r.token
  BY <1>1, <1>2, TrackedSound
<1>4. r.spawnGen \in Nat
  BY <1>1 DEF Sound, Records
<1>5. PICK t \in {s, FailRecord(s, r.spawnGen)} : rec' = [rec EXCEPT ![k] = t]
  BY <1>2 DEF OnCredential
<1>6. live' = [live EXCEPT ![k] = @ + 1] /\ UNCHANGED <<disposed, calls, wire, made, sequence>>
  BY DEF OnCredential
<1>. HIDE DEF s, a, r
<1>7. Sound(t) /\ SameBinding(r, t) /\ Alive(t) /\ t.childToken = r.token
  <2>. DEFINE f == FailRecord(s, r.spawnGen)
  <2>1. Sound(f) /\ SameWorker(s, f) /\ SameBinding(s, f)
    BY <1>3, <1>4, FailSound
  <2>2. SameBinding(r, f) /\ Alive(f) /\ f.childToken = r.token
    BY <1>3, <2>1 DEF SameWorker, SameBinding
  <2>3. t = s \/ t = f
    OBVIOUS
  <2>. HIDE DEF f
  <2>. QED  BY <1>3, <2>1, <2>2, <2>3
<1>8. rec \in [Keys -> Records] /\ t \in Records /\ live \in [Keys -> Nat]
  BY <1>7 DEF Inv, TypeOK, Sound
<1>9. TypeOK'
  <2>1. rec' \in [Keys -> Records]
    BY <1>5, <1>8
  <2>2. live' \in [Keys -> Nat]
    BY <1>6, <1>8
  <2>. QED  BY <1>6, <2>1, <2>2 DEF Inv, TypeOK
<1>10. rec'[k] = t /\ \A j \in Keys \ {k} : rec'[j] = rec[j] /\ live'[j] = live[j]
  BY <1>5, <1>6, <1>8
<1>11. \A j \in Keys : Sound(rec'[j])
  BY <1>7, <1>10 DEF Inv
<1>12. \A j \in Keys : live'[j] = IF Alive(rec'[j]) THEN 1 ELSE 0
  <2>1. live[k] = 0
    BY <1>3 DEF Inv, r
  <2>2. live'[k] = 1
    BY <1>6, <1>8, <2>1
  <2>. QED  BY <1>7, <1>10, <2>2 DEF Inv
<1>13. \A j \in Keys : Bound(rec'[j]) = Bound(rec[j])
  BY <1>7, <1>10 DEF SameBinding, Bound, r
<1>14. \A j \in Keys \ {k} : SameWorker(rec[j], rec'[j])
  BY <1>10 DEF SameWorker
<1>15. ~disposed
  BY <1>2 DEF OwnsGeneration
<1>. QED
  BY <1>3, <1>6, <1>7, <1>9, <1>10, <1>11, <1>12, <1>13, <1>14, <1>15
  DEF Inv, Started, OthersSame, r

(* The only step that ends one.                                            *)
LEMMA ChildExitStep == ASSUME Inv, NEW k \in Keys, ChildExit(k) PROVE Inv' /\ Ended(k)
<1>. DEFINE r == rec[k]
<1>. DEFINE t == Exited(r)
<1>1. Sound(r) /\ Alive(r)
  BY DEF Inv, ChildExit, Alive
<1>2. /\ Sound(t) /\ ~Alive(t) /\ (t.desired <=> r.desired)
      /\ r.desired => SameBinding(r, t)
  BY <1>1, ExitedSound
<1>3. /\ rec' = [rec EXCEPT ![k] = t] /\ live' = [live EXCEPT ![k] = @ - 1]
      /\ UNCHANGED <<disposed, calls, wire, made, sequence>>
  BY DEF ChildExit
<1>. HIDE DEF t
<1>4. rec \in [Keys -> Records] /\ t \in Records /\ live \in [Keys -> Nat]
  BY <1>2 DEF Inv, TypeOK, Sound
<1>5. live[k] = 1
  BY <1>1 DEF Inv
<1>6. live'[k] = 0 /\ live' \in [Keys -> Nat]
  BY <1>3, <1>4, <1>5
<1>7. TypeOK'
  <2>1. rec' \in [Keys -> Records]
    BY <1>3, <1>4
  <2>. QED  BY <1>3, <1>6, <2>1 DEF Inv, TypeOK
<1>8. rec'[k] = t /\ \A j \in Keys \ {k} : rec'[j] = rec[j] /\ live'[j] = live[j]
  BY <1>3, <1>4
<1>9. \A j \in Keys : Sound(rec'[j])
  BY <1>2, <1>8 DEF Inv
<1>10. \A j \in Keys : live'[j] = IF Alive(rec'[j]) THEN 1 ELSE 0
  BY <1>2, <1>6, <1>8 DEF Inv
<1>11. \A j \in Keys : Bound(rec'[j]) = Bound(rec[j])
  BY <1>2, <1>8 DEF SameBinding, Bound
<1>12. \A j \in Keys \ {k} : SameWorker(rec[j], rec'[j])
  BY <1>8 DEF SameWorker
<1>. QED
  BY <1>1, <1>2, <1>3, <1>7, <1>8, <1>9, <1>10, <1>11, <1>12 DEF Inv, Ended, OthersSame

(* Timers and the credential resolver.                                     *)
LEMMA CredentialSettlesStep ==
    ASSUME Inv, NEW k \in Keys, NEW ok \in BOOLEAN, CredentialSettles(k, ok)
    PROVE  Inv' /\ Steady
<1>. DEFINE r == rec[k]
<1>. DEFINE x == IF r.lookup # "open" THEN r.attempt ELSE IF ok THEN "granted" ELSE "refused"
<1>. DEFINE s == [r EXCEPT !.lookup = "none", !.attempt = x]
<1>1. Sound(r)
  BY DEF Inv
<1>1a. r.micro = <<>> \/ r.lookup = "blocked" \/ r.spawnGen # r.gen
  BY DEF CredentialSettles
<1>2. Becomes(k, DeleteDormantRecord(s))
  BY DEF CredentialSettles
<1>3. x \in Attempts
  BY <1>1 DEF Sound, Records, Attempts
<1>4. /\ x = "lookup" => r.attempt = "lookup" /\ r.lookup # "open"
      /\ x # r.attempt => r.attempt = "lookup" /\ x \in {"granted", "refused"}
      /\ r.lookup = "blocked" => x = r.attempt
  BY <1>1 DEF Sound, Shape
<1>. HIDE DEF x, r
<1>5. s \in Records
  BY <1>1, <1>3 DEF Sound, Records
<1>6. Shape(s)
  <2>1. /\ s.restartTimer = r.restartTimer /\ s.armed = r.armed /\ s.child = r.child
        /\ s.lc = r.lc /\ s.childToken = r.childToken /\ s.attempt = x /\ s.lookup = "none"
        /\ s.desired = r.desired /\ s.present = r.present /\ s.token = r.token /\ s.gen = r.gen
        /\ s.credential = r.credential /\ s.spawnGen = r.spawnGen /\ s.childGen = r.childGen
    BY <1>1 DEF Sound, Records
  <2>. HIDE DEF s
  <2>. QED  BY <1>1, <1>4, <2>1 DEF Sound, Shape
<1>7. DeletionsSafe(s)
  <2>1. /\ s.micro = r.micro /\ s.lc = r.lc /\ s.attempt = x
        /\ s.spawnGen = r.spawnGen /\ s.gen = r.gen
    BY <1>1 DEF Sound, Records
  <2>2. r.spawnGen \in Nat /\ r.gen \in Nat /\ r.spawnGen <= r.gen /\ Len(<<>>) = 0
    BY <1>1 DEF Sound, Records, Shape
  <2>. HIDE DEF s
  <2>3. CASE r.micro = <<>>
    BY <2>1, <2>2, <2>3 DEF DeletionsSafe
  <2>4. CASE r.lookup = "blocked"
    BY <1>1, <1>4, <2>1, <2>4 DEF Sound, DeletionsSafe
  <2>5. CASE r.spawnGen # r.gen
    BY <1>1, <2>1, <2>2, <2>5 DEF Sound, DeletionsSafe
  <2>. QED  BY <1>1a, <2>3, <2>4, <2>5
<1>8. SameWorker(r, s)
  BY <1>1 DEF Sound, Records, SameWorker, Alive
<1>. HIDE DEF s
<1>9. Keeps(r, DeleteDormantRecord(s))
  BY <1>5, <1>6, <1>7, <1>8, DormantSound DEF Keeps, Sound, SameWorker
<1>. QED  BY <1>2, <1>9, BecomesStep DEF r

(* The deadline of a lookup.                                                *)
LEMMA CredentialTimeoutStep == ASSUME Inv, NEW k \in Keys, CredentialTimeout(k) PROVE Inv' /\ Steady
<1>1. Keeps(rec[k], CancelLookup(rec[k]))
  BY CancelLookupSound DEF Inv, Keeps
<1>. QED  BY <1>1, BecomesStep DEF CredentialTimeout

(* A restart timer, its handle still held or not.                           *)
LEMMA RestartTimeoutStep == ASSUME Inv, NEW k \in Keys, RestartTimeout(k) PROVE Inv' /\ Steady
<1>. DEFINE r == rec[k]
<1>. DEFINE n == r.armed - 1
<1>. DEFINE s == [r EXCEPT !.restartTimer = FALSE, !.armed = n]
<1>1. Sound(r) /\ r.armed > 0
  BY DEF Inv, RestartTimeout
<1>2. Becomes(k, Spawn(s))
  BY DEF RestartTimeout
<1>3. n \in Nat
  BY <1>1 DEF Sound, Records
<1>. HIDE DEF r, n
<1>4. s \in Records
  BY <1>1, <1>3 DEF Sound, Records
<1>5. Shape(s)
  BY <1>1 DEF Sound, Records, Shape
<1>6. DeletionsSafe(s)
  BY <1>1 DEF Sound, Records, DeletionsSafe
<1>7. SameWorker(r, s)
  BY <1>1 DEF Sound, Records, SameWorker, Alive
<1>. HIDE DEF s
<1>8. Keeps(r, Spawn(s))
  BY <1>4, <1>5, <1>6, <1>7, SpawnKeeps DEF Keeps, Sound
<1>. QED  BY <1>2, <1>8, BecomesStep DEF r

(* The watchdogs.                                                          *)
LEMMA ReadyTimeoutStep == ASSUME Inv, NEW k \in Keys, ReadyTimeout(k) PROVE Inv' /\ Steady
<1>. DEFINE r == rec[k]
<1>. DEFINE s == [r EXCEPT !.readyTimer = FALSE]
<1>1. Sound(r)
  BY DEF Inv
<1>2. s \in Records
  BY <1>1 DEF Sound, Records
<1>3. SameCore(r, s)
  BY <1>1 DEF Sound, Records, SameCore
<1>4. r.childGen \in Nat /\ s.childGen = r.childGen
  BY <1>1, <1>3 DEF Sound, Records, SameCore
<1>5. Becomes(k, FailRecord(s, r.childGen))
  BY <1>4 DEF ReadyTimeout
<1>. HIDE DEF r, s
<1>6. Keeps(r, s)
  BY <1>1, <1>2, <1>3, CoreKeeps
<1>7. Keeps(r, FailRecord(s, r.childGen))
  BY <1>4, <1>6, FailKeeps
<1>. QED  BY <1>5, <1>6, <1>7, BecomesStep DEF r

(* The online watchdog gives the worker up.                                 *)
LEMMA OnlineTimeoutStep == ASSUME Inv, NEW k \in Keys, OnlineTimeout(k) PROVE Inv' /\ Steady
<1>. DEFINE r == rec[k]
<1>. DEFINE s == [r EXCEPT !.onlineTimer = FALSE]
<1>1. Sound(r)
  BY DEF Inv
<1>2. s \in Records
  BY <1>1 DEF Sound, Records
<1>3. SameCore(r, s)
  BY <1>1 DEF Sound, Records, SameCore
<1>4. r.childGen \in Nat /\ s.childGen = r.childGen
  BY <1>1, <1>3 DEF Sound, Records, SameCore
<1>5. Becomes(k, FailRecord(s, r.childGen))
  BY <1>4 DEF OnlineTimeout
<1>. HIDE DEF r, s
<1>6. Keeps(r, s)
  BY <1>1, <1>2, <1>3, CoreKeeps
<1>7. Keeps(r, FailRecord(s, r.childGen))
  BY <1>4, <1>6, FailKeeps
<1>. QED  BY <1>5, <1>6, <1>7, BecomesStep DEF r

(* A stable worker forgets its crashes.                                     *)
LEMMA StableTimeoutStep == ASSUME Inv, NEW k \in Keys, StableTimeout(k) PROVE Inv' /\ Steady
<1>. DEFINE r == rec[k]
<1>. DEFINE s == [r EXCEPT !.stableTimer = FALSE, !.restartCount = 0]
<1>1. Sound(r)
  BY DEF Inv
<1>2. s \in Records
  BY <1>1 DEF Sound, Records
<1>3. SameCore(r, s)
  BY <1>1 DEF Sound, Records, SameCore
<1>4. r.childGen \in Nat /\ s.childGen = r.childGen
  BY <1>1, <1>3 DEF Sound, Records, SameCore
<1>5. Becomes(k, s)
  BY <1>4 DEF StableTimeout
<1>. HIDE DEF r, s
<1>6. Keeps(r, s)
  BY <1>1, <1>2, <1>3, CoreKeeps
<1>7. Keeps(r, FailRecord(s, r.childGen))
  BY <1>4, <1>6, FailKeeps
<1>. QED  BY <1>5, <1>6, <1>7, BecomesStep DEF r

(* What a worker says.                                                     *)
LEMMA ChildOfflineStep == ASSUME Inv, NEW k \in Keys, NEW state \in States, ChildOffline(k, state) PROVE Inv' /\ Steady
<1>. DEFINE r == rec[k]
<1>. DEFINE s == [r EXCEPT !.routable = FALSE, !.state = state,
                       !.stableTimer = FALSE, !.onlineTimer = TRUE]
<1>1. Sound(r)
  BY DEF Inv
<1>2. s \in Records
  BY <1>1 DEF Sound, Records
<1>3. SameCore(r, s)
  BY <1>1 DEF Sound, Records, SameCore
<1>4. r.childGen \in Nat /\ s.childGen = r.childGen
  BY <1>1, <1>3 DEF Sound, Records, SameCore
<1>5. Becomes(k, s) \/ Becomes(k, FailRecord(s, r.childGen))
  BY <1>4 DEF ChildOffline
<1>. HIDE DEF r, s
<1>6. Keeps(r, s)
  BY <1>1, <1>2, <1>3, CoreKeeps
<1>7. Keeps(r, FailRecord(s, r.childGen))
  BY <1>4, <1>6, FailKeeps
<1>. QED  BY <1>5, <1>6, <1>7, BecomesStep DEF r

(* The answer to a refresh is delivered or fails the worker.                *)
LEMMA RefreshSettlesStep == ASSUME Inv, NEW k \in Keys, RefreshSettles(k) PROVE Inv' /\ Steady
<1>. DEFINE r == rec[k]
<1>. DEFINE s == [r EXCEPT !.refresh = "answered"]
<1>1. Sound(r)
  BY DEF Inv
<1>2. s \in Records
  BY <1>1 DEF Sound, Records
<1>3. SameCore(r, s)
  BY <1>1 DEF Sound, Records, SameCore
<1>4. r.childGen \in Nat /\ s.childGen = r.childGen
  BY <1>1, <1>3 DEF Sound, Records, SameCore
<1>5. Becomes(k, s) \/ Becomes(k, FailRecord(s, r.childGen))
  BY <1>4 DEF RefreshSettles
<1>. HIDE DEF r, s
<1>6. Keeps(r, s)
  BY <1>1, <1>2, <1>3, CoreKeeps
<1>7. Keeps(r, FailRecord(s, r.childGen))
  BY <1>4, <1>6, FailKeeps
<1>. QED  BY <1>5, <1>6, <1>7, BecomesStep DEF r

(* An error, a disconnect or a malformed message.                           *)
LEMMA ChildFailsStep == ASSUME Inv, NEW k \in Keys, ChildFails(k) PROVE Inv' /\ Steady
<1>. DEFINE r == rec[k]
<1>1. PICK b \in BOOLEAN : Becomes(k, FailRecord([r EXCEPT !.connected = @ /\ b], r.childGen))
  BY DEF ChildFails
<1>. DEFINE c == r.connected /\ b
<1>. DEFINE s == [r EXCEPT !.connected = c]
<1>2. Sound(r) /\ c \in BOOLEAN
  BY DEF Inv, Sound, Records
<1>3. r.childGen \in Nat
  BY <1>2 DEF Sound, Records
<1>4. Becomes(k, FailRecord(s, r.childGen))
  BY <1>1
<1>. HIDE DEF r, c
<1>5. s \in Records
  BY <1>2 DEF Sound, Records
<1>6. SameCore(r, s)
  BY <1>2 DEF Sound, Records, SameCore
<1>. HIDE DEF s
<1>7. Keeps(r, FailRecord(s, r.childGen))
  BY <1>2, <1>3, <1>5, <1>6, CoreKeeps, FailKeeps
<1>. QED  BY <1>4, <1>7, BecomesStep DEF r

(* A worker that breaks the protocol fails as it is.                       *)
LEMMA FailsStep ==
    ASSUME Inv, NEW k \in Keys, Becomes(k, FailRecord(rec[k], rec[k].childGen))
    PROVE  Inv' /\ Steady
<1>1. Keeps(rec[k], rec[k]) /\ rec[k].childGen \in Nat
  BY DEF Inv, Keeps, SameWorker, Sound, Records
<1>. QED  BY <1>1, FailKeeps, BecomesStep

(* The first ready is taken, a second one fails the worker.                 *)
LEMMA ChildReadyStep == ASSUME Inv, NEW k \in Keys, ChildReady(k) PROVE Inv' /\ Steady
<1>. DEFINE r == rec[k]
<1>. DEFINE s == [r EXCEPT !.readySeen = TRUE, !.readyTimer = FALSE, !.onlineTimer = TRUE]
<1>1. Sound(r)
  BY DEF Inv
<1>2. s \in Records
  BY <1>1 DEF Sound, Records
<1>3. SameCore(r, s)
  BY <1>1 DEF Sound, Records, SameCore
<1>4. r.childGen \in Nat /\ s.childGen = r.childGen
  BY <1>1, <1>3 DEF Sound, Records, SameCore
<1>5. \/ Becomes(k, s) \/ Becomes(k, FailRecord(s, r.childGen))
      \/ Becomes(k, FailRecord(r, r.childGen))
  BY <1>4 DEF ChildReady
<1>. HIDE DEF s
<1>6. Keeps(r, s)
  BY <1>1, <1>2, <1>3, CoreKeeps
<1>7. Keeps(r, FailRecord(s, r.childGen))
  BY <1>4, <1>6, FailKeeps
<1>. QED  BY <1>5, <1>6, <1>7, BecomesStep, FailsStep

(* The first refresh is taken, a second one fails the worker.               *)
LEMMA ChildRefreshStep == ASSUME Inv, NEW k \in Keys, ChildRefresh(k) PROVE Inv' /\ Steady
<1>. DEFINE r == rec[k]
<1>. DEFINE s == [r EXCEPT !.refresh = "open"]
<1>1. Sound(r)
  BY DEF Inv
<1>2. s \in Records
  BY <1>1 DEF Sound, Records
<1>3. SameCore(r, s)
  BY <1>1 DEF Sound, Records, SameCore
<1>4. Becomes(k, s) \/ Becomes(k, FailRecord(r, r.childGen))
  BY DEF ChildRefresh
<1>. HIDE DEF s
<1>5. Keeps(r, s)
  BY <1>1, <1>2, <1>3, CoreKeeps
<1>. QED  BY <1>4, <1>5, BecomesStep, FailsStep

(* A result or a deadline settles a request.                                *)
LEMMA ForgetStep ==
    ASSUME Inv, NEW k \in Keys, NEW q, RequestTimeout(k, q) \/ ChildResult(k, q)
    PROVE  Inv' /\ Steady
<1>1. Keeps(rec[k], Forget(rec[k], q))
  BY ForgetSound DEF Inv, Keeps
<1>. QED  BY <1>1, BecomesStep DEF RequestTimeout, ChildResult

(* Giving up a wait: the process stays tracked, whatever it does.          *)
LEMMA TerminationTimeoutStep ==
    ASSUME Inv, NEW k \in Keys, TerminationTimeout(k) PROVE Inv' /\ Steady
<1>. DEFINE r == rec[k]
<1>1. Sound(r) /\ r.lc \in Terminating
  BY DEF Inv, TerminationTimeout
<1>2. r.lc \notin {"none", "tracked"} /\ r.lc \in Lifecycles
  BY <1>1 DEF Terminating, Lifecycles
<1>3. ASSUME NEW lc \in {"sigterm", "sigkill", "abandoned"}, NEW b \in BOOLEAN
      PROVE  Keeps(r, [r EXCEPT !.lc = lc, !.connected = b])
  <2>. DEFINE s == [r EXCEPT !.lc = lc, !.connected = b]
  <2>1. lc \in Lifecycles
    BY DEF Lifecycles, Terminating
  <2>. HIDE DEF r
  <2>2. s \in Records
    BY <1>1, <2>1 DEF Sound, Records
  <2>3. Shape(s)
    BY <1>1, <1>2 DEF Sound, Records, Shape
  <2>4. DeletionsSafe(s)
    BY <1>1, <1>2 DEF Sound, Records, DeletionsSafe
  <2>5. SameWorker(r, s)
    BY <1>1, <1>2 DEF Sound, Records, SameWorker, Alive
  <2>. QED  BY <2>2, <2>3, <2>4, <2>5 DEF Keeps, Sound
<1>4. \A lc : [r EXCEPT !.lc = lc] = [r EXCEPT !.lc = lc, !.connected = r.connected]
  BY <1>1 DEF Sound, Records
<1>5. Keeps(r, [r EXCEPT !.lc = "sigterm", !.connected = FALSE])
  BY <1>3
<1>6. Keeps(r, [r EXCEPT !.lc = "sigkill"]) /\ Keeps(r, [r EXCEPT !.lc = "abandoned"])
  <2>1. r.connected \in BOOLEAN
    BY <1>1 DEF Sound, Records
  <2>2. /\ Keeps(r, [r EXCEPT !.lc = "sigkill", !.connected = r.connected])
        /\ Keeps(r, [r EXCEPT !.lc = "abandoned", !.connected = r.connected])
    BY <1>3, <2>1
  <2>. QED  BY <1>4, <2>2
<1>. DEFINE a == [r EXCEPT !.lc = "abandoned"]
<1>7. \/ Becomes(k, [r EXCEPT !.lc = "sigterm", !.connected = FALSE])
      \/ Becomes(k, [r EXCEPT !.lc = "sigkill"])
      \/ Becomes(k, Resolve(a, FALSE))
  BY DEF TerminationTimeout
<1>. HIDE DEF a
<1>8. Keeps(r, Resolve(a, FALSE))
  BY <1>6, ResolveSound DEF Keeps, SameWorker, a
<1>. QED  BY <1>5, <1>6, <1>7, <1>8, BecomesStep

(* Everything buffered, or a part of it, is written.                       *)
LEMMA ChildOnlineStep == ASSUME Inv, NEW k \in Keys, ChildOnline(k) PROVE Inv' /\ Steady
<1>. DEFINE r == rec[k]
<1>. DEFINE s == [r EXCEPT !.onlineTimer = FALSE, !.state = "online", !.routable = TRUE,
                           !.stableTimer = TRUE]
<1>. DEFINE f == [s EXCEPT !.buffer = <<>>]
<1>1. Sound(r)
  BY DEF Inv
<1>2. s \in Records
  BY <1>1 DEF Sound, Records, States
<1>3. SameCore(r, s)
  BY <1>1 DEF Sound, Records, SameCore
<1>4. r.childGen \in Nat /\ s.childGen = r.childGen /\ s.buffer \in Seq(Requests)
  BY <1>1, <1>2, <1>3 DEF Sound, Records, SameCore
<1>5. /\ rec' \in {[rec EXCEPT ![k] = f], [rec EXCEPT ![k] = FailRecord(f, r.childGen)],
                   [rec EXCEPT ![k] = FailRecord(s, r.childGen)]}
      /\ \/ wire' = wire
         \/ \E n \in 0..Len(s.buffer) : wire' = [wire EXCEPT ![k] = @ \o SubSeq(s.buffer, 1, n)]
      /\ UNCHANGED <<disposed, calls, live, made, sequence>>
  <2>1. CASE Flush(k, s)
    BY <1>4, <2>1 DEF ChildOnline, Flush
  <2>2. CASE ~Flush(k, s)
    BY <2>2 DEF ChildOnline
  <2>. QED  BY <2>1, <2>2
<1>. HIDE DEF s
<1>6. Keeps(r, s)
  BY <1>1, <1>2, <1>3, CoreKeeps
<1>7. Keeps(r, f)
  <2>1. <<>> \in Seq(Requests)
    OBVIOUS
  <2>2. f \in Records
    BY <1>2, <2>1 DEF Records
  <2>3. SameCore(s, f)
    BY <1>2 DEF Records, SameCore
  <2>. QED  BY <1>6, <2>2, <2>3, CoreSound, KeepsTrans DEF Keeps
<1>. HIDE DEF f
<1>8. Keeps(r, FailRecord(f, r.childGen)) /\ Keeps(r, FailRecord(s, r.childGen))
  BY <1>4, <1>6, <1>7, FailKeeps
<1>9. wire' \in [Keys -> Seq(Requests)]
  <2>1. wire \in [Keys -> Seq(Requests)]
    BY DEF Inv, TypeOK
  <2>2. \A n \in 0..Len(s.buffer) : SubSeq(s.buffer, 1, n) \in Seq(Requests)
    BY <1>4
  <2>3. \A n \in 0..Len(s.buffer) : wire[k] \o SubSeq(s.buffer, 1, n) \in Seq(Requests)
    BY <2>1, <2>2
  <2>. QED  BY <1>5, <2>1, <2>3
<1>10. OthersTyped
  BY <1>5, <1>9 DEF Inv, TypeOK, OthersTyped
<1>. QED  BY <1>5, <1>7, <1>8, <1>10, RecordStep

(* The public methods.                                                     *)
LEMMA ReconcileStep ==
    ASSUME Inv, NEW c \in Calls, NEW want \in Wanted, Reconcile(c, want)
    PROVE  Inv' /\ Steady
<1>. DEFINE removed == {k \in Keys \ DOMAIN want : rec[k].present}
<1>1. /\ rec' = [k \in Keys |-> IF k \in removed THEN RemoveRecord(rec[k], c) ELSE rec[k]]
      /\ calls' = [calls EXCEPT ![c] = [active |-> TRUE, failed |-> FALSE,
                                        want |-> want, waiting |-> removed]]
      /\ made' = made + 1
      /\ UNCHANGED <<disposed, live, wire, sequence>>
  BY DEF Reconcile
<1>2. removed \in SUBSET Keys
  OBVIOUS
<1>. HIDE DEF removed
<1>3. \A k \in Keys : Keeps(rec[k], rec[k]) /\ Keeps(rec[k], RemoveRecord(rec[k], c))
  BY RemoveSound DEF Inv, Keeps, SameWorker
<1>4. \A k \in Keys : Keeps(rec[k], rec'[k])
  BY <1>1, <1>3
<1>5. rec' \in [Keys -> Records]
  BY <1>1, <1>3 DEF Keeps, Sound
<1>6. OthersTyped
  BY <1>1, <1>2 DEF Inv, TypeOK, OthersTyped
<1>. QED  BY <1>1, <1>4, <1>5, <1>6, SteadyStep

(* The second half of reconcile() starts and changes no process itself.     *)
LEMMA ReconcileStartStep ==
    ASSUME Inv, NEW c \in Calls, ReconcileStart(c)
    PROVE  Inv' /\ Steady
<1>. DEFINE want == calls[c].want
<1>1. /\ rec' = [k \in Keys |-> IF k \in DOMAIN want /\ ~calls[c].failed
                                THEN Readd(rec[k], want[k]) ELSE rec[k]]
      /\ calls' = [calls EXCEPT ![c] = IdleCall]
      /\ UNCHANGED <<disposed, live, wire, made, sequence>>
  BY DEF ReconcileStart
<1>2. want \in Wanted
  BY DEF Inv, TypeOK
<1>3. \A k \in DOMAIN want : want[k] \in Tokens
  BY <1>2 DEF Wanted
<1>. HIDE DEF want
<1>4. ASSUME NEW k \in Keys PROVE Keeps(rec[k], rec'[k])
  <2>1. Keeps(rec[k], rec[k])
    BY DEF Inv, Keeps, SameWorker
  <2>2. k \in DOMAIN want => Keeps(rec[k], Readd(rec[k], want[k]))
    BY <1>3, ReaddSound DEF Inv, Keeps
  <2>3. rec'[k] = rec[k] \/ (k \in DOMAIN want /\ rec'[k] = Readd(rec[k], want[k]))
    BY <1>1
  <2>. QED  BY <2>1, <2>2, <2>3
<1>5. rec' \in [Keys -> Records]
  <2>1. \A k \in Keys : rec'[k] \in Records
    BY <1>4 DEF Keeps, Sound
  <2>. QED  BY <1>1, <2>1
<1>6. OthersTyped
  <2>1. [k \in {} |-> NoToken] \in [{} -> Tokens] /\ {} \in SUBSET Keys
    OBVIOUS
  <2>2. [k \in {} |-> NoToken] \in Wanted
    BY <2>1 DEF Wanted
  <2>3. IdleCall \in [active : BOOLEAN, failed : BOOLEAN, want : Wanted, waiting : SUBSET Keys]
    BY <2>2 DEF IdleCall
  <2>. QED  BY <1>1, <2>3 DEF Inv, TypeOK, OthersTyped
<1>. QED  BY <1>1, <1>4, <1>5, <1>6, SteadyStep

(* stop() up to its await.                                                  *)
LEMMA StopStep == ASSUME Inv, NEW k \in Keys, Stop(k) PROVE Inv' /\ Steady
<1>. DEFINE s == Terminate(RejectPending(CancelLifecycleTimers([rec[k] EXCEPT
                    !.desired = FALSE, !.gen = @ + 1, !.removeWhenReaped = FALSE])),
                    Reaction("stop"))
<1>1. Keeps(rec[k], s)
  BY StopSound DEF Inv, Keeps
<1>2. rec' = [rec EXCEPT ![k] = s] /\ made' = made + 1
      /\ UNCHANGED <<disposed, calls, live, wire, sequence>>
  BY DEF Stop
<1>3. OthersTyped
  BY <1>2 DEF Inv, TypeOK, OthersTyped
<1>. HIDE DEF s
<1>. QED  BY <1>1, <1>2, <1>3, RecordStep

(* restart() up to its await.                                               *)
LEMMA RestartStep == ASSUME Inv, NEW k \in Keys, Restart(k) PROVE Inv' /\ Steady
<1>. DEFINE r == rec[k]
<1>. DEFINE s == [r EXCEPT !.desired = TRUE]
<1>1. Sound(r) /\ r.present
  BY DEF Inv, Restart
<1>2. s \in Records
  BY <1>1 DEF Sound, Records
<1>3. Shape(s)
  BY <1>1 DEF Sound, Records, Shape
<1>4. DeletionsSafe(s)
  BY <1>1 DEF Sound, Records, DeletionsSafe
<1>5. SameWorker(r, s)
  BY <1>1 DEF Sound, Records, SameWorker, Alive
<1>6. PICK queue \in BOOLEAN : rec' = [rec EXCEPT ![k] = RestartRecord(s, queue)]
  BY DEF Restart
<1>. HIDE DEF s
<1>7. Keeps(r, RestartRecord(s, queue))
  BY <1>2, <1>3, <1>4, <1>5, RestartKeeps DEF Keeps, Sound
<1>8. made' = made + 1 /\ UNCHANGED <<disposed, calls, live, wire, sequence>>
  BY DEF Restart
<1>9. OthersTyped
  BY <1>8 DEF Inv, TypeOK, OthersTyped
<1>. QED  BY <1>6, <1>7, <1>8, <1>9, RecordStep

(* dispose() up to its await.                                               *)
LEMMA DisposeStep == ASSUME Inv, Dispose PROVE Inv' /\ Steady
<1>1. /\ rec' = [k \in Keys |-> IF rec[k].present THEN DisposeRecord(rec[k]) ELSE rec[k]]
      /\ disposed' = TRUE
      /\ UNCHANGED <<calls, live, wire, made, sequence>>
  BY DEF Dispose
<1>2. \A k \in Keys : Keeps(rec[k], rec[k]) /\ Keeps(rec[k], DisposeRecord(rec[k]))
  BY DisposeSound DEF Inv, Keeps, SameWorker
<1>3. \A k \in Keys : Keeps(rec[k], rec'[k])
  BY <1>1, <1>2
<1>4. rec' \in [Keys -> Records]
  BY <1>1, <1>2 DEF Keeps, Sound
<1>5. OthersTyped
  BY <1>1 DEF Inv, TypeOK, OthersTyped
<1>. QED  BY <1>1, <1>3, <1>4, <1>5, SteadyStep

(* send(), receipt() and joinChatroom().                                    *)
LEMMA RequestStep == ASSUME Inv, NEW k \in Keys, Request(k) PROVE Inv' /\ Steady
<1>. DEFINE r == rec[k]
<1>. DEFINE q == sequence + 1
<1>. DEFINE added == [r EXCEPT !.pending = @ \cup {q}]
<1>. DEFINE kept == [added EXCEPT !.buffer = Append(@, q)]
<1>1. Sound(r) /\ sequence \in 0..MaxRequests /\ sequence < MaxRequests
  BY DEF Inv, TypeOK, Request
<1>2. q \in Requests /\ q \in 0..MaxRequests
  BY <1>1, ConstantsAssumption DEF Requests
<1>3. /\ rec' \in {[rec EXCEPT ![k] = added], [rec EXCEPT ![k] = FailRecord(added, added.gen)],
                   [rec EXCEPT ![k] = kept]}
      /\ wire' = wire \/ wire' = [wire EXCEPT ![k] = Append(@, q)]
      /\ sequence' = q /\ UNCHANGED <<disposed, calls, live, made>>
  BY DEF Request
<1>. HIDE DEF q, r
<1>4. added \in Records
  <2>1. r.pending \cup {q} \in SUBSET Requests
    BY <1>1, <1>2 DEF Sound, Records
  <2>. QED  BY <1>1, <2>1 DEF Sound, Records
<1>5. SameCore(r, added)
  BY <1>1 DEF Sound, Records, SameCore
<1>. HIDE DEF added
<1>6. Keeps(r, added) /\ added.gen \in Nat
  BY <1>1, <1>4, <1>5, CoreKeeps DEF Records
<1>7. Keeps(r, FailRecord(added, added.gen))
  BY <1>6, FailKeeps
<1>8. Keeps(r, kept)
  <2>1. Append(added.buffer, q) \in Seq(Requests)
    BY <1>2, <1>4 DEF Records
  <2>2. kept \in Records
    BY <1>4, <2>1 DEF Records
  <2>3. SameCore(added, kept)
    BY <1>4 DEF Records, SameCore
  <2>. QED  BY <1>6, <2>2, <2>3, CoreSound, KeepsTrans DEF Keeps
<1>. HIDE DEF kept
<1>9. OthersTyped
  <2>1. wire \in [Keys -> Seq(Requests)]
    BY DEF Inv, TypeOK
  <2>2. Append(wire[k], q) \in Seq(Requests)
    BY <1>2, <2>1
  <2>3. wire' \in [Keys -> Seq(Requests)]
    BY <1>3, <2>1, <2>2
  <2>. QED  BY <1>2, <1>3, <2>3 DEF Inv, TypeOK, OthersTyped
<1>. QED  BY <1>3, <1>6, <1>7, <1>8, <1>9, RecordStep DEF r

-----------------------------------------------------------------------------
(* Theorems.                                                               *)

(* The invariant holds of the empty supervisor.                            *)
LEMMA InitInv == Init => Inv
<1>. SUFFICES ASSUME Init PROVE Inv
  OBVIOUS
<1>1. \A k \in Keys : rec[k] = NewRecord(NoToken)
  BY DEF Init
<1>2. Sound(NewRecord(NoToken)) /\ ~Alive(NewRecord(NoToken))
  BY NewRecordSound
<1>3. rec \in [Keys -> Records]
  BY <1>2 DEF Init, Sound
<1>4. calls \in [Calls -> [active : BOOLEAN, failed : BOOLEAN,
                           want : Wanted, waiting : SUBSET Keys]]
  <2>1. [k \in {} |-> NoToken] \in [{} -> Tokens] /\ {} \in SUBSET Keys
    OBVIOUS
  <2>2. [k \in {} |-> NoToken] \in Wanted
    BY <2>1 DEF Wanted
  <2>3. IdleCall \in [active : BOOLEAN, failed : BOOLEAN, want : Wanted, waiting : SUBSET Keys]
    BY <2>2 DEF IdleCall
  <2>. QED  BY <2>3 DEF Init
<1>5. live \in [Keys -> Nat] /\ wire \in [Keys -> Seq(Requests)]
  BY DEF Init
<1>6. made \in Nat /\ sequence \in 0..MaxRequests
  BY ConstantsAssumption DEF Init
<1>6a. disposed \in BOOLEAN
  BY DEF Init
<1>7. TypeOK
  BY <1>3, <1>4, <1>5, <1>6, <1>6a DEF TypeOK
<1>8. \A k \in Keys : live[k] = IF Alive(rec[k]) THEN 1 ELSE 0
  BY <1>1, <1>2 DEF Init
<1>. QED  BY <1>1, <1>2, <1>7, <1>8 DEF Inv

(* Every step keeps the invariant; it is steady, starts a worker or sees   *)
(* one exit.                                                               *)
LEMMA NextInv ==
    ASSUME Inv, [Next]_vars
    PROVE  Inv' /\ (Steady \/ \E k \in Keys : Started(k) \/ Ended(k))
<1>1. CASE UNCHANGED vars
  <2>1. Inv'
    BY <1>1 DEF vars, Inv, TypeOK
  <2>2. Steady
    BY <1>1 DEF vars, Steady, SameWorker
  <2>. QED  BY <2>1, <2>2
<1>2. CASE \E c \in Calls : \E want \in Wanted : Reconcile(c, want)
  BY <1>2, ReconcileStep
<1>3. CASE \E c \in Calls : ReconcileStart(c)
  BY <1>3, ReconcileStartStep
<1>4. CASE Dispose
  BY <1>4, DisposeStep
<1>5. ASSUME NEW k \in Keys, Stop(k) \/ Restart(k) \/ Request(k)
      PROVE  Inv' /\ Steady
  BY <1>5, StopStep, RestartStep, RequestStep
<1>6. ASSUME NEW k \in Keys, React(k)
      PROVE  Inv' /\ (Steady \/ Started(k))
  <2>1. CASE OnStopped(k) \/ OnVoid(k) \/ OnRemoved(k) \/ OnDisposed(k) \/ OnFailed(k)
    BY <2>1, OnStoppedStep, OnVoidStep, OnRemovedStep, OnDisposedStep, OnFailedStep
  <2>2. CASE OnRestart(k) \/ OnRestarted(k) \/ OnReadd(k) \/ OnReaped(k)
    BY <2>2, OnRestartStep, OnRestartedStep, OnReaddStep, OnReapedStep
  <2>3. CASE OnSpawned(k) \/ OnNoCredential(k) \/ OnSpawnThrows(k)
    BY <2>3, OnSpawnedStep, OnNoCredentialStep, OnSpawnThrowsStep
  <2>4. CASE OnCredential(k)
    BY <2>4, OnCredentialStep
  <2>. QED  BY <1>6, <2>1, <2>2, <2>3, <2>4 DEF React
<1>7. ASSUME NEW k \in Keys, Timeout(k)
      PROVE  Inv' /\ Steady
  <2>1. CASE CredentialTimeout(k) \/ RestartTimeout(k) \/ ReadyTimeout(k)
    BY <2>1, CredentialTimeoutStep, RestartTimeoutStep, ReadyTimeoutStep
  <2>2. CASE OnlineTimeout(k) \/ StableTimeout(k) \/ TerminationTimeout(k)
    BY <2>2, OnlineTimeoutStep, StableTimeoutStep, TerminationTimeoutStep
  <2>3. CASE \E q \in Requests : RequestTimeout(k, q)
    BY <2>3, ForgetStep
  <2>. QED  BY <1>7, <2>1, <2>2, <2>3 DEF Timeout
<1>8. ASSUME NEW k \in Keys, ChildEvent(k)
      PROVE  Inv' /\ (Steady \/ Ended(k))
  <2>1. CASE ChildExit(k)
    BY <2>1, ChildExitStep
  <2>2. CASE ChildFails(k) \/ ChildReady(k) \/ ChildOnline(k) \/ ChildRefresh(k)
    BY <2>2, ChildFailsStep, ChildReadyStep, ChildOnlineStep, ChildRefreshStep
  <2>3. CASE ChildOffline(k, "offline") \/ ChildOffline(k, "starting")
    <3>1. "offline" \in States /\ "starting" \in States
      BY DEF States
    <3>. QED  BY <2>3, <3>1, ChildOfflineStep
  <2>4. CASE \E q \in Requests : ChildResult(k, q)
    BY <2>4, ForgetStep
  <2>. QED  BY <1>8, <2>1, <2>2, <2>3, <2>4 DEF ChildEvent
<1>9. ASSUME NEW k \in Keys, RefreshSettles(k) \/ \E ok \in BOOLEAN : CredentialSettles(k, ok)
      PROVE  Inv' /\ Steady
  BY <1>9, RefreshSettlesStep, CredentialSettlesStep
<1>. QED  BY <1>1, <1>2, <1>3, <1>4, <1>5, <1>6, <1>7, <1>8, <1>9 DEF Next

(* The inductive invariant holds in every reachable state.                 *)
THEOREM Invariance == Spec => []Inv
<1>1. Inv /\ [Next]_vars => Inv'
  BY NextInv
<1>. QED  BY <1>1, InitInv, PTL DEF Spec

(* Type correctness of the supervisor's state.                             *)
THEOREM TypeCorrect == Spec => []TypeOK
<1>1. Inv => TypeOK
  BY DEF Inv
<1>. QED  BY <1>1, Invariance, PTL

(* At most one worker process per binding, for any number of bindings,     *)
(* credentials and overlapping reconcile(), stop(), restart() and          *)
(* dispose() calls, whatever crashes, times out or survives SIGKILL.       *)
THEOREM AtMostOneWorker == Spec => []OneWorker
<1>1. Inv => OneWorker
  BY DEF Inv, OneWorker
<1>. QED  BY <1>1, Invariance, PTL

(* #records never forgets a process that may still run.                    *)
THEOREM NoOrphanEver == Spec => []NoOrphan
<1>1. Inv => NoOrphan
  BY DEF Inv, NoOrphan, Sound, Shape, Alive
<1>. QED  BY <1>1, Invariance, PTL

(* The worker the supervisor listens to has the binding's credential.      *)
THEOREM CredentialIsCurrent == Spec => []CurrentCredential
<1>1. Inv => CurrentCredential
  BY DEF Inv, CurrentCredential, IsCurrent, OwnsGeneration, Sound, Shape
<1>. QED  BY <1>1, Invariance, PTL

(* The abstract state of a supervisor that satisfies the invariant.        *)
AbsWorker == [k \in Keys |-> IF live[k] > 0 THEN rec[k].childToken ELSE NoToken]

AbsBound == [k \in Keys |-> IF rec[k].desired THEN rec[k].token ELSE NoToken]

(* A slot holds the credential of the process that its record tracks.       *)
LEMMA AbsWorkerValue ==
    ASSUME Inv
    PROVE  \A k \in Keys : AbsWorker[k] = IF Alive(rec[k]) THEN rec[k].childToken ELSE NoToken
BY DEF Inv, AbsWorker

(* What is bound, and what runs, is a credential.                           *)
LEMMA AbsTyped ==
    ASSUME Inv
    PROVE  /\ AbsBound \in [Keys -> Slots!Credentials]
           /\ \A k \in Keys : rec[k].desired => rec[k].token \in Tokens
           /\ \A k \in Keys : Alive(rec[k]) => rec[k].childToken \in Tokens
<1>1. \A k \in Keys : rec[k].desired => rec[k].token \in Tokens
  BY DEF Inv, Sound, Shape
<1>2. \A k \in Keys : Alive(rec[k]) => rec[k].childToken \in Tokens
  BY DEF Inv, Sound, Shape, Alive
<1>3. AbsBound \in [Keys -> Slots!Credentials]
  BY <1>1 DEF AbsBound, Slots!Credentials
<1>. QED  BY <1>1, <1>2, <1>3

(* A steady step rebinds, the others fill or empty a slot.                 *)
LEMMA SteadySlots ==
    ASSUME Inv, Inv', Steady
    PROVE  Slots!Rebind
<1>1. \A k \in Keys : AbsWorker'[k] = AbsWorker[k]
  <2>1. \A k \in Keys : AbsWorker'[k] = IF Alive(rec'[k]) THEN rec'[k].childToken ELSE NoToken
    BY DEF Inv, AbsWorker
  <2>. QED  BY <2>1, AbsWorkerValue DEF Steady, SameWorker
<1>2. AbsWorker' = AbsWorker
  BY <1>1 DEF AbsWorker
<1>3. AbsBound' \in [Keys -> Slots!Credentials]
  <2>1. \A k \in Keys : rec'[k].desired => rec'[k].token \in Tokens
    BY DEF Inv, Sound, Shape
  <2>. QED  BY <2>1 DEF AbsBound, Slots!Credentials
<1>4. disposed' \in BOOLEAN /\ (disposed => disposed')
  BY DEF Inv, TypeOK, Steady
<1>. QED  BY <1>2, <1>3, <1>4 DEF Slots!Rebind, AbsWorker, AbsBound

(* A start or an exit leaves bindings and other slots alone.                *)
LEMMA OthersSlots ==
    ASSUME Inv, Inv', NEW k \in Keys, OthersSame(k)
    PROVE  /\ AbsBound' = AbsBound
           /\ \A j \in Keys \ {k} : AbsWorker'[j] = AbsWorker[j]
<1>1. \A j \in Keys : AbsBound'[j] = AbsBound[j]
  BY DEF OthersSame, Bound, AbsBound
<1>2. AbsBound' = AbsBound
  BY <1>1 DEF AbsBound
<1>3. \A j \in Keys : AbsWorker'[j] = IF Alive(rec'[j]) THEN rec'[j].childToken ELSE NoToken
  BY DEF Inv, AbsWorker
<1>4. \A j \in Keys \ {k} : AbsWorker'[j] = AbsWorker[j]
  BY <1>3, AbsWorkerValue DEF OthersSame, SameWorker
<1>. QED  BY <1>2, <1>4

(* A start fills the empty slot of a wanted binding.                        *)
LEMMA StartedSlots ==
    ASSUME Inv, Inv', NEW k \in Keys, Started(k)
    PROVE  Slots!Start(k)
<1>1. AbsBound' = AbsBound /\ \A j \in Keys \ {k} : AbsWorker'[j] = AbsWorker[j]
  BY OthersSlots DEF Started
<1>2. AbsWorker[k] = NoToken /\ AbsBound[k] = rec[k].token /\ AbsBound[k] # NoToken
  BY AbsWorkerValue, AbsTyped, ConstantsAssumption DEF Started, AbsBound
<1>3. AbsWorker'[k] = rec[k].token
  <2>1. AbsWorker'[k] = IF Alive(rec'[k]) THEN rec'[k].childToken ELSE NoToken
    BY DEF Inv, AbsWorker
  <2>. QED  BY <2>1 DEF Started
<1>4. AbsWorker' = [AbsWorker EXCEPT ![k] = AbsBound[k]]
  BY <1>1, <1>2, <1>3 DEF AbsWorker
<1>5. ~disposed /\ disposed' = disposed
  BY DEF Started, OthersSame
<1>. QED  BY <1>1, <1>2, <1>4, <1>5 DEF Slots!Start, AbsWorker, AbsBound

(* An exit empties its slot.                                                *)
LEMMA EndedSlots ==
    ASSUME Inv, Inv', NEW k \in Keys, Ended(k)
    PROVE  Slots!Exit(k)
<1>1. AbsBound' = AbsBound /\ \A j \in Keys \ {k} : AbsWorker'[j] = AbsWorker[j]
  BY OthersSlots DEF Ended
<1>2. AbsWorker[k] # NoToken
  BY AbsWorkerValue, AbsTyped, ConstantsAssumption DEF Ended
<1>3. AbsWorker'[k] = NoToken
  <2>1. AbsWorker'[k] = IF Alive(rec'[k]) THEN rec'[k].childToken ELSE NoToken
    BY DEF Inv, AbsWorker
  <2>. QED  BY <2>1 DEF Ended
<1>4. AbsWorker' = [AbsWorker EXCEPT ![k] = NoToken]
  BY <1>1, <1>3 DEF AbsWorker
<1>5. disposed' = disposed
  BY DEF Ended, OthersSame
<1>. QED  BY <1>1, <1>2, <1>4, <1>5 DEF Slots!Exit, AbsWorker, AbsBound

(* The supervisor implements WorkerSlots: a worker is only ever started in *)
(* an empty slot, for a binding that is desired, with the credential it    *)
(* refers to, and never after dispose().                                   *)
THEOREM RefinesSlots == Spec => ImplementsSlots
<1>1. Init => Slots!Init
  <2>. SUFFICES ASSUME Init PROVE Slots!Init
    OBVIOUS
  <2>1. \A k \in Keys : live[k] = 0 /\ rec[k] = NewRecord(NoToken)
    BY DEF Init
  <2>2. NewRecord(NoToken).desired = FALSE
    BY DEF NewRecord
  <2>. QED  BY <2>1, <2>2 DEF Init, Slots!Init
<1>2. Inv /\ Inv' /\ [Next]_vars => [Slots!Next]_(Slots!vars)
  <2>. SUFFICES ASSUME Inv, Inv', [Next]_vars PROVE Slots!Next
    OBVIOUS
  <2>1. Steady \/ \E k \in Keys : Started(k) \/ Ended(k)
    BY NextInv
  <2>. QED  BY <2>1, SteadySlots, StartedSlots, EndedSlots DEF Slots!Next
<1>. QED  BY <1>1, <1>2, Invariance, PTL DEF Spec, ImplementsSlots, Slots!Spec

-----------------------------------------------------------------------------
(***************************************************************************)
(* What RongCloudWorkerSupervisor keeps in its records beside the worker:  *)
(* the requests, from their acceptance to their answer, and the state of   *)
(* the binding.                                                            *)
(*                                                                         *)
(* For the requests, nearly every step is a composition of helpers that    *)
(* leave those of a record alone or reject them all (Spares), so that only *)
(* the steps that accept, write and settle a request are looked at one by  *)
(* one.                                                                    *)
(*                                                                         *)
(* The second half is about the state that snapshots() reports. It rests   *)
(* on the reactions that are queued or waiting, taken as a set (Awaits),   *)
(* and on the generations: what a reaction or an attempt may do depends on *)
(* whether its generation is still the record's (Sane).                    *)
(***************************************************************************)

Ascending(s) == \A i, j \in 1..Len(s) : i < j => s[i] < s[j]

(* The requests of one record, with what was written to its workers.       *)
Accounts(r, written) ==
    /\ \A i \in 1..Len(r.buffer) : r.buffer[i] \in r.pending
    /\ r.pending # {} => r.desired
    /\ Cardinality(r.pending) <= MaxPending
    /\ Ascending(r.buffer) /\ Ascending(written)

(* Whatever is pending or written was numbered before, and what waits in   *)
(* the buffer was accepted after all that was written.                     *)
Numbered(r, written, last) ==
    /\ \A q \in r.pending : q <= last
    /\ \A i \in 1..Len(written) : written[i] <= last
    /\ \A i \in 1..Len(written), j \in 1..Len(r.buffer) : written[i] < r.buffer[j]

(* A worker that is routable has been sent the buffer; none is routable    *)
(* while the next one is being started.                                    *)
Starting(r) == r.attempt \in {"lookup", "granted"}

Flushed(r) ==
    /\ r.routable /\ r.child => r.buffer = <<>>
    /\ Starting(r) => ~r.routable

RequestsInv ==
    \A k \in Keys : Accounts(rec[k], wire[k]) /\ Numbered(rec[k], wire[k], sequence) /\ Flushed(rec[k])

-----------------------------------------------------------------------------
(* Helpers that leave the requests alone, or reject them all.              *)

(* The fields the requests depend on.                                      *)
Carries(r) == {"pending", "buffer", "desired", "routable", "child", "attempt"} \subseteq DOMAIN r

(* From r to s no request is added or lost, unless they all are rejected,  *)
(* and the worker does not become routable.                                *)
Spares(r, s) ==
    /\ Carries(s)
    /\ \/ s.pending = {} /\ s.buffer = <<>>
       \/ s.pending = r.pending /\ s.buffer = r.buffer /\ (r.desired => s.desired)
    /\ s.routable => r.routable
    /\ s.routable /\ s.child => r.child
    /\ s.routable /\ Starting(s) => Starting(r)

(* From r to s none of these fields changes.                               *)
Same(r, s) ==
    /\ Carries(s)
    /\ s.pending = r.pending /\ s.buffer = r.buffer /\ s.desired = r.desired
    /\ s.routable = r.routable /\ s.child = r.child /\ s.attempt = r.attempt

LEMMA RecordCarries == \A r \in Records : Carries(r)
  BY DEF Records, Carries

LEMMA SparesTrans ==
    ASSUME NEW r, NEW s, NEW t, Spares(r, s), Spares(s, t)
    PROVE  Spares(r, t)
<1>1. t.routable => s.routable /\ r.routable
  BY DEF Spares
<1> QED BY <1>1 DEF Spares

LEMMA SameSpares == ASSUME NEW r, NEW s, Same(r, s) PROVE Spares(r, s)
  BY DEF Same, Spares, Starting

LEMMA SparesSelf == ASSUME NEW r, Carries(r) PROVE Spares(r, r)
  BY DEF Spares

LEMMA TimersSpare ==
    ASSUME NEW r, Carries(r)
    PROVE  Same(r, CancelStartupTimers(r)) /\ Same(r, CancelLifecycleTimers(r))
<1>1. Same(r, CancelStartupTimers(r))
  BY DEF CancelStartupTimers, Same, Carries
<1> DEFINE s == CancelStartupTimers(r)
<1>2. Same(r, s)
  BY <1>1
<1> HIDE DEF s
<1>3. ASSUME NEW n PROVE Same(s, [s EXCEPT !.stableTimer = FALSE, !.restartTimer = FALSE, !.armed = n])
  BY <1>2 DEF Same, Carries
<1>4. Same(s, CancelLifecycleTimers(r))
  BY <1>3 DEF CancelLifecycleTimers, s
<1> QED BY <1>1, <1>2, <1>4 DEF Same

LEMMA RejectSpares ==
    ASSUME NEW r, Carries(r)
    PROVE  LET s == RejectPending(r)
           IN  /\ Carries(s) /\ s.pending = {} /\ s.buffer = <<>> /\ s.desired = r.desired
               /\ s.routable = r.routable /\ s.child = r.child /\ s.attempt = r.attempt
  BY DEF RejectPending, Carries

LEMMA QuietSpares ==
    ASSUME NEW r, Carries(r), NEW state
    PROVE  LET s == Quiet(r, state)
           IN  /\ Carries(s) /\ s.pending = r.pending /\ s.buffer = r.buffer /\ s.desired = r.desired
               /\ ~s.routable /\ s.child = r.child /\ s.attempt = r.attempt
  BY DEF Quiet, Carries

LEMMA ReleaseSpares == ASSUME NEW r, Carries(r) PROVE Same(r, ReleaseLifecycle(r))
  BY DEF ReleaseLifecycle, Same, Carries

LEMMA ThenSpares == ASSUME NEW r, Carries(r), NEW m PROVE Same(r, Then(r, m))
  BY DEF Then, Same, Carries

LEMMA ResolveSpares == ASSUME NEW r, Carries(r), NEW reaped PROVE Same(r, Resolve(r, reaped))
<1>1. ASSUME NEW q PROVE Same(r, [r EXCEPT !.waiters = <<>>, !.micro = q])
  BY DEF Same, Carries
<1> QED BY <1>1 DEF Resolve

(* #terminate detaches the child at most.                                  *)
LEMMA TerminateSpares ==
    ASSUME NEW r, Carries(r), NEW w
    PROVE  LET s == Terminate(r, w)
           IN  /\ Carries(s) /\ s.pending = r.pending /\ s.buffer = r.buffer /\ s.desired = r.desired
               /\ s.routable = r.routable /\ (s.child = r.child \/ ~s.child) /\ s.attempt = r.attempt
<1> DEFINE Fine(s) == /\ Carries(s) /\ s.pending = r.pending /\ s.buffer = r.buffer /\ s.desired = r.desired
                      /\ s.routable = r.routable /\ (s.child = r.child \/ ~s.child) /\ s.attempt = r.attempt
<1>1. \A m : Fine(Then(r, m))
  BY ThenSpares DEF Same
<1>2. \A q : Fine([r EXCEPT !.waiters = q])
  BY DEF Carries
<1>3. \A q, lc : Fine([r EXCEPT !.child = FALSE, !.waiters = q, !.lc = lc])
  BY DEF Carries
<1>4. Fine(Then(ReleaseLifecycle([r EXCEPT !.child = FALSE]), w))
  <2> DEFINE s == [r EXCEPT !.child = FALSE]
  <2>1. Fine(s) /\ ~s.child
    BY DEF Carries
  <2> HIDE DEF s
  <2>2. Same(s, ReleaseLifecycle(s)) /\ Carries(ReleaseLifecycle(s))
    BY <2>1, ReleaseSpares DEF Same
  <2>3. Same(ReleaseLifecycle(s), Then(ReleaseLifecycle(s), w))
    BY <2>2, ThenSpares
  <2>4. Fine(Then(ReleaseLifecycle(s), w))
    BY <2>1, <2>2, <2>3 DEF Same
  <2> QED BY <2>4 DEF s
<1> HIDE DEF Fine
<1>5. Fine(Terminate(r, w))
  BY <1>1, <1>2, <1>3, <1>4 DEF Terminate
<1> QED BY <1>5 DEF Fine

(* A chain that ends in the rejection of all requests.                     *)
LEMMA RetireSpares ==
    ASSUME NEW r, Carries(r), NEW state, NEW w
    PROVE  /\ Spares(r, Terminate(RejectPending(Quiet(CancelLifecycleTimers(r), state)), w))
           /\ Spares(r, Terminate(Quiet(RejectPending(CancelLifecycleTimers(r)), state), w))
           /\ Spares(r, Terminate(RejectPending(CancelLifecycleTimers(r)), w))
<1> DEFINE a == CancelLifecycleTimers(r)
<1>1. Same(r, a) /\ Carries(a)
  BY TimersSpare DEF Same
<1> HIDE DEF a
<1> DEFINE b == Quiet(a, state)
           c == RejectPending(b)
           d == RejectPending(a)
           e == Quiet(d, state)
<1>2. Carries(b) /\ ~b.routable
  BY <1>1, QuietSpares
<1>3. Carries(d) /\ d.pending = {} /\ d.buffer = <<>> /\ d.routable = a.routable /\ d.child = a.child /\ d.attempt = a.attempt
  BY <1>1, RejectSpares
<1> HIDE DEF b, d
<1>4. Carries(c) /\ c.pending = {} /\ c.buffer = <<>> /\ ~c.routable
  BY <1>2, RejectSpares
<1>5. Carries(e) /\ e.pending = {} /\ e.buffer = <<>> /\ ~e.routable
  BY <1>3, QuietSpares
<1> HIDE DEF c, e
<1>6. Spares(r, Terminate(c, w)) /\ Spares(r, Terminate(e, w))
  BY <1>4, <1>5, TerminateSpares DEF Spares
<1>7. Spares(r, Terminate(d, w))
  BY <1>1, <1>3, TerminateSpares DEF Spares, Same, Starting
<1> QED BY <1>6, <1>7 DEF a, b, c, d, e

LEMMA FailSpares ==
    ASSUME NEW r, Carries(r), NEW g
    PROVE  /\ Spares(r, FailRecord(r, g))
           /\ OwnsGeneration(r, g) => LET s == FailRecord(r, g)
                                      IN  Carries(s) /\ s.pending = {} /\ s.buffer = <<>> /\ ~s.routable
<1>1. CASE ~OwnsGeneration(r, g)
  BY <1>1, SparesSelf DEF FailRecord
<1>2. CASE OwnsGeneration(r, g)
  <2> DEFINE w == [Reaction("fail") EXCEPT !.gen = g]
             a == CancelStartupTimers(r)
             b == [a EXCEPT !.failedGen = g, !.stableTimer = FALSE, !.restartCount = @ + 1]
             c == Quiet(b, "backoff")
             d == RejectPending(c)
  <2>1. FailRecord(r, g) = Terminate(d, w)
    BY <1>2 DEF FailRecord
  <2>2. Carries(a)
    BY TimersSpare DEF Same
  <2> HIDE DEF a, w
  <2>3. Carries(b)
    BY <2>2 DEF Carries
  <2> HIDE DEF b
  <2>4. Carries(c) /\ ~c.routable
    BY <2>3, QuietSpares
  <2> HIDE DEF c
  <2>5. Carries(d) /\ d.pending = {} /\ d.buffer = <<>> /\ ~d.routable
    BY <2>4, RejectSpares
  <2> HIDE DEF d
  <2>6. LET s == Terminate(d, w) IN Carries(s) /\ s.pending = {} /\ s.buffer = <<>> /\ ~s.routable
    BY <2>5, TerminateSpares
  <2> QED BY <2>1, <2>6 DEF Spares
<1> QED BY <1>1, <1>2


(* #spawn: no worker is routable while its successor is started.           *)
LEMMA SpawnSpares == ASSUME NEW r, Carries(r) PROVE Spares(r, Spawn(r))
<1>1. CASE ~MaySpawn(r)
  BY <1>1, SparesSelf DEF Spawn
<1>2. CASE MaySpawn(r) /\ r.attempt # "none"
  <2>1. \A b : Same(r, [r EXCEPT !.respawn = b])
    BY DEF Same, Carries
  <2>2. \E b : Spawn(r) = [r EXCEPT !.respawn = b]
    BY <1>2 DEF Spawn
  <2> QED BY <2>1, <2>2, SameSpares
<1>3. CASE MaySpawn(r) /\ r.attempt = "none"
  <2> DEFINE q == Quiet(r, "starting")
             s == [q EXCEPT !.gen = @ + 1, !.spawnGen = r.gen + 1, !.failedGen = 0, !.refresh = "none"]
  <2>1. Spawn(r) = BoundedCredential(s)
    BY <1>3 DEF Spawn
  <2>2. Carries(q) /\ q.pending = r.pending /\ q.buffer = r.buffer /\ q.desired = r.desired /\ ~q.routable
    BY QuietSpares
  <2> HIDE DEF q
  <2>3. Carries(s) /\ s.pending = r.pending /\ s.buffer = r.buffer /\ s.desired = r.desired /\ ~s.routable
    BY <2>2 DEF Carries
  <2> HIDE DEF s
  <2> DEFINE Fine(t) == Carries(t) /\ t.pending = s.pending /\ t.buffer = s.buffer /\ t.desired = s.desired /\ ~t.routable
  <2>4. \A x : Fine([s EXCEPT !.attempt = "lookup", !.lookup = "open", !.credential = x])
    BY <2>3 DEF Carries
  <2>5. Fine([s EXCEPT !.attempt = "lookup"]) /\ Fine([s EXCEPT !.attempt = "refused"])
    BY <2>3 DEF Carries
  <2> HIDE DEF Fine
  <2>6. Fine(BoundedCredential(s))
    BY <2>4, <2>5 DEF BoundedCredential
  <2> QED BY <2>1, <2>3, <2>6 DEF Fine, Spares
<1> QED BY <1>1, <1>2, <1>3

LEMMA AwaitSpawnSpares == ASSUME NEW r, Carries(r) PROVE Spares(r, AwaitSpawn(r))
<1>1. \A s, x : Carries(s) => Same(s, [s EXCEPT !.restart = x])
  BY DEF Same, Carries
<1>2. CASE ~MaySpawn(r)
  BY <1>1, <1>2, SameSpares DEF AwaitSpawn
<1>3. CASE MaySpawn(r)
  <2>1. PICK x : AwaitSpawn(r) = [Spawn(r) EXCEPT !.restart = x]
    BY <1>3 DEF AwaitSpawn
  <2>2. Spares(r, Spawn(r)) /\ Carries(Spawn(r))
    BY SpawnSpares DEF Spares
  <2> QED BY <1>1, <2>1, <2>2, SameSpares, SparesTrans
<1> QED BY <1>2, <1>3

LEMMA RestartSpares == ASSUME NEW r, Carries(r), NEW queue PROVE Spares(r, RestartRecord(r, queue))
<1>1. CASE r.restart # "none"
  <2>1. \A b : Same(r, [r EXCEPT !.requeue = b])
    BY DEF Same, Carries
  <2> QED BY <1>1, <2>1, SameSpares DEF RestartRecord
<1>2. CASE r.restart = "none"
  <2> DEFINE a == [r EXCEPT !.gen = @ + 1, !.restart = "terminate"]
             w == [Reaction("restart") EXCEPT !.gen = r.gen + 1]
             s == Terminate(RejectPending(Quiet(CancelLifecycleTimers(a), "backoff")), w)
  <2>1. RestartRecord(r, queue) = s
    BY <1>2 DEF RestartRecord, PerformRestart
  <2>2. Same(r, a) /\ Carries(a)
    BY DEF Same, Carries
  <2> HIDE DEF a, w
  <2>3. Spares(a, s)
    BY <2>2, RetireSpares
  <2> QED BY <2>1, <2>2, <2>3, SameSpares, SparesTrans
<1> QED BY <1>1, <1>2

(* A binding that is no longer desired has no requests: removal, stop and  *)
(* disposal reject them.                                                   *)
LEMMA RetiredSpares ==
    ASSUME NEW r, Carries(r), NEW x, NEW state, NEW w
    PROVE  LET a == [r EXCEPT !.desired = FALSE, !.gen = @ + 1, !.removeWhenReaped = x]
           IN  /\ Spares(r, Terminate(Quiet(RejectPending(CancelLifecycleTimers(a)), state), w))
               /\ Spares(r, Terminate(RejectPending(CancelLifecycleTimers(a)), w))
               /\ Spares(r, Terminate(Quiet(RejectPending(CancelLifecycleTimers(CancelLookup(a))), state), w))
<1> DEFINE a == [r EXCEPT !.desired = FALSE, !.gen = @ + 1, !.removeWhenReaped = x]
<1>1. Carries(a) /\ a.routable = r.routable /\ a.child = r.child /\ a.attempt = r.attempt
  BY DEF Carries
<1> HIDE DEF a
<1> DEFINE l == CancelLookup(a)
<1>2. Carries(l) /\ l.routable = r.routable /\ l.child = r.child /\ (l.attempt = r.attempt \/ ~Starting(l))
  <2>1. CASE a.lookup = "open"
    <3>1. l = [a EXCEPT !.lookup = "blocked", !.attempt = "refused"]
      BY <2>1 DEF CancelLookup
    <3>2. Carries(l) /\ l.routable = a.routable /\ l.child = a.child /\ l.attempt = "refused"
      BY <1>1, <3>1 DEF Carries
    <3> QED BY <1>1, <3>2 DEF Starting
  <2>2. CASE a.lookup # "open"
    BY <1>1, <2>2 DEF CancelLookup
  <2> QED BY <2>1, <2>2
<1> HIDE DEF l
<1>3. ASSUME NEW b, Carries(b), b.routable = r.routable, b.child = r.child, b.attempt = r.attempt \/ ~Starting(b)
      PROVE  /\ Spares(r, Terminate(Quiet(RejectPending(CancelLifecycleTimers(b)), state), w))
             /\ Spares(r, Terminate(RejectPending(CancelLifecycleTimers(b)), w))
  <2> DEFINE c == CancelLifecycleTimers(b)
             d == RejectPending(c)
             e == Quiet(d, state)
  <2>1. Same(b, c) /\ Carries(c)
    BY <1>3, TimersSpare DEF Same
  <2> HIDE DEF c
  <2>2. Carries(d) /\ d.pending = {} /\ d.buffer = <<>> /\ d.routable = c.routable /\ d.child = c.child /\ d.attempt = c.attempt
    BY <2>1, RejectSpares
  <2> HIDE DEF d
  <2>3. Carries(e) /\ e.pending = {} /\ e.buffer = <<>> /\ ~e.routable
    BY <2>2, QuietSpares
  <2> HIDE DEF e
  <2>4. Spares(r, Terminate(e, w))
    BY <2>3, TerminateSpares DEF Spares
  <2>5. Spares(r, Terminate(d, w))
    BY <1>3, <2>1, <2>2, TerminateSpares DEF Spares, Same, Starting
  <2> QED BY <2>4, <2>5 DEF c, d, e
<1> QED BY <1>1, <1>2, <1>3 DEF a, l

LEMMA NewSpares == ASSUME NEW r, NEW token PROVE Spares(r, NewRecord(token))
  BY DEF NewRecord, Spares, Carries

LEMMA DeleteSpares ==
    ASSUME NEW r, Carries(r)
    PROVE  Spares(r, Delete(r)) /\ Spares(r, DeleteDormantRecord(r))
<1> DEFINE n == NewRecord(NoToken)
<1>1. Spares(r, n) /\ Carries(n)
  BY NewSpares DEF Spares
<1> HIDE DEF n
<1>2. \A q : Same(n, [n EXCEPT !.micro = q])
  BY <1>1 DEF Same, Carries
<1>3. Spares(r, Delete(r))
  BY <1>1, <1>2, SameSpares, SparesTrans DEF Delete, n
<1> QED BY <1>3, SparesSelf DEF DeleteDormantRecord

LEMMA ReaddSpares == ASSUME NEW r, Carries(r), NEW token PROVE Spares(r, Readd(r, token))
<1>1. CASE ~r.present
  <2> DEFINE n == NewRecord(token)
             s == [n EXCEPT !.micro = r.micro]
  <2>1. Spares(r, n) /\ Carries(n)
    BY NewSpares DEF Spares
  <2>2. Readd(r, token) = Spawn(s)
    BY <1>1 DEF Readd
  <2> HIDE DEF n
  <2>3. Same(n, s) /\ Carries(s)
    BY <2>1 DEF Same, Carries
  <2> HIDE DEF s
  <2> QED BY <2>1, <2>2, <2>3, SpawnSpares, SameSpares, SparesTrans
<1>2. CASE r.present
  <2> DEFINE s == Rebound(r, token)
  <2>1. Carries(s) /\ Spares(r, s)
    <3>1. /\ Carries(s) /\ s.pending = r.pending /\ s.buffer = r.buffer /\ s.desired
          /\ s.routable = r.routable /\ s.child = r.child /\ s.attempt = r.attempt
      BY DEF Rebound, Carries
    <3> HIDE DEF s
    <3> QED BY <3>1 DEF Spares, Starting
  <2> HIDE DEF s
  <2>2. \A q : Same(s, [s EXCEPT !.waiters = q])
    BY <2>1 DEF Same, Carries
  <2>3. \/ Readd(r, token) = s
        \/ Readd(r, token) = [s EXCEPT !.waiters = Append(@, Reaction("readd"))]
        \/ Readd(r, token) = RestartRecord(s, TRUE)
        \/ Readd(r, token) = Spawn(s)
    BY <1>2 DEF Readd, s
  <2>4. Spares(s, Readd(r, token))
    BY <2>1, <2>2, <2>3, SparesSelf, SameSpares, RestartSpares, SpawnSpares
  <2> QED BY <2>1, <2>4, SparesTrans
<1> QED BY <1>1, <1>2

LEMMA ExitedSpares == ASSUME NEW r, Carries(r) PROVE Spares(r, Exited(r))
<1>1. CASE r.lc = "abandoned"
  <2> DEFINE f == ReleaseLifecycle(r)
  <2>1. Same(r, f) /\ Carries(f)
    BY ReleaseSpares DEF Same
  <2>2. Exited(r) = IF f.removeWhenReaped /\ ~f.desired THEN Delete(f) ELSE f
    BY <1>1 DEF Exited, Terminating
  <2> HIDE DEF f
  <2>3. Spares(r, f) /\ Spares(f, Delete(f))
    BY <2>1, SameSpares, DeleteSpares
  <2>4. Spares(r, Delete(f))
    BY <2>3, SparesTrans
  <2> QED BY <2>2, <2>3, <2>4
<1>2. CASE r.lc # "abandoned"
  <2> DEFINE e == [r EXCEPT !.exited = TRUE]
  <2>1. Same(r, e) /\ Carries(e)
    BY DEF Same, Carries
  <2>2. Exited(r) \in {e, FailRecord(e, r.childGen)}
    BY <1>2 DEF Exited
  <2> HIDE DEF e
  <2>3. Spares(r, e) /\ Spares(e, FailRecord(e, r.childGen))
    BY <2>1, SameSpares, FailSpares
  <2> QED BY <2>2, <2>3, SparesTrans
<1> QED BY <1>1, <1>2


-----------------------------------------------------------------------------
(* The steps that touch no request but to reject it.                       *)

Spared == (\A k \in Keys : Spares(rec[k], rec'[k])) /\ UNCHANGED <<wire, sequence>>

LEMMA SparedRecord ==
    ASSUME NEW r, NEW s, NEW written, NEW last,
           Accounts(r, written), Numbered(r, written, last), Flushed(r), Spares(r, s)
    PROVE  Accounts(s, written) /\ Numbered(s, written, last) /\ Flushed(s)
<1>1. CASE s.pending = {} /\ s.buffer = <<>>
  <2>1. Cardinality(s.pending) = 0 /\ Len(s.buffer) = 0 /\ 0 <= MaxPending
    BY <1>1, FS_EmptySet, ConstantsAssumption
  <2>2. Accounts(s, written)
    BY <1>1, <2>1 DEF Accounts, Ascending
  <2>3. Numbered(s, written, last)
    BY <1>1, <2>1 DEF Numbered
  <2>4. Flushed(s)
    BY <1>1 DEF Flushed, Spares
  <2> QED BY <2>2, <2>3, <2>4
<1>2. CASE s.pending = r.pending /\ s.buffer = r.buffer /\ (r.desired => s.desired)
  <2>1. Accounts(s, written)
    BY <1>2 DEF Accounts
  <2>2. Numbered(s, written, last)
    BY <1>2 DEF Numbered
  <2>3. Flushed(s)
    BY <1>2 DEF Flushed, Spares
  <2> QED BY <2>1, <2>2, <2>3
<1> QED BY <1>1, <1>2 DEF Spares

LEMMA SparedKept == ASSUME RequestsInv, Spared PROVE RequestsInv'
  BY SparedRecord DEF RequestsInv, Spared

LEMMA AlteredSpared ==
    ASSUME Inv, NEW k \in Keys, NEW r, rec' = [rec EXCEPT ![k] = r], Spares(rec[k], r), UNCHANGED <<wire, sequence>>
    PROVE  Spared
<1>1. rec \in [Keys -> Records]
  BY DEF Inv, TypeOK
<1>2. \A j \in Keys : Spares(rec[j], rec[j])
  BY <1>1, RecordCarries, SparesSelf
<1> QED BY <1>1, <1>2 DEF Spared

LEMMA BecomesSpared ==
    ASSUME Inv, NEW k \in Keys, NEW r, Becomes(k, r), Spares(rec[k], r) PROVE Spared
  BY AlteredSpared DEF Becomes

LEMMA KeyCarries == ASSUME Inv, NEW k \in Keys PROVE Carries(rec[k]) /\ Spares(rec[k], rec[k])
  BY RecordCarries, SparesSelf DEF Inv, TypeOK

LEMMA PoppedSpares == ASSUME Inv, NEW k \in Keys PROVE Same(rec[k], Popped(k)) /\ Carries(Popped(k)) /\ Spares(rec[k], Popped(k))
<1> DEFINE r == rec[k]
<1>1. Carries(r)
  BY KeyCarries
<1> HIDE DEF r
<1>2. \A q : Same(r, [r EXCEPT !.micro = q])
  BY <1>1 DEF Same, Carries
<1>3. Same(r, Popped(k))
  BY <1>2 DEF Popped, r
<1> QED BY <1>3, SameSpares DEF Same, r

LEMMA OnStoppedSpared == ASSUME Inv, NEW k \in Keys, OnStopped(k) PROVE Spared
<1>1. Spares(Popped(k), Quiet(Popped(k), "stopped"))
  BY PoppedSpares, QuietSpares DEF Spares
<1> QED BY <1>1, PoppedSpares, SparesTrans, BecomesSpared DEF OnStopped

LEMMA OnVoidSpared == ASSUME Inv, NEW k \in Keys, OnVoid(k) PROVE Spared
  BY PoppedSpares, BecomesSpared DEF OnVoid

LEMMA PoppedDeleted == ASSUME Inv, NEW k \in Keys PROVE Spares(rec[k], Delete(Popped(k)))
  BY PoppedSpares, DeleteSpares, SparesTrans

LEMMA OnRemovedSpared == ASSUME Inv, NEW k \in Keys, OnRemoved(k) PROVE Spared
<1>1. PICK r \in {Delete(Popped(k)), Popped(k)} : rec' = [rec EXCEPT ![k] = r] /\ UNCHANGED <<wire, sequence>>
  BY DEF OnRemoved
<1> QED BY <1>1, PoppedSpares, PoppedDeleted, AlteredSpared

LEMMA OnDisposedSpared == ASSUME Inv, NEW k \in Keys, OnDisposed(k) PROVE Spared
<1>1. PICK r \in {Delete(Popped(k)), Popped(k)} : Becomes(k, r)
  BY DEF OnDisposed
<1> QED BY <1>1, PoppedSpares, PoppedDeleted, BecomesSpared

LEMMA OnFailedSpared == ASSUME Inv, NEW k \in Keys, OnFailed(k) PROVE Spared
<1> DEFINE r == Popped(k)
<1>1. Carries(r) /\ Spares(rec[k], r)
  BY PoppedSpares
<1>2. \/ Becomes(k, r)
      \/ \E b, n : Becomes(k, [r EXCEPT !.restartTimer = b, !.armed = n])
  BY DEF OnFailed
<1> HIDE DEF r
<1>3. \A b, n : Same(r, [r EXCEPT !.restartTimer = b, !.armed = n])
  BY <1>1 DEF Same, Carries
<1>4. \A b, n : Spares(rec[k], [r EXCEPT !.restartTimer = b, !.armed = n])
  BY <1>1, <1>3, SameSpares, SparesTrans
<1> QED BY <1>1, <1>2, <1>4, BecomesSpared

LEMMA OnRestartSpared == ASSUME Inv, NEW k \in Keys, OnRestart(k) PROVE Spared
<1> DEFINE r == Popped(k)
           q == Quiet(r, "starting")
           t == CancelLifecycleTimers(q)
           s == [t EXCEPT !.restartCount = 0, !.failedGen = 0]
<1>1. Carries(r) /\ Spares(rec[k], r)
  BY PoppedSpares
<1>2. PICK x \in {AwaitSpawn(s), [r EXCEPT !.restart = "over"]} : Becomes(k, x)
  BY DEF OnRestart
<1> HIDE DEF r
<1>3. Spares(r, [r EXCEPT !.restart = "over"])
  <2>1. Same(r, [r EXCEPT !.restart = "over"])
    BY <1>1 DEF Same, Carries
  <2> QED BY <2>1, SameSpares
<1>4. Spares(r, q) /\ Carries(q)
  BY <1>1, QuietSpares DEF Spares
<1> HIDE DEF q
<1>5. Same(q, t) /\ Carries(t)
  BY <1>4, TimersSpare DEF Same
<1> HIDE DEF t
<1>6. Same(t, s) /\ Carries(s)
  BY <1>5 DEF Same, Carries
<1> HIDE DEF s
<1>7. Spares(q, t) /\ Spares(t, s) /\ Spares(s, AwaitSpawn(s))
  BY <1>5, <1>6, SameSpares, AwaitSpawnSpares
<1>8. Spares(r, AwaitSpawn(s))
  BY <1>4, <1>7, SparesTrans
<1>9. Spares(rec[k], x)
  BY <1>1, <1>3, <1>8, SparesTrans
<1> QED BY <1>2, <1>9, BecomesSpared

LEMMA OnRestartedSpared == ASSUME Inv, NEW k \in Keys, OnRestarted(k) PROVE Spared
<1> DEFINE r == rec[k]
           s == [r EXCEPT !.restart = "none", !.requeue = FALSE]
<1>1. PICK x \in {RestartRecord(s, FALSE), s} : Becomes(k, x)
  BY DEF OnRestarted
<1>2. Carries(r)
  BY KeyCarries
<1> HIDE DEF r
<1>3. Same(r, s) /\ Carries(s)
  BY <1>2 DEF Same, Carries
<1> HIDE DEF s
<1>4. Spares(r, s) /\ Spares(s, RestartRecord(s, FALSE))
  BY <1>3, SameSpares, RestartSpares
<1>5. Spares(r, x)
  BY <1>4, SparesTrans
<1> QED BY <1>1, <1>5, BecomesSpared DEF r

LEMMA OnReaddSpared == ASSUME Inv, NEW k \in Keys, OnReadd(k) PROVE Spared
<1>1. PICK x \in {Spawn(Popped(k)), Popped(k)} : Becomes(k, x)
  BY DEF OnReadd
<1>2. Spares(rec[k], x)
  BY PoppedSpares, SpawnSpares, SparesTrans
<1> QED BY <1>1, <1>2, BecomesSpared

LEMMA OnReapedSpared == ASSUME Inv, NEW k \in Keys, OnReaped(k) PROVE Spared
<1> DEFINE r == ReleaseLifecycle(rec[k])
<1>1. Same(rec[k], r) /\ Carries(r)
  BY KeyCarries, ReleaseSpares DEF Same
<1>2. Becomes(k, Resolve(r, TRUE))
  BY DEF OnReaped
<1> HIDE DEF r
<1>3. Spares(rec[k], r) /\ Spares(r, Resolve(r, TRUE))
  BY <1>1, SameSpares, ResolveSpares
<1> QED BY <1>2, <1>3, SparesTrans, BecomesSpared

LEMMA OnSpawnedSpared == ASSUME Inv, NEW k \in Keys, OnSpawned(k) PROVE Spared
<1> DEFINE r == rec[k]
           a == [r EXCEPT !.attempt = "none", !.spawnGen = 0]
           clear == DeleteDormantRecord(a)
           next == [clear EXCEPT !.respawn = FALSE]
           over == [next EXCEPT !.restart = "over"]
<1>1. PICK x \in {AwaitSpawn(next), Spawn(next), Spawn(over), next, over} : Becomes(k, x)
  BY DEF OnSpawned
<1>2. Carries(r)
  BY KeyCarries
<1> HIDE DEF r
<1>3. Carries(a) /\ Spares(r, a)
  <2>1. /\ Carries(a) /\ a.pending = r.pending /\ a.buffer = r.buffer /\ a.desired = r.desired
        /\ a.routable = r.routable /\ a.child = r.child /\ a.attempt = "none"
    BY <1>2 DEF Carries
  <2> HIDE DEF a
  <2> QED BY <2>1 DEF Spares, Starting
<1> HIDE DEF a
<1>4. Carries(clear) /\ Spares(a, clear)
  BY <1>3, DeleteSpares DEF Spares
<1> HIDE DEF clear
<1>5. Carries(next) /\ Same(clear, next)
  BY <1>4 DEF Same, Carries
<1> HIDE DEF next
<1>6. Carries(over) /\ Same(next, over)
  BY <1>5 DEF Same, Carries
<1> HIDE DEF over
<1>7. Spares(r, next)
  BY <1>3, <1>4, <1>5, SameSpares, SparesTrans
<1>8. Spares(next, x)
  BY <1>5, <1>6, SameSpares, SparesSelf, SpawnSpares, AwaitSpawnSpares, SparesTrans
<1>9. Spares(r, x)
  BY <1>7, <1>8, SparesTrans
<1> QED BY <1>1, <1>9, BecomesSpared DEF r


LEMMA OverSpares ==
    ASSUME Inv, NEW k \in Keys
    PROVE  LET s == [rec[k] EXCEPT !.attempt = "over"]
           IN  /\ Carries(s) /\ Spares(rec[k], s) /\ s.routable = rec[k].routable
               /\ s.pending = rec[k].pending /\ s.buffer = rec[k].buffer /\ s.desired = rec[k].desired
<1> DEFINE r == rec[k]
           s == [r EXCEPT !.attempt = "over"]
<1>1. Carries(r)
  BY KeyCarries
<1> HIDE DEF r
<1>2. /\ Carries(s) /\ s.pending = r.pending /\ s.buffer = r.buffer /\ s.desired = r.desired
      /\ s.routable = r.routable /\ s.child = r.child /\ s.attempt = "over"
  BY <1>1 DEF Carries
<1> HIDE DEF s
<1>3. Spares(r, s)
  BY <1>2 DEF Spares, Starting
<1> QED BY <1>2, <1>3 DEF r, s

LEMMA OnNoCredentialSpared == ASSUME Inv, NEW k \in Keys, OnNoCredential(k) PROVE Spared
<1> DEFINE s == [rec[k] EXCEPT !.attempt = "over"]
<1>1. Carries(s) /\ Spares(rec[k], s)
  BY OverSpares
<1>2. PICK x \in {s, [s EXCEPT !.state = "backoff"]} : Becomes(k, x)
  BY DEF OnNoCredential
<1> HIDE DEF s
<1>3. Same(s, [s EXCEPT !.state = "backoff"])
  BY <1>1 DEF Same, Carries
<1>4. Spares(rec[k], x)
  BY <1>1, <1>3, SameSpares, SparesTrans
<1> QED BY <1>2, <1>4, BecomesSpared

(* A new worker is not routable: its record was not while it was started.  *)
LEMMA OnCredentialSpared == ASSUME Inv, RequestsInv, NEW k \in Keys, OnCredential(k) PROVE Spared
<1> DEFINE s == [rec[k] EXCEPT !.attempt = "over"]
           t == Tracked(s)
<1>1. /\ Carries(s) /\ s.routable = rec[k].routable
      /\ s.pending = rec[k].pending /\ s.buffer = rec[k].buffer /\ s.desired = rec[k].desired
  BY OverSpares
<1>2. ~rec[k].routable
  BY DEF OnCredential, RequestsInv, Flushed, Starting
<1>3. PICK x \in {t, FailRecord(t, s.spawnGen)} : rec' = [rec EXCEPT ![k] = x] /\ UNCHANGED <<wire, sequence>>
  BY DEF OnCredential
<1> HIDE DEF s
<1>4. Carries(t) /\ t.routable = s.routable /\ t.pending = s.pending /\ t.buffer = s.buffer /\ t.desired = s.desired
  BY <1>1 DEF Tracked, Carries
<1> HIDE DEF t
<1>5. Spares(rec[k], t)
  BY <1>1, <1>2, <1>4 DEF Spares
<1>6. Spares(rec[k], x)
  BY <1>4, <1>5, FailSpares, SparesTrans
<1> QED BY <1>3, <1>6, AlteredSpared

LEMMA FailedSpares ==
    ASSUME NEW r, NEW s, NEW g, Carries(s), Spares(r, s) PROVE Spares(r, FailRecord(s, g))
  BY FailSpares, SparesTrans

LEMMA OnSpawnThrowsSpared == ASSUME Inv, NEW k \in Keys, OnSpawnThrows(k) PROVE Spared
<1> DEFINE s == [rec[k] EXCEPT !.attempt = "over"]
<1>1. Carries(s) /\ Spares(rec[k], s)
  BY OverSpares
<1>2. Becomes(k, FailRecord(s, s.spawnGen))
  BY DEF OnSpawnThrows
<1> HIDE DEF s
<1> QED BY <1>1, <1>2, FailedSpares, BecomesSpared

LEMMA CredentialSettlesSpared ==
    ASSUME Inv, NEW k \in Keys, NEW ok \in BOOLEAN, CredentialSettles(k, ok) PROVE Spared
<1> DEFINE r == rec[k]
           a == IF r.lookup # "open" THEN r.attempt ELSE IF ok THEN "granted" ELSE "refused"
           s == [r EXCEPT !.lookup = "none", !.attempt = a]
<1>1. Carries(r) /\ (r.lookup = "open" => r.attempt = "lookup")
  BY KeyCarries DEF Inv, Sound, Shape
<1>2. Becomes(k, DeleteDormantRecord(s))
  BY DEF CredentialSettles
<1> HIDE DEF r
<1>3. a \in {"lookup", "granted"} => Starting(r)
  BY <1>1 DEF Starting
<1> HIDE DEF a
<1>4. /\ Carries(s) /\ s.pending = r.pending /\ s.buffer = r.buffer /\ s.desired = r.desired
      /\ s.routable = r.routable /\ s.child = r.child /\ s.attempt = a
  BY <1>1 DEF Carries
<1> HIDE DEF s
<1>5. Spares(r, s)
  BY <1>3, <1>4 DEF Spares, Starting
<1>6. Spares(r, DeleteDormantRecord(s))
  BY <1>4, <1>5, DeleteSpares, SparesTrans
<1> QED BY <1>2, <1>6, BecomesSpared DEF r

LEMMA CredentialTimeoutSpared == ASSUME Inv, NEW k \in Keys, CredentialTimeout(k) PROVE Spared
<1> DEFINE r == rec[k]
           s == [r EXCEPT !.lookup = "blocked", !.attempt = "refused"]
<1>1. Carries(r) /\ Becomes(k, s)
  BY KeyCarries DEF CredentialTimeout, CancelLookup
<1> HIDE DEF r
<1>2. /\ Carries(s) /\ s.pending = r.pending /\ s.buffer = r.buffer /\ s.desired = r.desired
      /\ s.routable = r.routable /\ s.child = r.child /\ s.attempt = "refused"
  BY <1>1 DEF Carries
<1> HIDE DEF s
<1>3. Spares(r, s)
  BY <1>2 DEF Spares, Starting
<1> QED BY <1>1, <1>3, BecomesSpared DEF r

LEMMA RestartTimeoutSpared == ASSUME Inv, NEW k \in Keys, RestartTimeout(k) PROVE Spared
<1> DEFINE r == rec[k]
           s == [r EXCEPT !.restartTimer = FALSE, !.armed = @ - 1]
<1>1. Carries(r) /\ Becomes(k, Spawn(s))
  BY KeyCarries DEF RestartTimeout
<1> HIDE DEF r
<1>2. Carries(s) /\ Same(r, s)
  BY <1>1 DEF Carries, Same
<1> HIDE DEF s
<1>3. Spares(r, Spawn(s))
  BY <1>2, SameSpares, SpawnSpares, SparesTrans
<1> QED BY <1>1, <1>3, BecomesSpared DEF r

(* The watchdogs, the stable timer, and the end of a wait.                 *)
LEMMA WatchdogSpared ==
    ASSUME Inv, NEW k \in Keys, ReadyTimeout(k) \/ OnlineTimeout(k) \/ StableTimeout(k) PROVE Spared
<1> DEFINE r == rec[k]
           a == [r EXCEPT !.readyTimer = FALSE]
           b == [r EXCEPT !.onlineTimer = FALSE]
           c == [r EXCEPT !.stableTimer = FALSE, !.restartCount = 0]
<1>1. Carries(r)
  BY KeyCarries
<1>2. PICK x \in {FailRecord(a, r.childGen), FailRecord(b, r.childGen), c} : Becomes(k, x)
  BY DEF ReadyTimeout, OnlineTimeout, StableTimeout
<1> HIDE DEF r
<1>3. Same(r, a) /\ Same(r, b) /\ Same(r, c)
  BY <1>1 DEF Same, Carries
<1> HIDE DEF a, b, c
<1>4. Carries(a) /\ Carries(b) /\ Spares(r, a) /\ Spares(r, b) /\ Spares(r, c)
  BY <1>3, SameSpares DEF Same
<1>5. Spares(r, x)
  BY <1>4, FailedSpares
<1> QED BY <1>2, <1>5, BecomesSpared DEF r

LEMMA TerminationTimeoutSpared == ASSUME Inv, NEW k \in Keys, TerminationTimeout(k) PROVE Spared
<1> DEFINE r == rec[k]
           a == [r EXCEPT !.lc = "sigterm", !.connected = FALSE]
           b == [r EXCEPT !.lc = "sigkill"]
           c == [r EXCEPT !.lc = "abandoned"]
<1>1. Carries(r)
  BY KeyCarries
<1>2. PICK x \in {a, b, Resolve(c, FALSE)} : Becomes(k, x)
  BY DEF TerminationTimeout
<1> HIDE DEF r
<1>3. Same(r, a) /\ Same(r, b) /\ Same(r, c)
  BY <1>1 DEF Same, Carries
<1> HIDE DEF a, b, c
<1>4. Carries(c) /\ Spares(r, a) /\ Spares(r, b) /\ Spares(r, c)
  BY <1>3, SameSpares DEF Same
<1>5. Spares(r, Resolve(c, FALSE))
  <2>1. Spares(c, Resolve(c, FALSE))
    BY <1>4, ResolveSpares, SameSpares
  <2> QED BY <1>4, <2>1, SparesTrans
<1>6. Spares(r, x)
  BY <1>4, <1>5
<1> QED BY <1>2, <1>6, BecomesSpared DEF r

LEMMA ChildExitSpared == ASSUME Inv, NEW k \in Keys, ChildExit(k) PROVE Spared
<1>1. rec' = [rec EXCEPT ![k] = Exited(rec[k])] /\ UNCHANGED <<wire, sequence>>
  BY DEF ChildExit
<1> QED BY <1>1, KeyCarries, ExitedSpares, AlteredSpared

LEMMA ChildFailsSpared == ASSUME Inv, NEW k \in Keys, ChildFails(k) PROVE Spared
<1> DEFINE r == rec[k]
<1>1. Carries(r) /\ \E c : Becomes(k, FailRecord([r EXCEPT !.connected = c], r.childGen))
  BY KeyCarries DEF ChildFails
<1> HIDE DEF r
<1>2. \A c : Same(r, [r EXCEPT !.connected = c])
  BY <1>1 DEF Same, Carries
<1>3. \A c : Carries([r EXCEPT !.connected = c]) /\ Spares(r, [r EXCEPT !.connected = c])
  BY <1>2, SameSpares DEF Same
<1>4. \A c : Spares(r, FailRecord([r EXCEPT !.connected = c], r.childGen))
  BY <1>3, FailedSpares
<1> QED BY <1>1, <1>4, BecomesSpared DEF r

LEMMA ChildReadySpared == ASSUME Inv, NEW k \in Keys, ChildReady(k) PROVE Spared
<1> DEFINE r == rec[k]
           s == [r EXCEPT !.readySeen = TRUE, !.readyTimer = FALSE, !.onlineTimer = TRUE]
<1>1. Carries(r) /\ Spares(r, r)
  BY KeyCarries
<1>2. PICK x \in {s, FailRecord(s, s.childGen), FailRecord(r, r.childGen)} : Becomes(k, x)
  BY DEF ChildReady
<1> HIDE DEF r
<1>3. Same(r, s)
  BY <1>1 DEF Same, Carries
<1> HIDE DEF s
<1>4. Carries(s) /\ Spares(r, s)
  BY <1>3, SameSpares DEF Same
<1>5. Spares(r, x)
  BY <1>1, <1>4, FailedSpares
<1> QED BY <1>2, <1>5, BecomesSpared DEF r

LEMMA ChildOfflineSpared == ASSUME Inv, NEW k \in Keys, NEW state, ChildOffline(k, state) PROVE Spared
<1> DEFINE r == rec[k]
           s == [r EXCEPT !.routable = FALSE, !.state = state, !.stableTimer = FALSE, !.onlineTimer = TRUE]
<1>1. Carries(r)
  BY KeyCarries
<1>2. PICK x \in {s, FailRecord(s, s.childGen)} : Becomes(k, x)
  BY DEF ChildOffline
<1> HIDE DEF r
<1>3. Carries(s) /\ ~s.routable /\ s.pending = r.pending /\ s.buffer = r.buffer /\ s.desired = r.desired
  BY <1>1 DEF Carries
<1> HIDE DEF s
<1>4. Spares(r, s)
  BY <1>3 DEF Spares
<1>5. Spares(r, x)
  BY <1>3, <1>4, FailedSpares
<1> QED BY <1>2, <1>5, BecomesSpared DEF r

LEMMA RefreshSpared == ASSUME Inv, NEW k \in Keys, ChildRefresh(k) \/ RefreshSettles(k) PROVE Spared
<1> DEFINE r == rec[k]
           a == [r EXCEPT !.refresh = "open"]
           b == [r EXCEPT !.refresh = "answered"]
<1>1. Carries(r) /\ Spares(r, r)
  BY KeyCarries
<1>2. PICK x \in {a, b, FailRecord(r, r.childGen), FailRecord(b, b.childGen)} : Becomes(k, x)
  BY DEF ChildRefresh, RefreshSettles
<1> HIDE DEF r
<1>3. Same(r, a) /\ Same(r, b)
  BY <1>1 DEF Same, Carries
<1> HIDE DEF a, b
<1>4. Carries(b) /\ Spares(r, a) /\ Spares(r, b)
  BY <1>3, SameSpares DEF Same
<1>5. Spares(r, x)
  BY <1>1, <1>4, FailedSpares
<1> QED BY <1>2, <1>5, BecomesSpared DEF r

(* The public methods but send(), receipt() and joinChatroom().            *)
LEMMA ReconcileSpared ==
    ASSUME Inv, NEW c \in Calls, NEW want \in Wanted, Reconcile(c, want) PROVE Spared
<1>1. \A k \in Keys : Spares(rec[k], rec[k]) /\ Spares(rec[k], RemoveRecord(rec[k], c))
  BY KeyCarries, RetiredSpares DEF RemoveRecord
<1> QED BY <1>1 DEF Reconcile, Spared

LEMMA ReconcileStartSpared == ASSUME Inv, NEW c \in Calls, ReconcileStart(c) PROVE Spared
<1>1. \A k \in Keys : Spares(rec[k], rec[k]) /\ \A token : Spares(rec[k], Readd(rec[k], token))
  BY KeyCarries, ReaddSpares
<1> QED BY <1>1 DEF ReconcileStart, Spared

LEMMA DisposeSpared == ASSUME Inv, Dispose PROVE Spared
<1>1. \A k \in Keys : Spares(rec[k], rec[k]) /\ Spares(rec[k], DisposeRecord(rec[k]))
  BY KeyCarries, RetiredSpares DEF DisposeRecord
<1> QED BY <1>1 DEF Dispose, Spared

LEMMA StopSpared == ASSUME Inv, NEW k \in Keys, Stop(k) PROVE Spared
<1> DEFINE s == Terminate(RejectPending(CancelLifecycleTimers(
                   [rec[k] EXCEPT !.desired = FALSE, !.gen = @ + 1, !.removeWhenReaped = FALSE])), Reaction("stop"))
<1>1. rec' = [rec EXCEPT ![k] = s] /\ UNCHANGED <<wire, sequence>>
  BY DEF Stop
<1>2. Spares(rec[k], s)
  BY KeyCarries, RetiredSpares
<1> QED BY <1>1, <1>2, AlteredSpared

LEMMA RestartSpared == ASSUME Inv, NEW k \in Keys, Restart(k) PROVE Spared
<1> DEFINE r == rec[k]
           s == [r EXCEPT !.desired = TRUE]
           q == r.state = "stopped"
<1>1. Carries(r) /\ rec' = [rec EXCEPT ![k] = RestartRecord(s, q)] /\ UNCHANGED <<wire, sequence>>
  BY KeyCarries DEF Restart
<1> HIDE DEF r, q
<1>2. /\ Carries(s) /\ s.pending = r.pending /\ s.buffer = r.buffer /\ s.desired
      /\ s.routable = r.routable /\ s.child = r.child /\ s.attempt = r.attempt
  BY <1>1 DEF Carries
<1> HIDE DEF s
<1>3. Spares(r, s) /\ Spares(s, RestartRecord(s, q))
  BY <1>2, RestartSpares DEF Spares, Starting
<1> QED BY <1>1, <1>3, SparesTrans, AlteredSpared DEF r


-----------------------------------------------------------------------------
(* The steps that accept, write and settle requests.                       *)

(* A step that changes the record and the wire of one key.                 *)
LEMMA RequestsStep ==
    ASSUME Inv, RequestsInv, NEW k \in Keys, NEW r, NEW w,
           rec' = [rec EXCEPT ![k] = r], wire' = [wire EXCEPT ![k] = w],
           sequence' \in Nat, sequence <= sequence',
           Accounts(r, w), Numbered(r, w, sequence'), Flushed(r)
    PROVE  RequestsInv'
<1>1. rec \in [Keys -> Records] /\ wire \in [Keys -> Seq(Requests)] /\ sequence \in Nat
  BY ConstantsAssumption DEF Inv, TypeOK
<1>2. ASSUME NEW j \in Keys, j # k
      PROVE  Accounts(rec'[j], wire'[j]) /\ Numbered(rec'[j], wire'[j], sequence') /\ Flushed(rec'[j])
  <2>1. rec'[j] = rec[j] /\ wire'[j] = wire[j]
    BY <1>1, <1>2
  <2>2. Accounts(rec[j], wire[j]) /\ Numbered(rec[j], wire[j], sequence) /\ Flushed(rec[j])
    BY DEF RequestsInv
  <2>3. rec[j].pending \subseteq Nat /\ \A i \in 1..Len(wire[j]) : wire[j][i] \in Nat
    <3>1. rec[j].pending \in SUBSET Requests
      BY <1>1 DEF Records
    <3>2. \A i \in 1..Len(wire[j]) : wire[j][i] \in Requests
      BY <1>1
    <3> QED BY <3>1, <3>2 DEF Requests
  <2>4. Numbered(rec[j], wire[j], sequence')
    BY <1>1, <2>2, <2>3 DEF Numbered
  <2> QED BY <2>1, <2>2, <2>4
<1>3. rec'[k] = r /\ wire'[k] = w
  BY <1>1
<1> QED BY <1>2, <1>3 DEF RequestsInv

LEMMA RequestTypes ==
    ASSUME Inv, NEW k \in Keys
    PROVE  LET r == rec[k]
           IN  /\ r \in Records /\ Carries(r) /\ r.buffer \in Seq(Requests) /\ r.pending \in SUBSET Requests
               /\ wire \in [Keys -> Seq(Requests)] /\ sequence \in Nat
<1>1. rec[k] \in Records /\ Carries(rec[k]) /\ wire \in [Keys -> Seq(Requests)] /\ sequence \in Nat
  BY KeyCarries, ConstantsAssumption DEF Inv, TypeOK
<1> QED BY <1>1 DEF Records

LEMMA NumberSequence == ASSUME NEW s \in Seq(Requests) PROVE s \in Seq(Nat)
<1>1. \A i \in 1..Len(s) : s[i] \in Nat
  <2>1. \A i \in 1..Len(s) : s[i] \in Requests
    OBVIOUS
  <2> QED BY <2>1 DEF Requests
<1> QED BY <1>1

(* #removeBuffered takes out one request and leaves the others in order.   *)
LEMMA RemovedInOrder ==
    ASSUME NEW b \in Seq(Requests), Ascending(b), NEW q
    PROVE  LET t == RemoveBuffered(b, q)
           IN  /\ t \in Seq(Requests) /\ Ascending(t)
               /\ \A j \in 1..Len(t) : t[j] # q /\ \E i \in 1..Len(b) : t[j] = b[i]
<1> DEFINE n == Len(b)
<1>0. n \in Nat /\ \A i \in 1..n : b[i] \in Nat
  <2>1. \A i \in 1..n : b[i] \in Requests
    OBVIOUS
  <2> QED BY <2>1 DEF Requests
<1>1. CASE ~\E i \in 1..n : b[i] = q
  BY <1>1 DEF RemoveBuffered
<1>2. CASE \E i \in 1..n : b[i] = q
  <2> DEFINE m == CHOOSE i \in 1..n : b[i] = q
             t == SubSeq(b, 1, m - 1) \o SubSeq(b, m + 1, n)
  <2>1. m \in 1..n /\ b[m] = q
    BY <1>2
  <2>2. RemoveBuffered(b, q) = t
    BY <1>2 DEF RemoveBuffered
  <2> HIDE DEF m
  <2>3. t \in Seq(Requests) /\ Len(t) = n - 1
    <3> DEFINE u == SubSeq(b, 1, m - 1)
               v == SubSeq(b, m + 1, n)
    <3>1. u \in Seq(Requests) /\ v \in Seq(Requests) /\ Len(u) = m - 1 /\ Len(v) = n - m
      BY <1>0, <2>1
    <3> HIDE DEF u, v
    <3>2. u \o v \in Seq(Requests) /\ Len(u \o v) = Len(u) + Len(v)
      BY <3>1, ConcatProperties
    <3>3. (m - 1) + (n - m) = n - 1
      BY <1>0, <2>1
    <3> QED BY <3>1, <3>2, <3>3 DEF u, v
  <2>4. ASSUME NEW j \in 1..(n - 1) PROVE t[j] = b[IF j < m THEN j ELSE j + 1]
    <3> DEFINE u == SubSeq(b, 1, m - 1)
               v == SubSeq(b, m + 1, n)
    <3>1. u \in Seq(Requests) /\ v \in Seq(Requests) /\ Len(u) = m - 1 /\ Len(v) = n - m
      BY <1>0, <2>1
    <3>2. \A i \in 1..(m - 1) : u[i] = b[i]
      BY <1>0, <2>1
    <3>3. \A i \in 1..(n - m) : v[i] = b[m + i]
      BY <1>0, <2>1
    <3> HIDE DEF u, v
    <3>4. CASE j < m
      <4>1. j \in 1..(m - 1)
        BY <1>0, <2>1, <3>4
      <4>2. (u \o v)[j] = u[j]
        BY <3>1, <4>1, ConcatProperties
      <4> QED BY <3>2, <3>4, <4>1, <4>2 DEF u, v
    <3>5. CASE ~(j < m)
      <4>1. j - (m - 1) \in 1..(n - m) /\ m + (j - (m - 1)) = j + 1 /\ j \in 1..(Len(u) + Len(v)) /\ ~(j <= Len(u))
        BY <1>0, <2>1, <3>1, <3>5
      <4>2. (u \o v)[j] = v[j - Len(u)]
        BY <3>1, <4>1, ConcatProperties
      <4>3. (u \o v)[j] = b[j + 1]
        BY <3>1, <3>3, <4>1, <4>2
      <4> QED BY <3>5, <4>3 DEF u, v
    <3> QED BY <3>4, <3>5
  <2> HIDE DEF t
  <2> DEFINE f(j) == IF j < m THEN j ELSE j + 1
  <2>5. \A j \in 1..(n - 1) : f(j) \in 1..n /\ f(j) # m /\ \A l \in 1..(n - 1) : j < l => f(j) < f(l)
    BY <1>0, <2>1
  <2>6. \A j \in 1..(n - 1) : t[j] = b[f(j)]
    BY <2>4
  <2> HIDE DEF f
  <2>7. Ascending(t)
    BY <1>0, <2>3, <2>5, <2>6 DEF Ascending
  <2>8. ASSUME NEW j \in 1..(n - 1) PROVE t[j] # q
    <3>1. f(j) \in 1..n /\ f(j) # m /\ t[j] = b[f(j)]
      BY <2>5, <2>6
    <3>2. b[f(j)] # b[m]
      BY <1>0, <2>1, <3>1 DEF Ascending
    <3> QED BY <2>1, <3>1, <3>2
  <2> QED BY <2>2, <2>3, <2>5, <2>6, <2>7, <2>8
<1> QED BY <1>1, <1>2

LEMMA ForgetRequests ==
    ASSUME Inv, RequestsInv, NEW k \in Keys, NEW q, RequestTimeout(k, q) \/ ChildResult(k, q)
    PROVE  RequestsInv'
<1> DEFINE r == rec[k]
           w == wire[k]
           t == RemoveBuffered(r.buffer, q)
           s == [r EXCEPT !.pending = @ \ {q}, !.buffer = t]
<1>1. /\ r \in Records /\ Carries(r) /\ r.buffer \in Seq(Requests) /\ r.pending \in SUBSET Requests
      /\ wire \in [Keys -> Seq(Requests)] /\ sequence \in Nat
  BY RequestTypes
<1>2. Accounts(r, w) /\ Numbered(r, w, sequence) /\ Flushed(r)
  BY DEF RequestsInv
<1>3. rec' = [rec EXCEPT ![k] = s] /\ wire' = [wire EXCEPT ![k] = w] /\ sequence' = sequence
  <2>1. Becomes(k, Forget(r, q))
    BY DEF RequestTimeout, ChildResult
  <2>2. Forget(r, q) = s
    BY DEF Forget
  <2>3. wire = [wire EXCEPT ![k] = w]
    BY <1>1
  <2> QED BY <2>1, <2>2, <2>3 DEF Becomes
<1>4. /\ t \in Seq(Requests) /\ Ascending(t)
      /\ \A j \in 1..Len(t) : t[j] # q /\ \E i \in 1..Len(r.buffer) : t[j] = r.buffer[i]
  BY <1>1, <1>2, RemovedInOrder DEF Accounts
<1> HIDE DEF r, t, w
<1>5. /\ s.pending = r.pending \ {q} /\ s.buffer = t /\ s.desired = r.desired
      /\ s.routable = r.routable /\ s.child = r.child /\ s.attempt = r.attempt
  BY <1>1 DEF Carries
<1> HIDE DEF s
<1>6. Cardinality(s.pending) <= MaxPending
  <2>1. IsFiniteSet(r.pending)
    <3>1. IsFiniteSet(Requests)
      BY ConstantsAssumption, FS_Interval DEF Requests
    <3> QED BY <1>1, <3>1, FS_Subset
  <2>2. s.pending \subseteq r.pending
    BY <1>5
  <2>3. Cardinality(s.pending) <= Cardinality(r.pending) /\ IsFiniteSet(s.pending)
    BY <2>1, <2>2, FS_Subset
  <2>4. Cardinality(s.pending) \in Nat /\ Cardinality(r.pending) \in Nat
    BY <2>1, <2>3, FS_CardinalityType
  <2> QED BY <1>2, <2>3, <2>4, ConstantsAssumption DEF Accounts
<1>7. Accounts(s, w)
  BY <1>2, <1>4, <1>5, <1>6 DEF Accounts
<1>8. Numbered(s, w, sequence)
  BY <1>2, <1>4, <1>5 DEF Numbered
<1>9. Flushed(s)
  <2>1. r.buffer = <<>> => t = <<>>
    <3>1. Len(t) # 0 => 1 \in 1..Len(t)
      BY <1>4
    <3>2. r.buffer = <<>> => Len(t) = 0
      BY <1>4, <3>1
    <3> QED BY <1>4, <3>2
  <2> QED BY <1>2, <1>5, <2>1 DEF Flushed, Starting
<1>10. sequence' \in Nat /\ sequence <= sequence' /\ Numbered(s, w, sequence')
  BY <1>1, <1>3, <1>8
<1> QED BY <1>3, <1>7, <1>9, <1>10, RequestsStep

(* An append keeps a sequence ascending.                                   *)
LEMMA AppendAscending ==
    ASSUME NEW s \in Seq(Nat), NEW q, Ascending(s), \A i \in 1..Len(s) : s[i] < q
    PROVE  /\ Ascending(Append(s, q)) /\ Len(Append(s, q)) = Len(s) + 1
           /\ \A i \in 1..Len(s) + 1 : Append(s, q)[i] = IF i \in 1..Len(s) THEN s[i] ELSE q
<1> DEFINE t == Append(s, q)
           n == Len(s)
<1>1. n \in Nat /\ Len(t) = n + 1 /\ t[n + 1] = q /\ \A i \in 1..n : t[i] = s[i]
  OBVIOUS
<1> HIDE DEF t
<1>2. \A i \in 1..n + 1 : t[i] = IF i \in 1..n THEN s[i] ELSE q
  BY <1>1
<1>3. Ascending(t)
  <2> SUFFICES ASSUME NEW i \in 1..n + 1, NEW j \in 1..n + 1, i < j PROVE t[i] < t[j]
    BY <1>1 DEF Ascending
  <2>1. i \in 1..n
    BY <1>1
  <2>2. CASE j \in 1..n
    BY <1>2, <2>1, <2>2 DEF Ascending
  <2>3. CASE j \notin 1..n
    BY <1>2, <2>1, <2>3
  <2> QED BY <2>2, <2>3
<1> QED BY <1>1, <1>2, <1>3 DEF t


(* A request is accepted: written, or kept for the worker to come.         *)
LEMMA RequestRequests == ASSUME Inv, RequestsInv, NEW k \in Keys, Request(k) PROVE RequestsInv'
<1> DEFINE r == rec[k]
           w == wire[k]
           q == sequence + 1
           a == [r EXCEPT !.pending = @ \cup {q}]
           b == [a EXCEPT !.buffer = Append(@, q)]
<1>1. /\ r \in Records /\ Carries(r) /\ r.buffer \in Seq(Requests) /\ r.pending \in SUBSET Requests
      /\ wire \in [Keys -> Seq(Requests)] /\ sequence \in Nat
  BY RequestTypes
<1>2. Accounts(r, w) /\ Numbered(r, w, sequence) /\ Flushed(r)
  BY DEF RequestsInv
<1>3. /\ sequence' = q /\ sequence < MaxRequests /\ r.desired /\ Cardinality(r.pending) < MaxPending
      /\ \/ /\ r.routable /\ r.child
            /\ rec' = [rec EXCEPT ![k] = a] /\ wire' = [wire EXCEPT ![k] = Append(w, q)]
         \/ rec' = [rec EXCEPT ![k] = FailRecord(a, a.gen)] /\ wire' = wire
         \/ ~(r.routable /\ r.child) /\ rec' = [rec EXCEPT ![k] = b] /\ wire' = wire
  BY DEF Request, Accepts
<1>4. r.buffer \in Seq(Nat) /\ w \in Seq(Nat) /\ r.pending \subseteq Nat /\ Len(r.buffer) \in Nat /\ Len(w) \in Nat
  <2>1. w \in Seq(Requests) /\ Requests \subseteq Nat
    BY <1>1 DEF Requests
  <2>2. r.buffer \in Seq(Nat) /\ w \in Seq(Nat)
    BY <1>1, <2>1, NumberSequence
  <2>3. Len(r.buffer) \in Nat /\ Len(w) \in Nat
    BY <2>2, LenProperties
  <2>4. r.pending \subseteq Nat
    BY <1>1, <2>1
  <2> QED BY <2>2, <2>3, <2>4
<1>5. wire = [wire EXCEPT ![k] = w]
  BY <1>1
<1> HIDE DEF r, w
<1>6. q \in Nat /\ sequence < q /\ q <= q /\ q \notin r.pending /\ \A p \in r.pending : p < q /\ p <= q
  BY <1>1, <1>2, <1>4 DEF Numbered
<1>6a. \A i \in 1..Len(w) : w[i] < q /\ w[i] <= q
  <2>1. \A i \in 1..Len(w) : w[i] \in Nat
    BY <1>4
  <2> QED BY <1>1, <1>2, <2>1 DEF Numbered
<1>6b. \A i \in 1..Len(r.buffer) : r.buffer[i] < q
  BY <1>2, <1>6 DEF Accounts
<1> HIDE DEF q
<1>7. /\ Carries(a) /\ a.pending = r.pending \cup {q} /\ a.buffer = r.buffer /\ a.desired = r.desired
      /\ a.routable = r.routable /\ a.child = r.child /\ a.attempt = r.attempt
  BY <1>1 DEF Carries
<1> HIDE DEF a
<1>8. /\ b.pending = a.pending /\ b.buffer = Append(r.buffer, q) /\ b.desired = a.desired
      /\ b.routable = a.routable /\ b.child = a.child /\ b.attempt = a.attempt
  BY <1>7 DEF Carries
<1> HIDE DEF b
<1>9. Cardinality(a.pending) <= MaxPending
  <2>1. IsFiniteSet(r.pending)
    <3>1. IsFiniteSet(Requests)
      BY ConstantsAssumption, FS_Interval DEF Requests
    <3> QED BY <1>1, <3>1, FS_Subset
  <2>2. Cardinality(a.pending) = Cardinality(r.pending) + 1 /\ Cardinality(r.pending) \in Nat
    BY <1>6, <1>7, <2>1, FS_AddElement, FS_CardinalityType
  <2> QED BY <1>3, <2>2, ConstantsAssumption
<1>10. Accounts(a, w) /\ Numbered(a, w, q) /\ Flushed(a)
  <2>1. Accounts(a, w)
    BY <1>2, <1>3, <1>7, <1>9 DEF Accounts
  <2>2. Numbered(a, w, q)
    BY <1>2, <1>6, <1>6a, <1>7 DEF Numbered
  <2>3. Flushed(a)
    BY <1>2, <1>7 DEF Flushed, Starting
  <2> QED BY <2>1, <2>2, <2>3
<1>11. sequence' \in Nat /\ sequence <= sequence' /\ sequence' = q
  BY <1>1, <1>3, <1>6
<1>12. CASE /\ r.routable /\ r.child
            /\ rec' = [rec EXCEPT ![k] = a] /\ wire' = [wire EXCEPT ![k] = Append(w, q)]
  <2> DEFINE v == Append(w, q)
  <2>1. /\ Ascending(v) /\ Len(v) = Len(w) + 1
        /\ \A i \in 1..Len(w) + 1 : v[i] = IF i \in 1..Len(w) THEN w[i] ELSE q
    BY <1>2, <1>4, <1>6a, AppendAscending DEF Accounts
  <2> HIDE DEF v
  <2>2. a.buffer = <<>> /\ Len(a.buffer) = 0
    BY <1>2, <1>7, <1>12 DEF Flushed
  <2>3. Accounts(a, v)
    BY <1>10, <2>1 DEF Accounts
  <2>4. \A i \in 1..Len(v) : v[i] <= q
    BY <1>6, <1>6a, <2>1
  <2>5. Numbered(a, v, q)
    BY <1>10, <2>2, <2>4 DEF Numbered
  <2> QED BY <1>10, <1>11, <1>12, <2>3, <2>5, RequestsStep DEF v
<1>13. CASE rec' = [rec EXCEPT ![k] = FailRecord(a, a.gen)] /\ wire' = wire
  <2> DEFINE f == FailRecord(a, a.gen)
  <2>1. Spares(a, f)
    BY <1>7, FailSpares
  <2> HIDE DEF f
  <2>2. Accounts(f, w) /\ Numbered(f, w, q) /\ Flushed(f)
    BY <1>10, <2>1, SparedRecord
  <2> QED BY <1>5, <1>11, <1>13, <2>2, RequestsStep DEF f
<1>14. CASE ~(r.routable /\ r.child) /\ rec' = [rec EXCEPT ![k] = b] /\ wire' = wire
  <2> DEFINE v == Append(r.buffer, q)
             n == Len(r.buffer)
  <2>1. /\ Ascending(v) /\ Len(v) = n + 1
        /\ \A i \in 1..n + 1 : v[i] = IF i \in 1..n THEN r.buffer[i] ELSE q
    BY <1>2, <1>4, <1>6b, AppendAscending DEF Accounts
  <2> HIDE DEF v
  <2>2. b.buffer = v
    BY <1>8 DEF v
  <2>3. \A i \in 1..Len(v) : v[i] \in b.pending
    BY <1>2, <1>7, <1>8, <2>1 DEF Accounts
  <2>4. Accounts(b, w)
    BY <1>8, <1>10, <2>1, <2>2, <2>3 DEF Accounts
  <2>5. ASSUME NEW i \in 1..Len(w), NEW j \in 1..Len(v) PROVE w[i] < v[j]
    BY <1>2, <1>6a, <2>1 DEF Numbered
  <2>6. Numbered(b, w, q)
    BY <1>8, <1>10, <2>2, <2>5 DEF Numbered
  <2>7. Flushed(b)
    BY <1>2, <1>7, <1>8, <1>14 DEF Flushed, Starting
  <2> QED BY <1>5, <1>11, <1>14, <2>4, <2>6, <2>7, RequestsStep
<1> QED BY <1>3, <1>12, <1>13, <1>14

(* #flush: a part of the buffer, in its order, after all that was written. *)
LEMMA FlushAscending ==
    ASSUME NEW w \in Seq(Nat), NEW b \in Seq(Nat), Ascending(w), Ascending(b), NEW last,
           \A i \in 1..Len(w), j \in 1..Len(b) : w[i] < b[j],
           \A i \in 1..Len(w) : w[i] <= last, \A i \in 1..Len(b) : b[i] <= last,
           NEW n \in 0..Len(b)
    PROVE  LET v == w \o SubSeq(b, 1, n)
           IN  Ascending(v) /\ \A i \in 1..Len(v) : v[i] <= last
<1> DEFINE u == SubSeq(b, 1, n)
           v == w \o u
           m == Len(w)
<1>1. m \in Nat /\ n \in Nat /\ u \in Seq(Nat) /\ Len(u) = n /\ \A i \in 1..n : u[i] = b[i] /\ i \in 1..Len(b)
  OBVIOUS
<1> HIDE DEF u
<1>2. Len(v) = m + n /\ \A i \in 1..m + n : v[i] = IF i <= m THEN w[i] ELSE u[i - m]
  BY <1>1, ConcatProperties
<1> HIDE DEF v
<1>3. ASSUME NEW i \in 1..m + n
      PROVE  (i <= m => i \in 1..m /\ v[i] = w[i]) /\ (i > m => i - m \in 1..n /\ i - m \in 1..Len(b) /\ v[i] = b[i - m])
  <2>1. i <= m => i \in 1..m /\ v[i] = w[i]
    BY <1>1, <1>2
  <2>2. i > m => i - m \in 1..n /\ ~(i <= m)
    BY <1>1
  <2> QED BY <1>1, <1>2, <2>1, <2>2
<1>4. ASSUME NEW i \in 1..m + n PROVE v[i] <= last
  <2>1. CASE i <= m
    BY <1>3, <2>1
  <2>2. CASE i > m
    <3>1. i - m \in 1..Len(b) /\ v[i] = b[i - m]
      BY <1>3, <2>2
    <3> QED BY <3>1
  <2> QED BY <1>1, <2>1, <2>2
<1>5. ASSUME NEW i \in 1..m + n, NEW j \in 1..m + n, i < j PROVE v[i] < v[j]
  <2>1. CASE j <= m
    <3>1. i \in 1..m /\ j \in 1..m /\ i <= m
      BY <1>1, <1>5, <2>1
    <3> QED BY <1>3, <1>5, <2>1, <3>1 DEF Ascending
  <2>2. CASE i > m
    <3>1. j > m /\ i - m < j - m
      BY <1>1, <1>5, <2>2
    <3> QED BY <1>3, <2>2, <3>1 DEF Ascending
  <2>3. CASE i <= m /\ j > m
    BY <1>3, <2>3
  <2> QED BY <1>1, <2>1, <2>2, <2>3
<1> QED BY <1>2, <1>4, <1>5 DEF Ascending, v, u


(* A worker that comes online gets the buffer before it is routable.       *)
LEMMA ChildOnlineRequests == ASSUME Inv, RequestsInv, NEW k \in Keys, ChildOnline(k) PROVE RequestsInv'
<1> DEFINE r == rec[k]
           w == wire[k]
           s == [r EXCEPT !.onlineTimer = FALSE, !.state = "online", !.routable = TRUE, !.stableTimer = TRUE]
           f == [s EXCEPT !.buffer = <<>>]
<1>1. /\ r \in Records /\ Carries(r) /\ r.buffer \in Seq(Requests) /\ r.pending \in SUBSET Requests
      /\ wire \in [Keys -> Seq(Requests)] /\ sequence \in Nat
  BY RequestTypes
<1>2. Accounts(r, w) /\ Numbered(r, w, sequence) /\ Flushed(r)
  BY DEF RequestsInv
<1>3. r.child /\ OwnsGeneration(r, r.childGen) /\ ~Starting(r)
  <2>1. r.child /\ OwnsGeneration(r, r.childGen)
    BY DEF ChildOnline, Heard, IsCurrent
  <2>2. r.lc = "tracked" /\ (r.attempt \in {"lookup", "granted", "refused"} => r.lc = "none")
    BY <2>1 DEF Inv, Sound, Shape
  <2> QED BY <2>1, <2>2 DEF Starting
<1>4. /\ Carries(s) /\ s.pending = r.pending /\ s.buffer = r.buffer /\ s.desired = r.desired
      /\ s.attempt = r.attempt /\ s.present = r.present /\ s.gen = r.gen /\ s.failedGen = r.failedGen /\ s.childGen = r.childGen
  <2>1. {"present", "gen", "failedGen", "childGen"} \subseteq DOMAIN r
    BY <1>1 DEF Records
  <2> HIDE DEF r
  <2> QED BY <1>1, <2>1 DEF Carries
<1>5. /\ UNCHANGED sequence
      /\ \/ \E n \in 0..Len(r.buffer) :
               /\ wire' = [wire EXCEPT ![k] = w \o SubSeq(r.buffer, 1, n)]
               /\ rec' = [rec EXCEPT ![k] = f] \/ rec' = [rec EXCEPT ![k] = FailRecord(f, s.childGen)]
         \/ wire' = wire /\ rec' = [rec EXCEPT ![k] = FailRecord(s, s.childGen)]
  <2>1. CASE Flush(k, s)
    BY <1>4, <2>1 DEF ChildOnline, Flush
  <2>2. CASE ~Flush(k, s)
    BY <2>2 DEF ChildOnline
  <2> QED BY <2>1, <2>2
<1>6. wire = [wire EXCEPT ![k] = w] /\ w \in Seq(Nat) /\ r.buffer \in Seq(Nat)
  BY <1>1, NumberSequence
<1>7. sequence' \in Nat /\ sequence <= sequence' /\ sequence' = sequence
  BY <1>1, <1>5
<1> HIDE DEF r, w, s
<1>8. /\ Carries(f) /\ f.pending = s.pending /\ f.buffer = <<>> /\ f.desired = s.desired /\ f.attempt = s.attempt
  BY <1>4 DEF Carries
<1> HIDE DEF f
<1>9. CASE wire' = wire /\ rec' = [rec EXCEPT ![k] = FailRecord(s, s.childGen)]
  <2> DEFINE t == FailRecord(s, s.childGen)
  <2>1. OwnsGeneration(s, s.childGen)
    BY <1>3, <1>4 DEF OwnsGeneration
  <2>2. Carries(t) /\ t.pending = {} /\ t.buffer = <<>> /\ ~t.routable
    BY <1>4, <2>1, FailSpares
  <2> HIDE DEF t
  <2>3. Spares(r, t)
    BY <2>2 DEF Spares
  <2>4. Accounts(t, w) /\ Numbered(t, w, sequence) /\ Flushed(t)
    BY <1>2, <2>3, SparedRecord
  <2> QED BY <1>6, <1>7, <1>9, <2>4, RequestsStep DEF t
<1>10. ASSUME NEW n \in 0..Len(r.buffer), wire' = [wire EXCEPT ![k] = w \o SubSeq(r.buffer, 1, n)],
              rec' = [rec EXCEPT ![k] = f] \/ rec' = [rec EXCEPT ![k] = FailRecord(f, s.childGen)]
       PROVE  RequestsInv'
  <2> DEFINE v == w \o SubSeq(r.buffer, 1, n)
             t == FailRecord(f, s.childGen)
  <2>1. Ascending(v) /\ \A i \in 1..Len(v) : v[i] <= sequence
    <3>1. \A i \in 1..Len(r.buffer) : r.buffer[i] <= sequence
      BY <1>2 DEF Accounts, Numbered
    <3> QED BY <1>2, <1>6, <3>1, FlushAscending DEF Accounts, Numbered
  <2> HIDE DEF v
  <2>2. Accounts(f, v)
    <3>1. Len(f.buffer) = 0
      BY <1>8
    <3>2. Ascending(f.buffer)
      BY <3>1 DEF Ascending
    <3> QED BY <1>2, <1>4, <1>8, <2>1, <3>1, <3>2 DEF Accounts
  <2>3. Numbered(f, v, sequence)
    <3>1. Len(f.buffer) = 0
      BY <1>8
    <3> QED BY <1>2, <1>4, <1>8, <2>1, <3>1 DEF Numbered
  <2>4. Flushed(f)
    BY <1>3, <1>4, <1>8 DEF Flushed, Starting
  <2>5. Spares(f, t)
    BY <1>8, FailSpares
  <2> HIDE DEF t
  <2>6. Accounts(t, v) /\ Numbered(t, v, sequence) /\ Flushed(t)
    BY <2>2, <2>3, <2>4, <2>5, SparedRecord
  <2>7. wire' = [wire EXCEPT ![k] = v] /\ (rec' = [rec EXCEPT ![k] = f] \/ rec' = [rec EXCEPT ![k] = t])
    BY <1>10 DEF v, t
  <2> QED BY <1>7, <2>2, <2>3, <2>4, <2>6, <2>7, RequestsStep
<1> QED BY <1>5, <1>9, <1>10

-----------------------------------------------------------------------------
LEMMA RequestsInit == Init => RequestsInv
<1> SUFFICES ASSUME Init, NEW k \in Keys
             PROVE  Accounts(rec[k], wire[k]) /\ Numbered(rec[k], wire[k], sequence) /\ Flushed(rec[k])
  BY DEF RequestsInv
<1> DEFINE n == NewRecord(NoToken)
<1>1. rec[k] = n /\ wire[k] = <<>>
  BY DEF Init
<1>2. n.pending = {} /\ n.buffer = <<>> /\ n.routable = FALSE
  BY DEF NewRecord
<1> HIDE DEF n
<1>3. Cardinality(n.pending) = 0 /\ Len(<<>>) = 0 /\ 0 <= MaxPending
  BY <1>2, FS_EmptySet, ConstantsAssumption
<1>4. Accounts(n, <<>>)
  BY <1>2, <1>3 DEF Accounts, Ascending
<1>5. Numbered(n, <<>>, sequence)
  BY <1>2, <1>3 DEF Numbered
<1>6. Flushed(n)
  BY <1>2 DEF Flushed
<1> QED BY <1>1, <1>4, <1>5, <1>6

LEMMA ReactRequests == ASSUME Inv, RequestsInv, NEW k \in Keys, React(k) PROVE Spared
<1>1. ASSUME OnStopped(k) \/ OnVoid(k) \/ OnRemoved(k) \/ OnDisposed(k) \/ OnFailed(k) PROVE Spared
  BY <1>1, OnStoppedSpared, OnVoidSpared, OnRemovedSpared, OnDisposedSpared, OnFailedSpared
<1>2. ASSUME OnRestart(k) \/ OnRestarted(k) \/ OnReadd(k) \/ OnReaped(k) \/ OnSpawned(k) PROVE Spared
  BY <1>2, OnRestartSpared, OnRestartedSpared, OnReaddSpared, OnReapedSpared, OnSpawnedSpared
<1>3. ASSUME OnNoCredential(k) \/ OnCredential(k) \/ OnSpawnThrows(k) PROVE Spared
  BY <1>3, OnNoCredentialSpared, OnCredentialSpared, OnSpawnThrowsSpared
<1> QED BY <1>1, <1>2, <1>3 DEF React

LEMMA RequestsNext == ASSUME Inv, RequestsInv, [Next]_vars PROVE RequestsInv'
<1>1. ASSUME NEW k \in Keys, Timeout(k) PROVE RequestsInv'
  <2>1. ASSUME NEW q \in Requests, RequestTimeout(k, q) PROVE RequestsInv'
    BY <2>1, ForgetRequests
  <2>2. ASSUME ~\E q \in Requests : RequestTimeout(k, q) PROVE Spared
    BY <1>1, <2>2, CredentialTimeoutSpared, RestartTimeoutSpared, WatchdogSpared, TerminationTimeoutSpared DEF Timeout
  <2> QED BY <2>1, <2>2, SparedKept
<1>2. ASSUME NEW k \in Keys, ChildEvent(k) PROVE RequestsInv'
  <2>1. ASSUME NEW q \in Requests, ChildResult(k, q) PROVE RequestsInv'
    BY <2>1, ForgetRequests
  <2>2. CASE ChildOnline(k)
    BY <2>2, ChildOnlineRequests
  <2>3. ASSUME ~\E q \in Requests : ChildResult(k, q), ~ChildOnline(k) PROVE Spared
    BY <1>2, <2>3, ChildExitSpared, ChildFailsSpared, ChildReadySpared, ChildOfflineSpared, RefreshSpared DEF ChildEvent
  <2> QED BY <2>1, <2>2, <2>3, SparedKept
<1>3. ASSUME NEW k \in Keys, Request(k) PROVE RequestsInv'
  BY <1>3, RequestRequests
<1>4. ASSUME NEW k \in Keys, Stop(k) \/ Restart(k) \/ React(k) \/ RefreshSettles(k) PROVE RequestsInv'
  BY <1>4, StopSpared, RestartSpared, ReactRequests, RefreshSpared, SparedKept
<1>5. ASSUME NEW k \in Keys, NEW ok \in BOOLEAN, CredentialSettles(k, ok) PROVE RequestsInv'
  BY <1>5, CredentialSettlesSpared, SparedKept
<1>6. ASSUME NEW c \in Calls, NEW want \in Wanted, Reconcile(c, want) PROVE RequestsInv'
  BY <1>6, ReconcileSpared, SparedKept
<1>7. ASSUME NEW c \in Calls, ReconcileStart(c) PROVE RequestsInv'
  BY <1>7, ReconcileStartSpared, SparedKept
<1>8. CASE Dispose
  BY <1>8, DisposeSpared, SparedKept
<1>9. CASE UNCHANGED vars
  BY <1>9 DEF vars, RequestsInv
<1> QED BY <1>1, <1>2, <1>3, <1>4, <1>5, <1>6, <1>7, <1>8, <1>9 DEF Next

LEMMA RequestsInvariance == Spec => []RequestsInv
<1>1. Inv /\ RequestsInv /\ [Next]_vars => RequestsInv'
  BY RequestsNext
<1> QED BY <1>1, RequestsInit, Invariance, PTL DEF Spec

(* Through every crash, restart, removal, stop and disposal: a buffered    *)
(* request is a pending one, only a desired binding has any, and no more   *)
(* than maxPendingRequests; they are buffered and written in the order of  *)
(* their acceptance, and none is written twice (#request, #flush,          *)
(* #removeBuffered, #rejectPending).                                       *)
THEOREM RequestsAccountedHolds == Spec => []RequestsAccounted
<1>1. Inv /\ RequestsInv => RequestsAccounted
  <2> SUFFICES ASSUME Inv, RequestsInv PROVE RequestsAccounted
    OBVIOUS
  <2>1. \A k \in Keys : rec[k].desired => rec[k].present
    BY DEF Inv, Sound, Shape
  <2> QED BY <2>1 DEF RequestsInv, Accounts, Ascending, RequestsAccounted
<1> QED BY <1>1, Invariance, RequestsInvariance, PTL

-----------------------------------------------------------------------------
(* What snapshots() reports as working is being worked on.  The records    *)
(* stay consistent whatever happens; until dispose() a record that looks   *)
(* as if it worked is backed by a worker, by an attempt for the present    *)
(* generation, or by something that will change its state.                 *)

Elems(q) == {q[i] : i \in 1..Len(q)}
Micro(r) == Elems(r.micro)
Waiting(r) == Elems(r.waiters)
Awaits(r, kind) == \E m \in Micro(r) \cup Waiting(r) : m.kind = kind

Working(r) == r.present /\ r.state \in {"starting", "online", "offline"}
Attempting(r) == r.attempt \in {"lookup", "granted", "refused"}
Current(r) == Attempting(r) /\ r.spawnGen = r.gen

(* A worker that is gone without being restarted is about to be stopped.   *)
Backed(r) ==
    Working(r) => \/ r.child \/ Awaits(r, "stop") \/ Current(r)
                  \/ (r.requeue /\ r.restart # "none")
                  \/ (r.respawn /\ r.attempt # "none")

GivenUp(r) == Working(r) /\ (~r.desired \/ r.lc \notin {"none", "tracked"}) => Awaits(r, "stop")

Truthful(r) == Backed(r) /\ GivenUp(r)

(* A restart finds its own generation only if nothing was spawned since.   *)
Ordered(r, m) ==
    m.kind = "restart" => /\ m.gen <= r.gen
                          /\ m.gen = r.gen /\ r.attempt # "none" => r.spawnGen < r.gen

Sane(r) ==
    /\ r.spawnGen <= r.gen
    /\ r.waiters # <<>> => r.lc \in Terminating
    /\ \A m \in Micro(r) \cup Waiting(r) : Ordered(r, m)
    /\ \A m \in Micro(r) : m.kind = "restart" /\ m.ok /\ m.gen = r.gen => r.lc = "none"
    /\ Current(r) => r.failedGen # r.gen

(* A restart attempt waits for something.                                  *)
Chained(r) ==
    /\ r.restart = "terminate" => Awaits(r, "restart")
    /\ r.restart \in {"spawn", "chain"} => r.attempt # "none"
    /\ ~r.present => r.restart = "none" /\ ~Awaits(r, "restart")

(* The fields all this depends on, and their types.                        *)
Has(r) ==
    {"gen", "spawnGen", "failedGen", "attempt", "respawn", "lc", "child", "micro", "waiters",
     "present", "desired", "state", "restart", "requeue"} \subseteq DOMAIN r

Typed(r) ==
    /\ Has(r)
    /\ r.micro \in Seq(Reactions) /\ r.waiters \in Seq(Reactions)
    /\ r.gen \in Nat /\ r.spawnGen \in Nat /\ r.lc \in Lifecycles

Consistent(r) == Typed(r) /\ Sane(r) /\ Chained(r)

Honest(r, over) == Consistent(r) /\ (over \/ Truthful(r))

SnapshotInv == \A k \in Keys : Honest(rec[k], disposed)

-----------------------------------------------------------------------------
(* The reactions as a set.                                                 *)

LEMMA ElemsAppend ==
    ASSUME NEW q \in Seq(Reactions), NEW m \in Reactions
    PROVE  Append(q, m) \in Seq(Reactions) /\ Elems(Append(q, m)) = Elems(q) \cup {m}
<1> DEFINE t == Append(q, m)
           n == Len(q)
<1>1. n \in Nat /\ t \in Seq(Reactions) /\ Len(t) = n + 1 /\ t[n + 1] = m /\ \A i \in 1..n : t[i] = q[i]
  OBVIOUS
<1> HIDE DEF t
<1>2. n + 1 \in 1..n + 1 /\ \A i \in 1..n + 1 : i \in 1..n \/ i = n + 1
  BY <1>1
<1>3. \A i \in 1..n : i \in 1..n + 1
  BY <1>1
<1>4. ASSUME NEW x PROVE x \in Elems(t) <=> x \in Elems(q) \/ x = m
  BY <1>1, <1>2, <1>3 DEF Elems
<1> QED BY <1>1, <1>4 DEF t

LEMMA ElemsTail ==
    ASSUME NEW q \in Seq(Reactions), q # <<>>
    PROVE  Head(q) \in Reactions /\ Tail(q) \in Seq(Reactions) /\ Elems(q) = Elems(Tail(q)) \cup {Head(q)}
<1> DEFINE t == Tail(q)
           n == Len(q)
<1>1. /\ n \in Nat \ {0} /\ Head(q) = q[1] /\ Head(q) \in Reactions /\ t \in Seq(Reactions) /\ Len(t) = n - 1
      /\ \A i \in 1..n - 1 : t[i] = q[i + 1]
  OBVIOUS
<1> HIDE DEF t
<1>2. ASSUME NEW x \in Elems(q) PROVE x \in Elems(t) \cup {Head(q)}
  <2>1. PICK i \in 1..n : x = q[i]
    BY DEF Elems
  <2>2. CASE i = 1
    BY <1>1, <2>1, <2>2
  <2>3. CASE i # 1
    <3>1. i - 1 \in 1..n - 1 /\ (i - 1) + 1 = i
      BY <1>1, <2>3
    <3>2. t[i - 1] = x
      BY <1>1, <2>1, <3>1
    <3> QED BY <1>1, <3>1, <3>2 DEF Elems
  <2> QED BY <2>2, <2>3
<1>3. ASSUME NEW x \in Elems(t) \cup {Head(q)} PROVE x \in Elems(q)
  <2>1. CASE x = Head(q)
    <3>1. 1 \in 1..n
      BY <1>1
    <3> QED BY <1>1, <2>1, <3>1 DEF Elems
  <2>2. CASE x \in Elems(t)
    <3>1. PICK i \in 1..n - 1 : x = t[i]
      BY <1>1, <2>2 DEF Elems
    <3>2. i + 1 \in 1..n /\ x = q[i + 1]
      BY <1>1, <3>1
    <3> QED BY <3>2 DEF Elems
  <2> QED BY <2>1, <2>2
<1> QED BY <1>1, <1>2, <1>3 DEF t

LEMMA ElemsConcat ==
    ASSUME NEW q \in Seq(Reactions), NEW v \in Seq(Reactions)
    PROVE  q \o v \in Seq(Reactions) /\ Elems(q \o v) = Elems(q) \cup Elems(v)
<1> DEFINE t == q \o v
           n == Len(q)
           l == Len(v)
<1>1. /\ n \in Nat /\ l \in Nat /\ t \in Seq(Reactions) /\ Len(t) = n + l
      /\ \A i \in 1..n + l : t[i] = IF i <= n THEN q[i] ELSE v[i - n]
  BY ConcatProperties
<1> HIDE DEF t
<1>2. ASSUME NEW x \in Elems(t) PROVE x \in Elems(q) \cup Elems(v)
  <2>1. PICK i \in 1..n + l : x = t[i]
    BY <1>1 DEF Elems
  <2>2. CASE i <= n
    <3>1. i \in 1..n /\ x = q[i]
      BY <1>1, <2>1, <2>2
    <3> QED BY <3>1 DEF Elems
  <2>3. CASE ~(i <= n)
    <3>1. i - n \in 1..l /\ x = v[i - n]
      BY <1>1, <2>1, <2>3
    <3> QED BY <3>1 DEF Elems
  <2> QED BY <2>2, <2>3
<1>3. ASSUME NEW x \in Elems(q) \cup Elems(v) PROVE x \in Elems(t)
  <2>1. CASE x \in Elems(q)
    <3>1. PICK i \in 1..n : x = q[i]
      BY <2>1 DEF Elems
    <3>2. i \in 1..n + l /\ x = t[i]
      BY <1>1, <3>1
    <3> QED BY <1>1, <3>2 DEF Elems
  <2>2. CASE x \in Elems(v)
    <3>1. PICK i \in 1..l : x = v[i]
      BY <2>2 DEF Elems
    <3>2. n + i \in 1..n + l /\ ~(n + i <= n) /\ (n + i) - n = i
      BY <1>1
    <3>3. x = t[n + i]
      BY <1>1, <3>1, <3>2
    <3> QED BY <1>1, <3>2, <3>3 DEF Elems
  <2> QED BY <2>1, <2>2
<1> QED BY <1>1, <1>2, <1>3 DEF t

LEMMA ElemsEmpty == Elems(<<>>) = {} /\ <<>> \in Seq(Reactions)
  BY DEF Elems

LEMMA ElemsTyped == \A q \in Seq(Reactions) : Elems(q) \subseteq Reactions
  BY DEF Elems

-----------------------------------------------------------------------------
(* Records that differ in nothing of this.                                 *)

(* From r to s only the state and fields that do not matter here change.   *)
Alike(r, s) ==
    /\ Has(s)
    /\ s.gen = r.gen /\ s.spawnGen = r.spawnGen /\ s.failedGen = r.failedGen
    /\ s.attempt = r.attempt /\ s.respawn = r.respawn
    /\ s.lc = r.lc /\ s.child = r.child /\ s.micro = r.micro /\ s.waiters = r.waiters
    /\ s.present = r.present /\ s.desired = r.desired
    /\ s.restart = r.restart /\ s.requeue = r.requeue

LEMMA RecordTyped == \A r \in Records : Typed(r)
  BY DEF Records, Typed, Has

LEMMA AlikeTrans == ASSUME NEW r, NEW s, NEW t, Alike(r, s), Alike(s, t) PROVE Alike(r, t)
  BY DEF Alike

LEMMA AlikeTyped == ASSUME NEW r, NEW s, Typed(r), Alike(r, s) PROVE Typed(s)
  BY DEF Typed, Alike

LEMMA AlikeSane ==
    ASSUME NEW r, NEW s, Alike(r, s)
    PROVE  /\ Sane(s) <=> Sane(r)
           /\ \A kind : Awaits(s, kind) <=> Awaits(r, kind)
           /\ Current(s) <=> Current(r)
<1>1. Micro(s) = Micro(r) /\ Waiting(s) = Waiting(r)
  BY DEF Alike, Micro, Waiting
<1>2. \A m : Ordered(s, m) <=> Ordered(r, m)
  BY DEF Alike, Ordered
<1>3. Current(s) <=> Current(r)
  BY DEF Alike, Current, Attempting
<1>4. Sane(s) <=> Sane(r)
  BY <1>1, <1>2, <1>3 DEF Alike, Sane
<1> QED BY <1>1, <1>3, <1>4 DEF Awaits

LEMMA AlikeConsistent ==
    ASSUME NEW r, NEW s, Consistent(r), Alike(r, s)
    PROVE  Consistent(s)
<1>1. Typed(s) /\ Sane(s)
  BY AlikeTyped, AlikeSane DEF Consistent
<1>2. Chained(s)
  BY AlikeSane DEF Consistent, Chained, Alike
<1> QED BY <1>1, <1>2 DEF Consistent

LEMMA AlikeHonest ==
    ASSUME NEW r, NEW s, NEW over, Honest(r, over), Alike(r, s), s.state = r.state
    PROVE  Honest(s, over)
<1>1. Consistent(s)
  BY AlikeConsistent DEF Honest
<1>2. Working(s) <=> Working(r)
  BY DEF Working, Alike
<1>3. over \/ Backed(s)
  BY <1>2, AlikeSane DEF Honest, Truthful, Backed, Alike
<1>4. over \/ GivenUp(s)
  BY <1>2, AlikeSane DEF Honest, Truthful, GivenUp, Alike
<1> QED BY <1>1, <1>3, <1>4 DEF Honest, Truthful

(* A record in state backoff or stopped claims nothing.                    *)
LEMMA QuietHonest ==
    ASSUME NEW s, NEW over, Consistent(s), s.state \in {"backoff", "stopped"}
    PROVE  Honest(s, over)
  BY DEF Honest, Truthful, Backed, GivenUp, Working

LEMMA TimersAlike ==
    ASSUME NEW r, Has(r)
    PROVE  /\ Alike(r, CancelStartupTimers(r)) /\ CancelStartupTimers(r).state = r.state
           /\ Alike(r, CancelLifecycleTimers(r)) /\ CancelLifecycleTimers(r).state = r.state
<1>1. Alike(r, CancelStartupTimers(r)) /\ CancelStartupTimers(r).state = r.state
  BY DEF CancelStartupTimers, Alike, Has
<1> DEFINE s == CancelStartupTimers(r)
<1>2. Alike(r, s) /\ Has(s) /\ s.state = r.state
  BY <1>1 DEF Alike
<1> HIDE DEF s
<1> DEFINE n == IF r.restartTimer THEN r.armed - 1 ELSE r.armed
           t == [s EXCEPT !.stableTimer = FALSE, !.restartTimer = FALSE, !.armed = n]
<1>3. CancelLifecycleTimers(r) = t
  BY DEF CancelLifecycleTimers, s
<1> HIDE DEF n
<1>4. Alike(s, CancelLifecycleTimers(r)) /\ CancelLifecycleTimers(r).state = s.state
  BY <1>2, <1>3 DEF Alike, Has
<1> QED BY <1>1, <1>2, <1>4, AlikeTrans

LEMMA RejectAlike ==
    ASSUME NEW r, Has(r)
    PROVE  Alike(r, RejectPending(r)) /\ RejectPending(r).state = r.state
  BY DEF RejectPending, Alike, Has

LEMMA QuietAlike ==
    ASSUME NEW r, Has(r), NEW state
    PROVE  Alike(r, Quiet(r, state)) /\ Quiet(r, state).state = state
  BY DEF Quiet, Alike, Has

-----------------------------------------------------------------------------
(* #terminate: the reaction waits, or is queued at once.                   *)

(* The fields that #terminate leaves alone.                                *)
Untouched(a, s) ==
    /\ s.gen = a.gen /\ s.spawnGen = a.spawnGen /\ s.failedGen = a.failedGen
    /\ s.attempt = a.attempt /\ s.respawn = a.respawn /\ s.present = a.present
    /\ s.desired = a.desired /\ s.state = a.state
    /\ s.restart = a.restart /\ s.requeue = a.requeue

Ends(a, s, w) ==
    /\ Typed(s) /\ Untouched(a, s)
    /\ s.waiters # <<>> => s.lc \in Terminating
    /\ a.lc = "none" => s.lc = "none"
    /\ \E m \in Reactions :
          /\ m.kind = w.kind /\ m.gen = w.gen
          /\ \/ /\ Micro(s) = Micro(a) \cup {m} /\ Waiting(s) = Waiting(a)
                /\ m.ok => s.lc = "none"
             \/ Micro(s) = Micro(a) /\ Waiting(s) = Waiting(a) \cup {m}

LEMMA ThenEnds ==
    ASSUME NEW a, Typed(a), a.waiters # <<>> => a.lc \in Terminating,
           NEW m \in Reactions, m.ok => a.lc = "none"
    PROVE  Ends(a, Then(a, m), m)
<1> DEFINE q == Append(a.micro, m)
           s == [a EXCEPT !.micro = q]
<1>1. q \in Seq(Reactions) /\ Elems(q) = Elems(a.micro) \cup {m}
  BY ElemsAppend DEF Typed
<1> HIDE DEF q
<1>2. s.micro = q /\ Typed(s) /\ s.lc = a.lc /\ s.waiters = a.waiters
  BY <1>1 DEF Typed, Has
<1>3. Untouched(a, s)
  BY DEF Typed, Has, Untouched
<1> HIDE DEF s
<1>4. Micro(s) = Micro(a) \cup {m} /\ Waiting(s) = Waiting(a)
  BY <1>1, <1>2 DEF Micro, Waiting
<1>5. Ends(a, s, m)
  BY <1>2, <1>3, <1>4 DEF Ends
<1> QED BY <1>5 DEF Then, s, q

LEMMA WaitEnds ==
    ASSUME NEW a, Typed(a), NEW m \in Reactions, a.lc # "none",
           NEW s, Has(s), Untouched(a, s), s.micro = a.micro, s.lc \in Terminating,
           s.waiters = Append(a.waiters, m)
    PROVE  Ends(a, s, m)
<1>1. s.waiters \in Seq(Reactions) /\ Elems(s.waiters) = Elems(a.waiters) \cup {m}
  BY ElemsAppend DEF Typed
<1>2. Typed(s)
  BY <1>1 DEF Typed, Untouched, Terminating, Lifecycles
<1>3. Micro(s) = Micro(a) /\ Waiting(s) = Waiting(a) \cup {m}
  BY <1>1 DEF Micro, Waiting
<1> QED BY <1>2, <1>3 DEF Ends, Untouched

LEMMA TerminateEnds ==
    ASSUME NEW a, Typed(a), a.waiters # <<>> => a.lc \in Terminating, NEW w \in Reactions
    PROVE  Ends(a, Terminate(a, w), w)
<1>1. CASE a.lc = "none"
  BY <1>1, ThenEnds DEF Terminate, Terminating
<1>2. CASE a.lc = "abandoned"
  <2> DEFINE v == [w EXCEPT !.ok = FALSE]
  <2>1. v \in Reactions /\ v.kind = w.kind /\ v.gen = w.gen /\ ~v.ok
    BY DEF Reactions
  <2>2. Terminate(a, w) = Then(a, v)
    BY <1>2 DEF Terminate, Terminating
  <2> HIDE DEF v
  <2>3. Ends(a, Then(a, v), v)
    BY <2>1, ThenEnds
  <2> QED BY <2>1, <2>2, <2>3 DEF Ends
<1>3. CASE a.lc \in Terminating
  <2>1. Terminate(a, w) = [a EXCEPT !.waiters = Append(a.waiters, w)]
    BY <1>3 DEF Terminate, Terminating
  <2>2. a.lc # "none"
    BY <1>3 DEF Terminating
  <2> DEFINE s == [a EXCEPT !.waiters = Append(a.waiters, w)]
  <2>3. Has(s) /\ Untouched(a, s) /\ s.micro = a.micro /\ s.lc = a.lc /\ s.waiters = Append(a.waiters, w)
    BY DEF Typed, Has, Untouched
  <2> HIDE DEF s
  <2>4. Ends(a, s, w)
    BY <1>3, <2>2, <2>3, WaitEnds
  <2> QED BY <2>1, <2>4 DEF s
<1>4. CASE a.lc = "tracked" /\ a.exited
  <2> DEFINE b == [a EXCEPT !.child = FALSE]
             c == ReleaseLifecycle(b)
  <2>1. Terminate(a, w) = Then(c, w)
    BY <1>4 DEF Terminate, Terminating
  <2>2. Typed(b) /\ b.micro = a.micro /\ b.waiters = a.waiters
    BY DEF Typed, Has
  <2>3. Untouched(a, b)
    BY DEF Typed, Has, Untouched
  <2> HIDE DEF b
  <2>4. Typed(c) /\ c.lc = "none" /\ c.micro = b.micro /\ c.waiters = b.waiters
    BY <2>2 DEF Typed, Has, ReleaseLifecycle, Lifecycles
  <2>5. Untouched(b, c)
    BY <2>2 DEF Typed, Has, ReleaseLifecycle, Untouched
  <2> HIDE DEF c
  <2>6. c.waiters = <<>>
    BY <1>4, <2>2, <2>4 DEF Terminating
  <2>7. Ends(c, Then(c, w), w)
    BY <2>4, <2>6, ThenEnds
  <2>8. Micro(c) = Micro(a) /\ Waiting(c) = Waiting(a)
    BY <2>2, <2>4 DEF Micro, Waiting
  <2> QED BY <1>4, <2>1, <2>2, <2>3, <2>4, <2>5, <2>7, <2>8 DEF Ends, Untouched
<1>5. CASE a.lc = "tracked" /\ ~a.exited
  <2> DEFINE lc == IF a.connected THEN "shutdown" ELSE "sigterm"
  <2>1. lc \in Terminating
    BY DEF Terminating
  <2>2. Terminate(a, w) = [a EXCEPT !.child = FALSE, !.waiters = Append(a.waiters, w), !.lc = lc]
    BY <1>5 DEF Terminate, Terminating
  <2> HIDE DEF lc
  <2> DEFINE s == [a EXCEPT !.child = FALSE, !.waiters = Append(a.waiters, w), !.lc = lc]
  <2>3. Has(s) /\ Untouched(a, s) /\ s.micro = a.micro /\ s.lc = lc /\ s.waiters = Append(a.waiters, w)
    BY DEF Typed, Has, Untouched
  <2> HIDE DEF s
  <2>4. Ends(a, s, w)
    BY <1>5, <2>1, <2>3, WaitEnds
  <2> QED BY <2>2, <2>4 DEF s
<1>6. a.lc \in {"none", "abandoned", "tracked"} \cup Terminating
  BY DEF Typed, Lifecycles
<1> QED BY <1>1, <1>2, <1>3, <1>4, <1>5, <1>6

LEMMA EndsConsistent ==
    ASSUME NEW a, Typed(a), Sane(a), a.present, NEW s, NEW w, Ends(a, s, w),
           w.kind = "restart" => w.gen = a.gen /\ (a.attempt # "none" => a.spawnGen < a.gen),
           a.restart = "terminate" => Awaits(a, "restart") \/ w.kind = "restart",
           a.restart \in {"spawn", "chain"} => a.attempt # "none"
    PROVE  Consistent(s) /\ Awaits(s, w.kind)
<1>1. PICK m \in Reactions :
          /\ m.kind = w.kind /\ m.gen = w.gen
          /\ \/ /\ Micro(s) = Micro(a) \cup {m} /\ Waiting(s) = Waiting(a)
                /\ m.ok => s.lc = "none"
             \/ Micro(s) = Micro(a) /\ Waiting(s) = Waiting(a) \cup {m}
  BY DEF Ends
<1>2. /\ Micro(s) \cup Waiting(s) = Micro(a) \cup Waiting(a) \cup {m}
      /\ \A n \in Micro(s) : n \in Micro(a) \/ (n = m /\ (m.ok => s.lc = "none"))
  BY <1>1
<1>3. /\ s.gen = a.gen /\ s.spawnGen = a.spawnGen /\ s.failedGen = a.failedGen
      /\ s.attempt = a.attempt /\ s.present = a.present /\ s.restart = a.restart
      /\ a.lc = "none" => s.lc = "none"
      /\ s.waiters # <<>> => s.lc \in Terminating
      /\ Typed(s)
  BY DEF Ends, Untouched
<1>4. Ordered(s, m)
  <2>1. a.gen \in Nat
    BY DEF Typed
  <2> QED BY <1>1, <1>3, <2>1 DEF Ordered
<1>5. \A n \in Micro(s) \cup Waiting(s) : Ordered(s, n)
  BY <1>2, <1>3, <1>4 DEF Sane, Ordered
<1>6. \A n \in Micro(s) : n.kind = "restart" /\ n.ok /\ n.gen = s.gen => s.lc = "none"
  BY <1>2, <1>3 DEF Sane
<1>7. Sane(s)
  BY <1>3, <1>5, <1>6 DEF Sane, Current, Attempting
<1>8. Awaits(s, w.kind) /\ \A kind : Awaits(a, kind) => Awaits(s, kind)
  BY <1>1, <1>2 DEF Awaits
<1>9. Chained(s)
  BY <1>3, <1>8 DEF Chained
<1> QED BY <1>3, <1>7, <1>8, <1>9 DEF Consistent

(* A termination that ends a record's claim, or that stop() awaits.        *)
LEMMA EndsHonest ==
    ASSUME NEW a, Typed(a), Sane(a), a.present, NEW c, Alike(a, c), NEW w \in Reactions,
           w.kind = "restart" => w.gen = a.gen /\ (a.attempt # "none" => a.spawnGen < a.gen),
           a.restart = "terminate" => Awaits(a, "restart") \/ w.kind = "restart",
           a.restart \in {"spawn", "chain"} => a.attempt # "none",
           c.state \in {"backoff", "stopped"} \/ w.kind = "stop"
    PROVE  \A over : Honest(Terminate(c, w), over)
<1> DEFINE s == Terminate(c, w)
<1>1. Typed(c) /\ Sane(c) /\ (\A kind : Awaits(c, kind) <=> Awaits(a, kind))
  BY AlikeTyped, AlikeSane
<1>2. Ends(c, s, w)
  BY <1>1, TerminateEnds DEF Sane
<1> HIDE DEF s
<1>3. /\ c.present /\ (w.kind = "restart" => w.gen = c.gen /\ (c.attempt # "none" => c.spawnGen < c.gen))
      /\ c.restart = "terminate" => Awaits(c, "restart") \/ w.kind = "restart"
      /\ c.restart \in {"spawn", "chain"} => c.attempt # "none"
  BY <1>1 DEF Alike
<1>4. Consistent(s) /\ Awaits(s, w.kind)
  BY <1>1, <1>2, <1>3, EndsConsistent
<1>5. s.state = c.state
  BY <1>2 DEF Ends, Untouched
<1>6. \A over : Honest(s, over)
  BY <1>4, <1>5, QuietHonest DEF Honest, Truthful, Backed, GivenUp
<1> QED BY <1>6 DEF s

LEMMA RetireAlike ==
    ASSUME NEW a, Has(a), NEW state
    PROVE  /\ Alike(a, RejectPending(Quiet(CancelLifecycleTimers(a), state)))
           /\ RejectPending(Quiet(CancelLifecycleTimers(a), state)).state = state
           /\ Alike(a, Quiet(RejectPending(CancelLifecycleTimers(a)), state))
           /\ Quiet(RejectPending(CancelLifecycleTimers(a)), state).state = state
           /\ Alike(a, RejectPending(CancelLifecycleTimers(a)))
<1> DEFINE b == CancelLifecycleTimers(a)
           c == Quiet(b, state)
           d == RejectPending(b)
<1>1. Alike(a, b) /\ Has(b)
  BY TimersAlike DEF Alike
<1> HIDE DEF b
<1>2. Alike(b, c) /\ c.state = state /\ Has(c) /\ Alike(b, d) /\ Has(d)
  BY <1>1, QuietAlike, RejectAlike DEF Alike
<1> HIDE DEF c, d
<1>3. Alike(c, RejectPending(c)) /\ RejectPending(c).state = state /\ Alike(d, Quiet(d, state)) /\ Quiet(d, state).state = state
  BY <1>2, QuietAlike, RejectAlike
<1> QED BY <1>1, <1>2, <1>3, AlikeTrans DEF b, c, d

(* A new generation makes every reaction and every attempt an older one.   *)
LEMMA BumpSane ==
    ASSUME NEW r, Typed(r), Sane(r), NEW a, Has(a), a.gen = r.gen + 1, a.spawnGen = r.spawnGen,
           a.lc = r.lc, a.micro = r.micro, a.waiters = r.waiters
    PROVE  /\ Typed(a) /\ Sane(a) /\ a.spawnGen < a.gen /\ ~Current(a)
           /\ \A kind : Awaits(a, kind) <=> Awaits(r, kind)
<1>1. Micro(a) = Micro(r) /\ Waiting(a) = Waiting(r)
  BY DEF Micro, Waiting
<1>2. r.gen \in Nat /\ r.spawnGen \in Nat /\ a.gen \in Nat /\ a.spawnGen <= a.gen /\ a.spawnGen < a.gen
  BY DEF Typed, Sane
<1>3. Typed(a)
  BY <1>2 DEF Typed
<1>4. ASSUME NEW m \in Micro(a) \cup Waiting(a), m.kind = "restart" PROVE m.gen <= a.gen /\ m.gen # a.gen
  <2>1. m \in Reactions
    BY <1>1, <1>4, ElemsTyped DEF Micro, Waiting, Typed
  <2>2. m.gen \in Nat
    BY <2>1 DEF Reactions
  <2>3. m.gen <= r.gen
    BY <1>1, <1>4 DEF Sane, Ordered
  <2> QED BY <1>2, <2>2, <2>3
<1>5. ~Current(a)
  BY <1>2 DEF Current
<1>6. Sane(a)
  BY <1>1, <1>2, <1>4, <1>5 DEF Sane, Ordered
<1> QED BY <1>1, <1>2, <1>3, <1>5, <1>6 DEF Awaits

-----------------------------------------------------------------------------
(* What the helpers leave is consistent and honest.                        *)

LEMMA RemoveHonest ==
    ASSUME NEW r, Consistent(r), r.present, NEW c \in Calls
    PROVE  \A over : Honest(RemoveRecord(r, c), over)
<1> DEFINE a == [r EXCEPT !.desired = FALSE, !.gen = @ + 1, !.removeWhenReaped = TRUE]
           b == Quiet(RejectPending(CancelLifecycleTimers(a)), "stopped")
           w == [Reaction("remove") EXCEPT !.call = c]
<1>1. w \in Reactions /\ w.kind = "remove"
  BY DEF Reaction, Reactions, Kinds
<1>2. RemoveRecord(r, c) = Terminate(b, w)
  BY DEF RemoveRecord
<1>3. Has(a) /\ a.gen = r.gen + 1 /\ a.spawnGen = r.spawnGen /\ a.lc = r.lc /\ a.micro = r.micro /\ a.waiters = r.waiters
  BY DEF Consistent, Typed, Has
<1>4. a.present = r.present /\ a.restart = r.restart /\ a.attempt = r.attempt
  BY DEF Consistent, Typed, Has
<1> HIDE DEF a, w
<1>5. Typed(a) /\ Sane(a) /\ (\A kind : Awaits(a, kind) <=> Awaits(r, kind))
  BY <1>3, BumpSane DEF Consistent
<1>6. Alike(a, b) /\ b.state = "stopped"
  BY <1>3, RetireAlike
<1> HIDE DEF b
<1>7. \A over : Honest(Terminate(b, w), over)
  BY <1>1, <1>4, <1>5, <1>6, EndsHonest DEF Consistent, Chained
<1> QED BY <1>2, <1>7

LEMMA StopHonest ==
    ASSUME NEW r, Consistent(r), r.present
    PROVE  LET a == [r EXCEPT !.desired = FALSE, !.gen = @ + 1, !.removeWhenReaped = FALSE]
           IN  \A over : Honest(Terminate(RejectPending(CancelLifecycleTimers(a)), Reaction("stop")), over)
<1> DEFINE a == [r EXCEPT !.desired = FALSE, !.gen = @ + 1, !.removeWhenReaped = FALSE]
           b == RejectPending(CancelLifecycleTimers(a))
           w == Reaction("stop")
<1>1. w \in Reactions /\ w.kind = "stop"
  BY DEF Reaction, Reactions, Kinds
<1>3. Has(a) /\ a.gen = r.gen + 1 /\ a.spawnGen = r.spawnGen /\ a.lc = r.lc /\ a.micro = r.micro /\ a.waiters = r.waiters
  BY DEF Consistent, Typed, Has
<1>4. a.present = r.present /\ a.restart = r.restart /\ a.attempt = r.attempt
  BY DEF Consistent, Typed, Has
<1> HIDE DEF a, w
<1>5. Typed(a) /\ Sane(a) /\ (\A kind : Awaits(a, kind) <=> Awaits(r, kind))
  BY <1>3, BumpSane DEF Consistent
<1>6. Alike(a, b)
  BY <1>3, RetireAlike
<1> HIDE DEF b
<1>7. \A over : Honest(Terminate(b, w), over)
  BY <1>1, <1>4, <1>5, <1>6, EndsHonest DEF Consistent, Chained
<1> QED BY <1>7 DEF a, b, w

(* A cancelled lookup leaves its attempt to be settled.                    *)
LEMMA CancelLookupFields ==
    ASSUME NEW a, Has(a), a.lookup = "open" => a.attempt = "lookup"
    PROVE  LET l == CancelLookup(a)
           IN  /\ Has(l) /\ l.gen = a.gen /\ l.spawnGen = a.spawnGen /\ l.failedGen = a.failedGen
               /\ l.respawn = a.respawn /\ l.lc = a.lc /\ l.child = a.child
               /\ l.micro = a.micro /\ l.waiters = a.waiters
               /\ l.present = a.present /\ l.desired = a.desired /\ l.state = a.state
               /\ l.restart = a.restart /\ l.requeue = a.requeue
               /\ l.attempt = a.attempt \/ (a.attempt = "lookup" /\ l.attempt = "refused")
<1>1. CASE a.lookup = "open"
  <2> DEFINE l == [a EXCEPT !.lookup = "blocked", !.attempt = "refused"]
  <2>1. CancelLookup(a) = l
    BY <1>1 DEF CancelLookup
  <2>2. /\ Has(l) /\ l.gen = a.gen /\ l.spawnGen = a.spawnGen /\ l.failedGen = a.failedGen
        /\ l.respawn = a.respawn /\ l.lc = a.lc /\ l.child = a.child
        /\ l.micro = a.micro /\ l.waiters = a.waiters
    BY DEF Has
  <2>3. /\ l.present = a.present /\ l.desired = a.desired /\ l.state = a.state
        /\ l.restart = a.restart /\ l.requeue = a.requeue /\ l.attempt = "refused"
    BY DEF Has
  <2> HIDE DEF l
  <2> QED BY <1>1, <2>1, <2>2, <2>3
<1>2. CASE a.lookup # "open"
  BY <1>2 DEF CancelLookup
<1> QED BY <1>1, <1>2

LEMMA DisposeHonest ==
    ASSUME NEW r, Sound(r), Consistent(r), r.present
    PROVE  \A over : Honest(DisposeRecord(r), over)
<1> DEFINE a == [r EXCEPT !.desired = FALSE, !.gen = @ + 1, !.removeWhenReaped = TRUE]
           l == CancelLookup(a)
           b == Quiet(RejectPending(CancelLifecycleTimers(l)), "stopped")
           w == Reaction("dispose")
<1>1. w \in Reactions /\ w.kind = "dispose"
  BY DEF Reaction, Reactions, Kinds
<1>2. DisposeRecord(r) = Terminate(b, w)
  BY DEF DisposeRecord
<1>3. Has(a) /\ a.gen = r.gen + 1 /\ a.spawnGen = r.spawnGen /\ a.lc = r.lc /\ a.micro = r.micro /\ a.waiters = r.waiters
  BY DEF Consistent, Typed, Has
<1>4. a.present = r.present /\ a.restart = r.restart /\ a.attempt = r.attempt
  BY DEF Consistent, Typed, Has
<1>5. a.lookup = r.lookup
  BY DEF Sound, Records
<1>6. a.lookup = "open" => a.attempt = "lookup"
  BY <1>4, <1>5 DEF Sound, Shape
<1> HIDE DEF a, w
<1>7. /\ Has(l) /\ l.gen = r.gen + 1 /\ l.spawnGen = r.spawnGen /\ l.lc = r.lc /\ l.micro = r.micro
      /\ l.waiters = r.waiters /\ l.present = r.present /\ l.restart = r.restart
      /\ l.attempt = r.attempt \/ (r.attempt = "lookup" /\ l.attempt = "refused")
  BY <1>3, <1>4, <1>6, CancelLookupFields
<1> HIDE DEF l
<1>8. Typed(l) /\ Sane(l) /\ (\A kind : Awaits(l, kind) <=> Awaits(r, kind))
  BY <1>7, BumpSane DEF Consistent
<1>9. Alike(l, b) /\ b.state = "stopped"
  BY <1>7, RetireAlike
<1> HIDE DEF b
<1>10. /\ l.restart = "terminate" => Awaits(l, "restart")
       /\ l.restart \in {"spawn", "chain"} => l.attempt # "none"
  BY <1>7, <1>8 DEF Consistent, Chained
<1>11. \A over : Honest(Terminate(b, w), over)
  BY <1>1, <1>7, <1>8, <1>9, <1>10, EndsHonest
<1> QED BY <1>2, <1>11

(* #failRecord, of a record that is not between a spawn and its child.     *)
LEMMA FailHonest ==
    ASSUME NEW r, NEW over, Consistent(r), ~Attempting(r), NEW g \in Nat,
           Honest(r, over) \/ OwnsGeneration(r, g)
    PROVE  Honest(FailRecord(r, g), over)
<1>1. CASE ~OwnsGeneration(r, g)
  BY <1>1 DEF FailRecord
<1>2. CASE OwnsGeneration(r, g)
  <2> DEFINE w == [Reaction("fail") EXCEPT !.gen = g]
             t == CancelStartupTimers(r)
             a == [t EXCEPT !.failedGen = g, !.stableTimer = FALSE, !.restartCount = @ + 1]
             b == Quiet(a, "backoff")
             c == RejectPending(b)
  <2>1. FailRecord(r, g) = Terminate(c, w)
    BY <1>2 DEF FailRecord
  <2>2. w \in Reactions /\ w.kind = "fail"
    BY DEF Reaction, Reactions, Kinds
  <2>3. Alike(r, t) /\ Has(t)
    BY TimersAlike DEF Alike, Consistent, Typed
  <2> HIDE DEF t, w
  <2>4. /\ Has(a) /\ a.gen = t.gen /\ a.spawnGen = t.spawnGen /\ a.attempt = t.attempt
        /\ a.lc = t.lc /\ a.micro = t.micro /\ a.waiters = t.waiters
        /\ a.present = t.present /\ a.restart = t.restart
    BY <2>3 DEF Has
  <2> HIDE DEF a
  <2>5. Alike(a, b) /\ Has(b)
    BY <2>4, QuietAlike DEF Alike
  <2>6. b.state = "backoff"
    BY <2>4, QuietAlike
  <2> HIDE DEF b
  <2>7. Alike(a, c) /\ c.state = "backoff"
    BY <2>5, <2>6, RejectAlike, AlikeTrans
  <2> HIDE DEF c
  <2>8. /\ a.gen = r.gen /\ a.spawnGen = r.spawnGen /\ a.attempt = r.attempt /\ a.lc = r.lc
        /\ a.micro = r.micro /\ a.waiters = r.waiters /\ a.present = r.present /\ a.restart = r.restart
    BY <2>3, <2>4 DEF Alike
  <2>9. Micro(a) = Micro(r) /\ Waiting(a) = Waiting(r)
    BY <2>8 DEF Micro, Waiting
  <2>10. Typed(a)
    BY <2>4, <2>8 DEF Typed, Consistent
  <2>11. ~Current(a)
    BY <2>8 DEF Current, Attempting
  <2>12. Sane(a)
    BY <2>8, <2>9, <2>11 DEF Sane, Ordered, Consistent
  <2>13. /\ a.present
         /\ a.restart = "terminate" => Awaits(a, "restart")
         /\ a.restart \in {"spawn", "chain"} => a.attempt # "none"
    BY <1>2, <2>8, <2>9 DEF Chained, Awaits, Consistent, OwnsGeneration
  <2>14. \A o : Honest(Terminate(c, w), o)
    BY <2>2, <2>7, <2>10, <2>12, <2>13, EndsHonest
  <2> QED BY <2>1, <2>14
<1> QED BY <1>1, <1>2

(* A deleted record claims nothing and has no restart.                     *)
LEMMA DeleteHonest ==
    ASSUME NEW r, r.micro \in Seq(Reactions)
    PROVE  \A over : Honest(Delete(r), over)
<1> DEFINE q == [i \in 1..Len(r.micro) |-> [r.micro[i] EXCEPT !.kind =
                    IF @ \in {"remove", "notify"} THEN "notify" ELSE "void"]]
           n == NewRecord(NoToken)
           s == [n EXCEPT !.micro = q]
<1>1. \A i \in 1..Len(r.micro) : q[i] \in Reactions /\ q[i].kind \in {"notify", "void"}
  <2> TAKE i \in 1..Len(r.micro)
  <2>1. r.micro[i] \in Reactions
    OBVIOUS
  <2>2. PICK kind \in {"notify", "void"} : q[i] = [r.micro[i] EXCEPT !.kind = kind]
    BY <2>1
  <2> QED BY <2>1, <2>2 DEF Reactions, Kinds
<1>2. q \in Seq(Reactions) /\ Len(q) = Len(r.micro)
  <2>1. q \in [1..Len(r.micro) -> Reactions]
    BY <1>1
  <2>2. Len(r.micro) \in Nat
    OBVIOUS
  <2> HIDE DEF q
  <2> QED BY <2>1, <2>2
<1>3. \A m \in Elems(q) : m.kind # "restart"
  BY <1>1, <1>2 DEF Elems
<1> HIDE DEF q
<1>4. /\ Has(n) /\ ~n.present /\ n.gen = 0 /\ n.spawnGen = 0 /\ n.attempt = "none" /\ n.lc = "none"
      /\ n.waiters = <<>> /\ n.restart = "none"
  <2>1. Has(n)
    BY DEF NewRecord, Has
  <2>2. ~n.present
    BY DEF NewRecord
  <2>3. n.gen = 0 /\ n.spawnGen = 0 /\ n.attempt = "none" /\ n.lc = "none" /\ n.waiters = <<>> /\ n.restart = "none"
    BY DEF NewRecord
  <2> QED BY <2>1, <2>2, <2>3
<1> HIDE DEF n
<1>5. /\ Has(s) /\ ~s.present /\ s.gen = 0 /\ s.spawnGen = 0 /\ s.attempt = "none" /\ s.lc = "none"
      /\ s.waiters = <<>> /\ s.restart = "none" /\ s.micro = q
  BY <1>4 DEF Has
<1> HIDE DEF s
<1>6. Typed(s)
  BY <1>2, <1>5, ElemsEmpty DEF Typed, Lifecycles
<1>7. \A m \in Micro(s) \cup Waiting(s) : m.kind # "restart"
  BY <1>3, <1>5, ElemsEmpty DEF Micro, Waiting
<1>8. Sane(s)
  BY <1>5, <1>7 DEF Sane, Ordered, Current, Attempting
<1>9. Chained(s)
  BY <1>5, <1>7 DEF Chained, Awaits
<1>10. \A over : Honest(s, over)
  BY <1>5, <1>6, <1>8, <1>9 DEF Honest, Consistent, Truthful, Backed, GivenUp, Working
<1> QED BY <1>10 DEF Delete, n, q, s

LEMMA DormantHonest ==
    ASSUME NEW r, NEW over, Honest(r, over)
    PROVE  Honest(DeleteDormantRecord(r), over)
  BY DeleteHonest DEF DeleteDormantRecord, Honest, Consistent, Typed

(* #restartRecord starts over, or leaves it to the restart under way.      *)
LEMMA RestartHonest ==
    ASSUME NEW r, NEW over, NEW queue, Consistent(r), r.present,
           r.restart # "none" => over \/ (GivenUp(r) /\ (queue \/ Backed(r)))
    PROVE  Honest(RestartRecord(r, queue), over)
<1>1. CASE r.restart # "none"
  <2> DEFINE b == r.requeue \/ queue
             s == [r EXCEPT !.requeue = b]
  <2>1. RestartRecord(r, queue) = s
    BY <1>1 DEF RestartRecord
  <2>2. r.requeue => b
    OBVIOUS
  <2>3. queue => b
    OBVIOUS
  <2> HIDE DEF b
  <2>4. /\ Has(s) /\ s.gen = r.gen /\ s.spawnGen = r.spawnGen /\ s.failedGen = r.failedGen
        /\ s.attempt = r.attempt /\ s.respawn = r.respawn /\ s.lc = r.lc /\ s.child = r.child
        /\ s.micro = r.micro /\ s.waiters = r.waiters
    BY DEF Has, Consistent, Typed
  <2>5. s.present = r.present /\ s.desired = r.desired /\ s.state = r.state /\ s.restart = r.restart /\ s.requeue = b
    BY DEF Has, Consistent, Typed
  <2> HIDE DEF s
  <2>6. Micro(s) = Micro(r) /\ Waiting(s) = Waiting(r) /\ (Current(s) <=> Current(r)) /\ (Working(s) <=> Working(r))
    BY <2>4, <2>5 DEF Micro, Waiting, Current, Attempting, Working
  <2>7. Typed(s) /\ Sane(s)
    BY <2>4, <2>6 DEF Consistent, Typed, Sane, Ordered
  <2>8. Chained(s)
    BY <2>4, <2>5, <2>6 DEF Consistent, Chained, Awaits
  <2>9. over \/ GivenUp(s)
    BY <1>1, <2>4, <2>5, <2>6 DEF GivenUp, Awaits
  <2>10. over \/ Backed(s)
    BY <1>1, <2>2, <2>3, <2>4, <2>5, <2>6 DEF Backed, Awaits
  <2> QED BY <2>1, <2>7, <2>8, <2>9, <2>10 DEF Honest, Consistent, Truthful
<1>2. CASE r.restart = "none"
  <2> DEFINE a == [r EXCEPT !.gen = @ + 1, !.restart = "terminate"]
             b == RejectPending(Quiet(CancelLifecycleTimers(a), "backoff"))
             w == [Reaction("restart") EXCEPT !.gen = r.gen + 1]
  <2>1. RestartRecord(r, queue) = Terminate(b, w)
    BY <1>2 DEF RestartRecord, PerformRestart
  <2>2. r.gen + 1 \in Nat
    BY DEF Consistent, Typed
  <2>3. w \in Reactions /\ w.kind = "restart" /\ w.gen = r.gen + 1
    BY <2>2 DEF Reaction, Reactions, Kinds
  <2>4. /\ Has(a) /\ a.gen = r.gen + 1 /\ a.spawnGen = r.spawnGen /\ a.lc = r.lc /\ a.micro = r.micro
        /\ a.waiters = r.waiters /\ a.present = r.present /\ a.restart = "terminate" /\ a.attempt = r.attempt
    BY DEF Consistent, Typed, Has
  <2> HIDE DEF a, w
  <2>5. Typed(a) /\ Sane(a) /\ a.spawnGen < a.gen
    BY <2>4, BumpSane DEF Consistent
  <2>6. Alike(a, b) /\ b.state = "backoff"
    BY <2>4, RetireAlike
  <2> HIDE DEF b
  <2>7. \A o : Honest(Terminate(b, w), o)
    BY <2>3, <2>4, <2>5, <2>6, EndsHonest
  <2> QED BY <2>1, <2>7
<1> QED BY <1>1, <1>2

(* What a spawn needs to find: a record given up is being stopped, and an  *)
(* attempt that is not for the present generation backs nothing yet.       *)
Spawnable(r) ==
    /\ r.child <=> r.lc = "tracked"
    /\ disposed \/ (GivenUp(r) /\ (Backed(r) \/ r.attempt = "none" \/ r.spawnGen # r.gen))

(* What #spawn does with the fields of a record.                           *)
Spawned(r, s) ==
    /\ Has(s)
    /\ s.lc = r.lc /\ s.child = r.child /\ s.micro = r.micro /\ s.waiters = r.waiters
    /\ s.present = r.present /\ s.desired = r.desired /\ s.restart = r.restart /\ s.requeue = r.requeue
    /\ \/ /\ ~MaySpawn(r) /\ s = r
       \/ /\ MaySpawn(r) /\ r.attempt # "none"
          /\ s.gen = r.gen /\ s.spawnGen = r.spawnGen /\ s.failedGen = r.failedGen
          /\ s.attempt = r.attempt /\ s.state = r.state
          /\ r.respawn \/ r.spawnGen # r.gen => s.respawn
       \/ /\ MaySpawn(r) /\ s.gen = r.gen + 1 /\ s.spawnGen = r.gen + 1 /\ s.failedGen = 0
          /\ s.attempt \in {"lookup", "refused"} /\ s.state = "starting"

LEMMA SpawnSpawned == ASSUME NEW r, Has(r) PROVE Spawned(r, Spawn(r))
<1>1. CASE ~MaySpawn(r)
  BY <1>1 DEF Spawn, Spawned
<1>2. CASE MaySpawn(r) /\ r.attempt # "none"
  <2> DEFINE b == r.respawn \/ r.spawnGen # r.gen
             s == [r EXCEPT !.respawn = b]
  <2>1. Spawn(r) = s
    BY <1>2 DEF Spawn
  <2>2. r.respawn \/ r.spawnGen # r.gen => b
    OBVIOUS
  <2> HIDE DEF b
  <2>3. /\ Has(s) /\ s.gen = r.gen /\ s.spawnGen = r.spawnGen /\ s.failedGen = r.failedGen
        /\ s.attempt = r.attempt /\ s.respawn = b /\ s.lc = r.lc /\ s.child = r.child
        /\ s.micro = r.micro /\ s.waiters = r.waiters
    BY DEF Has
  <2>4. s.present = r.present /\ s.desired = r.desired /\ s.state = r.state /\ s.restart = r.restart /\ s.requeue = r.requeue
    BY DEF Has
  <2> HIDE DEF s
  <2> QED BY <1>2, <2>1, <2>2, <2>3, <2>4 DEF Spawned
<1>3. CASE MaySpawn(r) /\ r.attempt = "none"
  <2> DEFINE q == Quiet(r, "starting")
             a == [q EXCEPT !.gen = @ + 1, !.spawnGen = r.gen + 1, !.failedGen = 0, !.refresh = "none"]
             s == BoundedCredential(a)
  <2>1. Spawn(r) = s
    BY <1>3 DEF Spawn
  <2>2. Alike(r, q) /\ Has(q) /\ q.state = "starting"
    BY QuietAlike DEF Alike
  <2> HIDE DEF q
  <2>3. /\ Has(a) /\ a.gen = q.gen + 1 /\ a.spawnGen = r.gen + 1 /\ a.failedGen = 0 /\ a.state = q.state
        /\ a.lc = q.lc /\ a.child = q.child /\ a.micro = q.micro /\ a.waiters = q.waiters
    BY <2>2 DEF Has
  <2>4. a.present = q.present /\ a.desired = q.desired /\ a.restart = q.restart /\ a.requeue = q.requeue
    BY <2>2 DEF Has
  <2> HIDE DEF a
  <2> DEFINE Fine(t) ==
        /\ Has(t) /\ t.gen = a.gen /\ t.spawnGen = a.spawnGen /\ t.failedGen = a.failedGen /\ t.state = a.state
        /\ t.lc = a.lc /\ t.child = a.child /\ t.micro = a.micro /\ t.waiters = a.waiters
        /\ t.present = a.present /\ t.desired = a.desired /\ t.restart = a.restart /\ t.requeue = a.requeue
        /\ t.attempt \in {"lookup", "refused"}
  <2> DEFINE t1 == [a EXCEPT !.attempt = "lookup", !.lookup = "open", !.credential = a.token]
             t2 == [a EXCEPT !.attempt = "lookup"]
             t3 == [a EXCEPT !.attempt = "refused"]
  <2>5. Fine(t1)
    BY <2>3 DEF Has
  <2>6. Fine(t2)
    BY <2>3 DEF Has
  <2>7. Fine(t3)
    BY <2>3 DEF Has
  <2>8. s = t1 \/ s = t2 \/ s = t3
    BY DEF BoundedCredential
  <2> HIDE DEF Fine, t1, t2, t3, s
  <2>9. Fine(s)
    BY <2>5, <2>6, <2>7, <2>8
  <2> QED BY <1>3, <2>1, <2>2, <2>3, <2>4, <2>9 DEF Fine, Spawned, Alike
<1> QED BY <1>1, <1>2, <1>3

LEMMA SpawnedSane ==
    ASSUME NEW r, NEW s, Typed(r), Sane(r), Spawnable(r), Spawned(r, s)
    PROVE  /\ Typed(s) /\ Sane(s) /\ (disposed \/ Truthful(s))
           /\ r.attempt # "none" \/ MaySpawn(r) => s.attempt # "none"
           /\ \A kind : Awaits(s, kind) <=> Awaits(r, kind)
<1>1. Micro(s) = Micro(r) /\ Waiting(s) = Waiting(r)
  BY DEF Micro, Waiting, Spawned
<1>2. \A kind : Awaits(s, kind) <=> Awaits(r, kind)
  BY <1>1 DEF Awaits
<1>3. CASE ~MaySpawn(r)
  <2>1. s = r
    BY <1>3 DEF Spawned
  <2>2. disposed \/ GivenUp(r)
    BY DEF Spawnable
  <2>3. disposed \/ Backed(r)
    BY <1>3, <2>2 DEF Spawnable, MaySpawn, GivenUp, Backed, Working
  <2> QED BY <1>2, <1>3, <2>1, <2>2, <2>3 DEF Truthful
<1>4. CASE /\ MaySpawn(r) /\ r.attempt # "none"
           /\ s.gen = r.gen /\ s.spawnGen = r.spawnGen /\ s.failedGen = r.failedGen
           /\ s.attempt = r.attempt /\ s.state = r.state
           /\ r.respawn \/ r.spawnGen # r.gen => s.respawn
  <2>1. Typed(s)
    BY <1>4 DEF Typed, Spawned
  <2>2. Current(s) <=> Current(r)
    BY <1>4 DEF Current, Attempting
  <2>3. Sane(s)
    BY <1>1, <1>4, <2>2 DEF Sane, Ordered, Spawned
  <2>4. Working(s) <=> Working(r)
    BY <1>4 DEF Working, Spawned
  <2>5. disposed \/ GivenUp(s)
    BY <1>2, <2>4 DEF Spawnable, GivenUp, Spawned
  <2>6. disposed \/ Backed(s)
    BY <1>2, <1>4, <2>2, <2>4 DEF Spawnable, Backed, Spawned
  <2> QED BY <1>2, <1>4, <2>1, <2>3, <2>5, <2>6 DEF Truthful
<1>5. CASE /\ MaySpawn(r) /\ s.gen = r.gen + 1 /\ s.spawnGen = r.gen + 1 /\ s.failedGen = 0
           /\ s.attempt \in {"lookup", "refused"} /\ s.state = "starting"
  <2>1. r.gen \in Nat /\ s.gen \in Nat /\ s.spawnGen \in Nat /\ s.spawnGen <= s.gen /\ s.failedGen # s.gen
    BY <1>5 DEF Typed
  <2>2. Typed(s)
    BY <2>1 DEF Typed, Spawned
  <2>3. ASSUME NEW m \in Micro(s) \cup Waiting(s), m.kind = "restart" PROVE m.gen <= s.gen /\ m.gen # s.gen
    <3>1. m \in Reactions
      BY <1>1, <2>3, ElemsTyped DEF Micro, Waiting, Typed
    <3>2. m.gen \in Nat
      BY <3>1 DEF Reactions
    <3>3. m.gen <= r.gen
      BY <1>1, <2>3 DEF Sane, Ordered
    <3> QED BY <1>5, <2>1, <3>2, <3>3
  <2>4. Sane(s)
    BY <1>1, <2>1, <2>3 DEF Sane, Ordered, Spawned
  <2>5. Current(s)
    BY <1>5 DEF Current, Attempting
  <2>6. s.desired /\ s.lc = "none"
    BY <1>5 DEF MaySpawn, Spawned
  <2>7. Truthful(s)
    BY <2>5, <2>6 DEF Truthful, Backed, GivenUp
  <2> QED BY <1>2, <1>5, <2>2, <2>4, <2>7
<1> QED BY <1>3, <1>4, <1>5 DEF Spawned

LEMMA SpawnHonest ==
    ASSUME NEW r, Consistent(r), Spawnable(r)
    PROVE  Honest(Spawn(r), disposed)
<1> DEFINE s == Spawn(r)
<1>1. Spawned(r, s)
  BY SpawnSpawned DEF Consistent, Typed
<1> HIDE DEF s
<1>2. /\ Typed(s) /\ Sane(s) /\ (disposed \/ Truthful(s))
      /\ r.attempt # "none" => s.attempt # "none"
      /\ \A kind : Awaits(s, kind) <=> Awaits(r, kind)
  BY <1>1, SpawnedSane DEF Consistent
<1>3. Chained(s)
  BY <1>1, <1>2 DEF Consistent, Chained, Spawned
<1>4. Honest(s, disposed)
  BY <1>2, <1>3 DEF Honest, Consistent
<1> QED BY <1>4 DEF s

(* The restart attempt itself is of no concern to the rest.                *)
LEMMA RestartField ==
    ASSUME NEW r, NEW x, Typed(r), Sane(r), r.present,
           x \in {"spawn", "chain"} => r.attempt # "none", x \in {"spawn", "chain", "over"},
           disposed \/ Truthful(r)
    PROVE  Honest([r EXCEPT !.restart = x], disposed)
<1> DEFINE s == [r EXCEPT !.restart = x]
<1>1. /\ Has(s) /\ s.gen = r.gen /\ s.spawnGen = r.spawnGen /\ s.failedGen = r.failedGen
      /\ s.attempt = r.attempt /\ s.respawn = r.respawn /\ s.lc = r.lc /\ s.child = r.child
      /\ s.micro = r.micro /\ s.waiters = r.waiters
  BY DEF Has, Typed
<1>2. s.present = r.present /\ s.desired = r.desired /\ s.state = r.state /\ s.restart = x /\ s.requeue = r.requeue
  BY DEF Has, Typed
<1> HIDE DEF s
<1>3. Micro(s) = Micro(r) /\ Waiting(s) = Waiting(r) /\ (Current(s) <=> Current(r)) /\ (Working(s) <=> Working(r))
  BY <1>1, <1>2 DEF Micro, Waiting, Current, Attempting, Working
<1>4. Typed(s) /\ Sane(s)
  BY <1>1, <1>3 DEF Typed, Sane, Ordered
<1>5. Chained(s)
  BY <1>1, <1>2 DEF Chained
<1>6. disposed \/ GivenUp(s)
  BY <1>1, <1>2, <1>3 DEF Truthful, GivenUp, Awaits
<1>7. disposed \/ Backed(s)
  BY <1>1, <1>2, <1>3 DEF Truthful, Backed, Awaits
<1>8. Honest(s, disposed)
  BY <1>4, <1>5, <1>6, <1>7 DEF Honest, Consistent, Truthful
<1> QED BY <1>8 DEF s

LEMMA AwaitSpawnHonest ==
    ASSUME NEW r, Typed(r), Sane(r), r.present, Spawnable(r)
    PROVE  Honest(AwaitSpawn(r), disposed)
<1> DEFINE s == Spawn(r)
<1>1. Spawned(r, s)
  BY SpawnSpawned DEF Typed
<1>2. ~MaySpawn(r) => s = r
  BY DEF Spawn
<1>3. PICK x \in {"spawn", "chain", "over"} :
          AwaitSpawn(r) = [s EXCEPT !.restart = x] /\ (x # "over" => MaySpawn(r))
  <2>1. CASE ~MaySpawn(r)
    <3>1. AwaitSpawn(r) = [s EXCEPT !.restart = "over"]
      BY <1>2, <2>1 DEF AwaitSpawn
    <3> QED BY <3>1
  <2>2. CASE MaySpawn(r)
    <3> DEFINE y == IF r.attempt # "none" /\ r.spawnGen # r.gen THEN "chain" ELSE "spawn"
    <3>1. AwaitSpawn(r) = [s EXCEPT !.restart = y]
      BY <2>2 DEF AwaitSpawn
    <3>2. y \in {"spawn", "chain", "over"}
      OBVIOUS
    <3> HIDE DEF y
    <3> QED BY <2>2, <3>1, <3>2
  <2> QED BY <2>1, <2>2
<1> HIDE DEF s
<1>4. /\ Typed(s) /\ Sane(s) /\ (disposed \/ Truthful(s))
      /\ MaySpawn(r) => s.attempt # "none"
  BY <1>1, SpawnedSane
<1>5. s.present
  BY <1>1 DEF Spawned
<1>6. Honest([s EXCEPT !.restart = x], disposed)
  BY <1>3, <1>4, <1>5, RestartField
<1> QED BY <1>3, <1>6

(* A binding wanted again: its reactions and attempts become older ones    *)
(* when its credential changed.                                            *)
LEMMA ReboundFields ==
    ASSUME NEW r, Typed(r), NEW token
    PROVE  LET b == Rebound(r, token)
           IN  /\ Has(b) /\ b.spawnGen = r.spawnGen /\ b.failedGen = r.failedGen
               /\ b.attempt = r.attempt /\ b.respawn = r.respawn /\ b.lc = r.lc /\ b.child = r.child
               /\ b.micro = r.micro /\ b.waiters = r.waiters
               /\ b.present = r.present /\ b.desired = TRUE /\ b.state = r.state
               /\ b.restart = r.restart /\ b.requeue = r.requeue
               /\ (b.gen = r.gen + 1 /\ r.token # token) \/ (b.gen = r.gen /\ r.token = token)
<1> DEFINE g == IF r.token # token THEN r.gen + 1 ELSE r.gen
           b == [r EXCEPT !.token = token, !.desired = TRUE, !.removeWhenReaped = FALSE, !.gen = g]
<1>1. Rebound(r, token) = b
  BY DEF Rebound
<1>2. (g = r.gen + 1 /\ r.token # token) \/ (g = r.gen /\ r.token = token)
  OBVIOUS
<1> HIDE DEF g
<1>3. /\ Has(b) /\ b.spawnGen = r.spawnGen /\ b.failedGen = r.failedGen
      /\ b.attempt = r.attempt /\ b.respawn = r.respawn /\ b.lc = r.lc /\ b.child = r.child
      /\ b.micro = r.micro /\ b.waiters = r.waiters
  BY DEF Typed, Has
<1>4. /\ b.present = r.present /\ b.desired = TRUE /\ b.state = r.state /\ b.gen = g
      /\ b.restart = r.restart /\ b.requeue = r.requeue
  BY DEF Typed, Has
<1> HIDE DEF b
<1> QED BY <1>1, <1>2, <1>3, <1>4

LEMMA ReboundConsistent ==
    ASSUME NEW r, Consistent(r), NEW token
    PROVE  LET b == Rebound(r, token)
           IN  /\ Consistent(b)
               /\ \A kind : Awaits(b, kind) <=> Awaits(r, kind)
               /\ r.token = token => (Current(b) <=> Current(r))
<1> DEFINE b == Rebound(r, token)
<1>1. /\ Has(b) /\ b.spawnGen = r.spawnGen /\ b.failedGen = r.failedGen
      /\ b.attempt = r.attempt /\ b.lc = r.lc /\ b.micro = r.micro /\ b.waiters = r.waiters
      /\ b.present = r.present /\ b.restart = r.restart
      /\ (b.gen = r.gen + 1 /\ r.token # token) \/ (b.gen = r.gen /\ r.token = token)
  <2>1. Typed(r)
    BY DEF Consistent
  <2>2. (b.gen = r.gen + 1 /\ r.token # token) \/ (b.gen = r.gen /\ r.token = token)
    BY <2>1, ReboundFields, Zenon
  <2>3. /\ Has(b) /\ b.spawnGen = r.spawnGen /\ b.failedGen = r.failedGen
        /\ b.attempt = r.attempt /\ b.lc = r.lc /\ b.micro = r.micro /\ b.waiters = r.waiters
        /\ b.present = r.present /\ b.restart = r.restart
    BY <2>1, ReboundFields
  <2> QED BY <2>2, <2>3
<1> HIDE DEF b
<1>2. CASE b.gen = r.gen + 1 /\ r.token # token
  <2>1. Typed(b) /\ Sane(b) /\ \A kind : Awaits(b, kind) <=> Awaits(r, kind)
    BY <1>1, <1>2, BumpSane DEF Consistent
  <2>2. Chained(b)
    BY <1>1, <2>1 DEF Consistent, Chained
  <2> QED BY <1>2, <2>1, <2>2 DEF Consistent, b
<1>3. CASE b.gen = r.gen
  <2>1. Micro(b) = Micro(r) /\ Waiting(b) = Waiting(r) /\ (Current(b) <=> Current(r))
    BY <1>1, <1>3 DEF Micro, Waiting, Current, Attempting
  <2>2. \A kind : Awaits(b, kind) <=> Awaits(r, kind)
    BY <2>1 DEF Awaits
  <2>3. Typed(b) /\ Sane(b)
    BY <1>1, <1>3, <2>1 DEF Consistent, Typed, Sane, Ordered
  <2>4. Chained(b)
    BY <1>1, <2>2 DEF Consistent, Chained
  <2> QED BY <2>1, <2>2, <2>3, <2>4 DEF Consistent, b
<1> QED BY <1>1, <1>2, <1>3

LEMMA ReaddNewHonest ==
    ASSUME NEW r, Consistent(r), ~r.present, NEW token \in Tokens
    PROVE  Honest(Spawn([NewRecord(token) EXCEPT !.micro = r.micro]), disposed)
<1> DEFINE n == NewRecord(token)
           s == [n EXCEPT !.micro = r.micro]
<1>1. Has(n)
  BY DEF NewRecord, Has
<1>2. n.present /\ n.desired /\ ~n.child
  BY ConstantsAssumption DEF NewRecord
<1>3. /\ n.gen = 0 /\ n.spawnGen = 0 /\ n.attempt = "none" /\ n.lc = "none" /\ n.waiters = <<>>
      /\ n.restart = "none"
  BY DEF NewRecord
<1> HIDE DEF n
<1>4. /\ Has(s) /\ s.present = n.present /\ s.desired = n.desired /\ s.child = n.child
      /\ s.gen = 0 /\ s.spawnGen = 0 /\ s.attempt = "none" /\ s.lc = "none" /\ s.waiters = <<>>
      /\ s.restart = "none" /\ s.micro = r.micro
  BY <1>1, <1>3 DEF Has
<1> HIDE DEF s
<1>5. Typed(s)
  BY <1>4, ElemsEmpty DEF Typed, Lifecycles, Consistent
<1>6. Micro(s) = Micro(r) /\ Waiting(s) = {}
  BY <1>4, ElemsEmpty DEF Micro, Waiting
<1>7. \A m \in Micro(s) \cup Waiting(s) : m.kind # "restart"
  BY <1>6 DEF Consistent, Chained, Awaits
<1>8. Sane(s)
  BY <1>4, <1>7 DEF Sane, Ordered, Current, Attempting
<1>9. Chained(s)
  BY <1>2, <1>4 DEF Chained
<1>10. Spawnable(s)
  BY <1>2, <1>4 DEF Spawnable, GivenUp
<1>11. Honest(Spawn(s), disposed)
  BY <1>5, <1>8, <1>9, <1>10, SpawnHonest DEF Consistent
<1> QED BY <1>11 DEF s, n

LEMMA ReaddHonest ==
    ASSUME NEW r, Sound(r), Honest(r, disposed), NEW token \in Tokens
    PROVE  Honest(Readd(r, token), disposed)
<1> DEFINE b == Rebound(r, token)
<1>1. /\ Typed(r) /\ Consistent(b)
      /\ \A kind : Awaits(b, kind) <=> Awaits(r, kind)
      /\ r.token = token => (Current(b) <=> Current(r))
  BY ReboundConsistent DEF Honest, Consistent
<1>2. /\ b.respawn = r.respawn /\ b.lc = r.lc /\ b.child = r.child /\ b.attempt = r.attempt
      /\ b.present = r.present /\ b.desired = TRUE /\ b.state = r.state
      /\ b.restart = r.restart /\ b.requeue = r.requeue
  BY <1>1, ReboundFields
<1>3. (r.child <=> r.lc = "tracked") /\ r.lc \in {"none", "tracked", "abandoned"} \cup Terminating
  BY <1>1 DEF Sound, Shape, Typed, Lifecycles
<1>4. Working(b) <=> Working(r)
  BY <1>2 DEF Working
<1>5. ASSUME r.lc \notin {"none", "tracked"} PROVE Honest(b, disposed)
  <2>1. disposed \/ (Working(r) => Awaits(r, "stop"))
    BY <1>5 DEF Honest, Truthful, GivenUp
  <2>2. disposed \/ (Working(b) => Awaits(b, "stop"))
    BY <1>1, <1>4, <2>1
  <2> QED BY <1>1, <2>2 DEF Honest, Truthful, Backed, GivenUp
<1>6. ASSUME r.token = token, r.lc \in {"none", "tracked"} PROVE Honest(b, disposed)
  <2>1. disposed \/ Backed(b)
    BY <1>1, <1>2, <1>4, <1>6 DEF Honest, Truthful, Backed
  <2>2. GivenUp(b)
    BY <1>2, <1>6 DEF GivenUp
  <2> QED BY <1>1, <2>1, <2>2 DEF Honest, Truthful
<1>7. CASE ~r.present
  BY <1>7, ReaddNewHonest DEF Readd, Honest
<1>8. CASE r.present /\ r.lc = "abandoned"
  <2>1. Readd(r, token) = b
    BY <1>8 DEF Readd
  <2> QED BY <1>5, <1>8, <2>1
<1>9. CASE r.present /\ r.lc \in Terminating
  <2> DEFINE w == Reaction("readd")
             s == [b EXCEPT !.waiters = Append(b.waiters, w)]
  <2>1. Readd(r, token) = s
    BY <1>9 DEF Readd, Terminating
  <2>2. w \in Reactions /\ w.kind = "readd"
    BY DEF Reaction, Reactions, Kinds
  <2>3. Honest(b, disposed)
    BY <1>5, <1>9 DEF Terminating
  <2> HIDE DEF b, w
  <2>4. Has(s) /\ Untouched(b, s) /\ s.micro = b.micro /\ s.lc = b.lc /\ s.child = b.child /\ s.waiters = Append(b.waiters, w)
    BY <1>1 DEF Consistent, Typed, Has, Untouched
  <2> HIDE DEF s
  <2>5. b.lc \in Terminating /\ b.lc # "none"
    BY <1>2, <1>9 DEF Terminating
  <2>6. Typed(b) /\ Sane(b) /\ Chained(b)
    BY <1>1 DEF Consistent
  <2>7. Ends(b, s, w)
    BY <2>2, <2>4, <2>5, <2>6, WaitEnds
  <2>8. Consistent(s)
    BY <1>2, <1>9, <2>2, <2>6, <2>7, EndsConsistent DEF Chained
  <2>9. Awaits(b, "stop") => Awaits(s, "stop")
    BY <2>7 DEF Ends, Awaits
  <2>10. Working(s) <=> Working(b)
    BY <2>4 DEF Working, Untouched
  <2>11. disposed \/ (Working(b) => Awaits(b, "stop"))
    BY <2>3, <2>5 DEF Honest, Truthful, GivenUp, Terminating
  <2>12. disposed \/ Truthful(s)
    BY <2>9, <2>10, <2>11 DEF Truthful, Backed, GivenUp
  <2> QED BY <2>1, <2>8, <2>12 DEF Honest
<1>10. CASE r.present /\ r.lc \in {"none", "tracked"} /\ (r.token # token \/ r.state = "stopped")
  <2>1. Readd(r, token) = RestartRecord(b, TRUE)
    BY <1>10 DEF Readd, Terminating
  <2>2. GivenUp(b)
    BY <1>2, <1>10 DEF GivenUp
  <2> HIDE DEF b
  <2>3. Honest(RestartRecord(b, TRUE), disposed)
    BY <1>1, <1>2, <1>10, <2>2, RestartHonest
  <2> QED BY <2>1, <2>3
<1>11. CASE r.present /\ r.lc \in {"none", "tracked"} /\ ~(r.token # token \/ r.state = "stopped")
  <2>1. Readd(r, token) = Spawn(b) \/ Readd(r, token) = b
    BY <1>11 DEF Readd, Terminating
  <2>2. Honest(b, disposed)
    BY <1>6, <1>11
  <2> HIDE DEF b
  <2>3. Spawnable(b)
    BY <1>2, <1>3, <2>2 DEF Spawnable, Honest, Truthful
  <2>4. Honest(Spawn(b), disposed)
    BY <1>1, <2>3, SpawnHonest
  <2> QED BY <2>1, <2>2, <2>4
<1> QED BY <1>3, <1>7, <1>8, <1>9, <1>10, <1>11

-----------------------------------------------------------------------------
(* Parts of a record that change by themselves.                            *)

(* A reaction that runs leaves the others.                                 *)
LEMMA PopFields ==
    ASSUME NEW r, Typed(r), Sane(r), r.micro # <<>>, NEW p, p = [r EXCEPT !.micro = Tail(r.micro)]
    PROVE  /\ Typed(p) /\ Sane(p) /\ Head(r.micro) \in Micro(r) /\ Head(r.micro) \in Reactions
           /\ p.gen = r.gen /\ p.spawnGen = r.spawnGen /\ p.failedGen = r.failedGen
           /\ p.attempt = r.attempt /\ p.respawn = r.respawn /\ p.lc = r.lc /\ p.child = r.child
           /\ p.waiters = r.waiters /\ p.present = r.present /\ p.desired = r.desired
           /\ p.state = r.state /\ p.restart = r.restart /\ p.requeue = r.requeue
           /\ \A kind : kind # Head(r.micro).kind => (Awaits(p, kind) <=> Awaits(r, kind))
           /\ \A kind : Awaits(p, kind) => Awaits(r, kind)
<1> DEFINE h == Head(r.micro)
           t == Tail(r.micro)
<1>1. h \in Reactions /\ t \in Seq(Reactions) /\ Elems(r.micro) = Elems(t) \cup {h}
  BY ElemsTail DEF Typed
<1> HIDE DEF t
<1>2. p.micro = t
  BY DEF Typed, Has, t
<1>3. /\ Has(p) /\ p.gen = r.gen /\ p.spawnGen = r.spawnGen /\ p.failedGen = r.failedGen
      /\ p.attempt = r.attempt /\ p.respawn = r.respawn /\ p.lc = r.lc /\ p.child = r.child
  BY DEF Typed, Has
<1>4. /\ p.waiters = r.waiters /\ p.present = r.present /\ p.desired = r.desired
      /\ p.state = r.state /\ p.restart = r.restart /\ p.requeue = r.requeue
  BY DEF Typed, Has
<1>5. Typed(p)
  BY <1>1, <1>2, <1>3, <1>4 DEF Typed
<1>6. Micro(r) = Micro(p) \cup {h} /\ Waiting(p) = Waiting(r)
  BY <1>1, <1>2, <1>4 DEF Micro, Waiting
<1> HIDE DEF h
<1>7. Current(p) <=> Current(r)
  BY <1>3 DEF Current, Attempting
<1>8. Sane(p)
  BY <1>3, <1>4, <1>6, <1>7 DEF Sane, Ordered
<1>9. \A kind : kind # h.kind => (Awaits(p, kind) <=> Awaits(r, kind))
  BY <1>6 DEF Awaits
<1>10. \A kind : Awaits(p, kind) => Awaits(r, kind)
  BY <1>6 DEF Awaits
<1> QED BY <1>1, <1>3, <1>4, <1>5, <1>6, <1>8, <1>9, <1>10 DEF h

(* One that is neither stop()'s nor a restart's changes nothing else here. *)
LEMMA PopHonest ==
    ASSUME NEW r, NEW over, Honest(r, over), r.micro # <<>>, NEW p, p = [r EXCEPT !.micro = Tail(r.micro)],
           Head(r.micro).kind # "restart"
    PROVE  Consistent(p) /\ (Head(r.micro).kind # "stop" => Honest(p, over))
<1> DEFINE h == Head(r.micro)
<1>1. Typed(r) /\ Sane(r) /\ Chained(r)
  BY DEF Honest, Consistent
<1>2. /\ Typed(p) /\ Sane(p)
      /\ p.gen = r.gen /\ p.spawnGen = r.spawnGen
      /\ p.attempt = r.attempt /\ p.respawn = r.respawn /\ p.lc = r.lc /\ p.child = r.child
      /\ p.present = r.present /\ p.desired = r.desired
      /\ p.state = r.state /\ p.restart = r.restart /\ p.requeue = r.requeue
      /\ \A kind : kind # h.kind => (Awaits(p, kind) <=> Awaits(r, kind))
  BY <1>1, PopFields
<1> HIDE DEF h
<1>3. Awaits(p, "restart") <=> Awaits(r, "restart")
  BY <1>2 DEF h
<1>4. Consistent(p)
  BY <1>1, <1>2, <1>3 DEF Consistent, Chained
<1>5. ASSUME h.kind # "stop" PROVE Honest(p, over)
  <2>1. Awaits(p, "stop") <=> Awaits(r, "stop")
    BY <1>2, <1>5
  <2>2. (Working(p) <=> Working(r)) /\ (Current(p) <=> Current(r))
    BY <1>2 DEF Working, Current, Attempting
  <2>3. over \/ Backed(p)
    BY <1>2, <2>1, <2>2 DEF Honest, Truthful, Backed
  <2>4. over \/ GivenUp(p)
    BY <1>2, <2>1, <2>2 DEF Honest, Truthful, GivenUp
  <2> QED BY <1>4, <2>3, <2>4 DEF Honest, Truthful
<1> QED BY <1>4, <1>5 DEF h

(* Only the attempt differs from r to s.                                   *)
Attempted(r, s) ==
    /\ Has(s)
    /\ s.gen = r.gen /\ s.spawnGen = r.spawnGen /\ s.failedGen = r.failedGen
    /\ s.respawn = r.respawn /\ s.lc = r.lc /\ s.child = r.child
    /\ s.micro = r.micro /\ s.waiters = r.waiters
    /\ s.present = r.present /\ s.desired = r.desired /\ s.state = r.state
    /\ s.restart = r.restart /\ s.requeue = r.requeue

LEMMA AttemptConsistent ==
    ASSUME NEW r, NEW s, Consistent(r), Attempted(r, s), r.attempt # "none", s.attempt # "none",
           Attempting(s) => Attempting(r)
    PROVE  Consistent(s) /\ \A kind : Awaits(s, kind) <=> Awaits(r, kind)
<1>1. Micro(s) = Micro(r) /\ Waiting(s) = Waiting(r)
  BY DEF Attempted, Micro, Waiting
<1>2. Current(s) => Current(r)
  BY DEF Attempted, Current
<1>3. Typed(s) /\ Sane(s)
  BY <1>1, <1>2 DEF Consistent, Typed, Sane, Ordered, Attempted
<1>4. \A kind : Awaits(s, kind) <=> Awaits(r, kind)
  BY <1>1 DEF Awaits
<1>5. Chained(s)
  BY <1>4 DEF Consistent, Chained, Attempted
<1> QED BY <1>3, <1>4, <1>5 DEF Consistent

LEMMA AttemptHonest ==
    ASSUME NEW r, NEW s, NEW over, Honest(r, over), Attempted(r, s),
           s.attempt = r.attempt \/ (Attempting(r) /\ Attempting(s))
    PROVE  Honest(s, over)
<1>1. CASE s.attempt = r.attempt
  <2>1. Alike(r, s) /\ s.state = r.state
    BY <1>1 DEF Alike, Attempted
  <2> QED BY <2>1, AlikeHonest
<1>2. CASE Attempting(r) /\ Attempting(s)
  <2>1. r.attempt # "none" /\ s.attempt # "none"
    BY <1>2 DEF Attempting
  <2>2. Consistent(s) /\ \A kind : Awaits(s, kind) <=> Awaits(r, kind)
    BY <1>2, <2>1, AttemptConsistent DEF Honest
  <2>3. (Working(s) <=> Working(r)) /\ (Current(s) <=> Current(r))
    BY <1>2 DEF Working, Current, Attempted
  <2>4. over \/ Backed(s)
    BY <2>1, <2>2, <2>3 DEF Honest, Truthful, Backed, Attempted
  <2>5. over \/ GivenUp(s)
    BY <2>2, <2>3 DEF Honest, Truthful, GivenUp, Attempted
  <2> QED BY <2>2, <2>4, <2>5 DEF Honest, Truthful
<1> QED BY <1>1, <1>2

(* A worker that is listened to backs whatever its state says.             *)
LEMMA ChildHonest ==
    ASSUME NEW r, NEW s, NEW over, Consistent(r), Alike(r, s), r.child, r.desired, r.lc = "tracked"
    PROVE  Honest(s, over)
<1>1. Consistent(s)
  BY AlikeConsistent
<1>2. s.child /\ s.desired /\ s.lc = "tracked"
  BY DEF Alike
<1> QED BY <1>1, <1>2 DEF Honest, Truthful, Backed, GivenUp

(* The termination promise resolves: its reactions keep their kinds.       *)
LEMMA ResolveHonest ==
    ASSUME NEW r, NEW a, NEW over, NEW reaped \in BOOLEAN, Honest(r, over),
           Typed(a), Untouched(r, a), a.child = r.child, a.micro = r.micro, a.waiters = r.waiters,
           r.lc \notin {"none", "tracked"}, reaped => a.lc = "none",
           reaped \/ a.lc \notin {"none", "tracked"}
    PROVE  Honest(Resolve(a, reaped), over)
<1> DEFINE v == [i \in 1..Len(a.waiters) |-> [a.waiters[i] EXCEPT !.ok = reaped]]
           q == a.micro \o v
           s == [a EXCEPT !.waiters = <<>>, !.micro = q]
<1>1. Resolve(a, reaped) = s
  BY DEF Resolve
<1>2. a.micro \in Seq(Reactions) /\ a.waiters \in Seq(Reactions)
  BY DEF Typed
<1>3. \A i \in 1..Len(a.waiters) : /\ v[i] \in Reactions /\ v[i].ok = reaped
                                   /\ v[i].kind = a.waiters[i].kind /\ v[i].gen = a.waiters[i].gen
  <2> TAKE i \in 1..Len(a.waiters)
  <2>1. a.waiters[i] \in Reactions
    BY <1>2
  <2>2. v[i] = [a.waiters[i] EXCEPT !.ok = reaped]
    BY <2>1
  <2> QED BY <2>1, <2>2 DEF Reactions
<1>4. v \in Seq(Reactions) /\ Len(v) = Len(a.waiters)
  <2>1. v \in [1..Len(a.waiters) -> Reactions]
    BY <1>3
  <2>2. Len(a.waiters) \in Nat
    BY <1>2
  <2> HIDE DEF v
  <2> QED BY <2>1, <2>2
<1> HIDE DEF v
<1>5. \A m \in Elems(v) : m.ok = reaped /\ \E n \in Waiting(r) : m.kind = n.kind /\ m.gen = n.gen
  BY <1>3, <1>4 DEF Elems, Waiting
<1>6. \A n \in Waiting(r) : \E m \in Elems(v) : m.kind = n.kind /\ m.gen = n.gen
  BY <1>3, <1>4 DEF Elems, Waiting
<1>7. q \in Seq(Reactions) /\ Elems(q) = Elems(a.micro) \cup Elems(v)
  BY <1>2, <1>4, ElemsConcat
<1> HIDE DEF q
<1>8. Has(s) /\ s.micro = q /\ s.waiters = <<>> /\ s.lc = a.lc /\ s.child = a.child
  BY DEF Typed, Has
<1>9. Untouched(a, s)
  BY DEF Typed, Has, Untouched
<1> HIDE DEF s
<1>10. Micro(s) = Micro(r) \cup Elems(v) /\ Waiting(s) = {}
  BY <1>7, <1>8, ElemsEmpty DEF Micro, Waiting
<1>11. Untouched(r, s)
  BY <1>9 DEF Untouched
<1>12. Typed(s)
  BY <1>7, <1>8, <1>9, ElemsEmpty DEF Typed, Untouched
<1>13. \A kind : Awaits(s, kind) <=> Awaits(r, kind)
  BY <1>5, <1>6, <1>10 DEF Awaits
<1>14. \A m \in Micro(s) : Ordered(s, m)
  BY <1>5, <1>10, <1>11 DEF Honest, Consistent, Sane, Ordered, Untouched
<1>15. \A m \in Micro(s) : m.kind = "restart" /\ m.ok /\ m.gen = s.gen => s.lc = "none"
  BY <1>5, <1>8, <1>10, <1>11 DEF Honest, Consistent, Sane, Untouched
<1>16. (Current(s) <=> Current(r)) /\ (Working(s) <=> Working(r))
  BY <1>11 DEF Current, Attempting, Working, Untouched
<1>17. Sane(s)
  BY <1>8, <1>10, <1>11, <1>14, <1>15, <1>16 DEF Honest, Consistent, Sane, Untouched
<1>18. Chained(s)
  BY <1>11, <1>13 DEF Honest, Consistent, Chained, Untouched
<1>19. over \/ (Working(s) => Awaits(s, "stop"))
  BY <1>13, <1>16 DEF Honest, Truthful, GivenUp
<1>20. Honest(s, over)
  BY <1>12, <1>17, <1>18, <1>19 DEF Honest, Consistent, Truthful, Backed, GivenUp
<1> QED BY <1>1, <1>20

-----------------------------------------------------------------------------
(* The steps.                                                              *)

LEMMA KeyHonest ==
    ASSUME Inv, SnapshotInv, NEW k \in Keys
    PROVE  /\ Sound(rec[k]) /\ Honest(rec[k], disposed) /\ Consistent(rec[k]) /\ Typed(rec[k]) /\ Sane(rec[k])
           /\ rec[k].child <=> rec[k].lc = "tracked"
           /\ Attempting(rec[k]) => rec[k].lc = "none"
  BY DEF Inv, Sound, Shape, SnapshotInv, Honest, Consistent, Attempting

LEMMA AlteredHonest ==
    ASSUME Inv, SnapshotInv, NEW k \in Keys, NEW r, rec' = [rec EXCEPT ![k] = r],
           Honest(r, disposed), disposed' = disposed
    PROVE  SnapshotInv'
<1>1. rec \in [Keys -> Records]
  BY DEF Inv, TypeOK
<1> QED BY <1>1 DEF SnapshotInv

LEMMA BecomesHonest ==
    ASSUME Inv, SnapshotInv, NEW k \in Keys, NEW r, Becomes(k, r), Honest(r, disposed)
    PROVE  SnapshotInv'
  BY AlteredHonest DEF Becomes

(* The reactions that take themselves off the queue.                       *)
LEMMA PoppedHonest ==
    ASSUME Inv, SnapshotInv, NEW k \in Keys, rec[k].micro # <<>>, Reacting(k).kind # "restart"
    PROVE  /\ Consistent(Popped(k)) /\ Typed(Popped(k)) /\ Popped(k).micro \in Seq(Reactions)
           /\ Reacting(k).kind # "stop" => Honest(Popped(k), disposed)
           /\ Popped(k).child = rec[k].child /\ Popped(k).lc = rec[k].lc
<1> DEFINE r == rec[k]
           p == [r EXCEPT !.micro = Tail(r.micro)]
<1>1. Honest(r, disposed) /\ Typed(r) /\ Sane(r) /\ r.micro # <<>> /\ Head(r.micro).kind = Reacting(k).kind
  BY KeyHonest DEF Reacting
<1>2. Popped(k) = p
  BY DEF Popped
<1> HIDE DEF r
<1>3. Consistent(p) /\ (Head(r.micro).kind # "stop" => Honest(p, disposed))
  BY <1>1, PopHonest
<1>4. p.child = r.child /\ p.lc = r.lc
  BY <1>1, PopFields
<1> HIDE DEF p
<1>5. Typed(p) /\ p.micro \in Seq(Reactions)
  BY <1>3 DEF Consistent, Typed
<1> QED BY <1>1, <1>2, <1>3, <1>4, <1>5 DEF r

LEMMA OnStoppedHonest == ASSUME Inv, SnapshotInv, NEW k \in Keys, OnStopped(k) PROVE SnapshotInv'
<1> DEFINE p == Popped(k)
<1>1. Consistent(p) /\ Typed(p)
  BY PoppedHonest DEF OnStopped, At, Reacting
<1>2. Becomes(k, Quiet(p, "stopped"))
  BY DEF OnStopped
<1> HIDE DEF p
<1>3. Alike(p, Quiet(p, "stopped")) /\ Quiet(p, "stopped").state = "stopped"
  BY <1>1, QuietAlike DEF Typed
<1>4. Honest(Quiet(p, "stopped"), disposed)
  BY <1>1, <1>3, AlikeConsistent, QuietHonest
<1> QED BY <1>2, <1>4, BecomesHonest

LEMMA OnVoidHonest == ASSUME Inv, SnapshotInv, NEW k \in Keys, OnVoid(k) PROVE SnapshotInv'
  BY PoppedHonest, BecomesHonest DEF OnVoid, At, Reacting

LEMMA OnRemovedHonest == ASSUME Inv, SnapshotInv, NEW k \in Keys, OnRemoved(k) PROVE SnapshotInv'
<1>1. rec[k].micro # <<>> /\ Reacting(k).kind \in {"remove", "notify"}
  BY DEF OnRemoved, At, Reacting
<1>2. Honest(Popped(k), disposed) /\ Honest(Delete(Popped(k)), disposed)
  BY <1>1, PoppedHonest, DeleteHonest
<1>3. PICK r \in {Delete(Popped(k)), Popped(k)} : rec' = [rec EXCEPT ![k] = r] /\ disposed' = disposed
  BY DEF OnRemoved
<1> QED BY <1>2, <1>3, AlteredHonest

LEMMA OnDisposedHonest == ASSUME Inv, SnapshotInv, NEW k \in Keys, OnDisposed(k) PROVE SnapshotInv'
<1>1. rec[k].micro # <<>> /\ Reacting(k).kind = "dispose"
  BY DEF OnDisposed, At, Reacting
<1>2. Honest(Popped(k), disposed) /\ Honest(Delete(Popped(k)), disposed)
  BY <1>1, PoppedHonest, DeleteHonest
<1>3. PICK r \in {Delete(Popped(k)), Popped(k)} : Becomes(k, r)
  BY DEF OnDisposed
<1> QED BY <1>2, <1>3, BecomesHonest

LEMMA OnFailedHonest == ASSUME Inv, SnapshotInv, NEW k \in Keys, OnFailed(k) PROVE SnapshotInv'
<1> DEFINE r == Popped(k)
           Timer(b, n) == [r EXCEPT !.restartTimer = b, !.armed = n]
<1>1. At(k, "fail")
  BY Zenon DEF OnFailed
<1>2. rec[k].micro # <<>> /\ Reacting(k).kind = "fail"
  BY <1>1 DEF At, Reacting
<1>3. Honest(r, disposed) /\ Typed(r)
  BY <1>2, PoppedHonest
<1>4. Becomes(k, r) \/ \E b, n : Becomes(k, Timer(b, n))
  BY Zenon DEF OnFailed
<1> HIDE DEF r
<1>5. ASSUME NEW b, NEW n PROVE Honest(Timer(b, n), disposed)
  <2> DEFINE s == Timer(b, n)
  <2>1. Alike(r, s) /\ s.state = r.state
    BY <1>3 DEF Alike, Has, Typed
  <2> HIDE DEF s
  <2>2. Honest(s, disposed)
    BY <1>3, <2>1, AlikeHonest
  <2> QED BY <2>2 DEF s
<1> HIDE DEF Timer
<1>6. CASE Becomes(k, r)
  BY <1>3, <1>6, BecomesHonest
<1>7. CASE \E b, n : Becomes(k, Timer(b, n))
  BY <1>5, <1>7, BecomesHonest
<1> QED BY <1>4, <1>6, <1>7

(* The generation a restart was made for is still the record's, so nothing *)
(* was spawned since, and the worker is reaped.                            *)
LEMMA OnRestartHonest == ASSUME Inv, SnapshotInv, NEW k \in Keys, OnRestart(k) PROVE SnapshotInv'
<1> DEFINE r == rec[k]
           h == Head(r.micro)
           p == [r EXCEPT !.micro = Tail(r.micro)]
           q == Quiet(p, "starting")
           t == CancelLifecycleTimers(q)
           s == [t EXCEPT !.restartCount = 0, !.failedGen = 0]
<1>1. /\ Honest(r, disposed) /\ Consistent(r) /\ Typed(r) /\ Sane(r)
      /\ (r.child <=> r.lc = "tracked") /\ r.micro # <<>> /\ h.kind = "restart"
  BY KeyHonest DEF OnRestart, At
<1>2. Becomes(k, IF h.ok /\ OwnsGeneration(p, h.gen) THEN AwaitSpawn(s) ELSE [p EXCEPT !.restart = "over"])
  BY DEF OnRestart, Reacting, Popped
<1> HIDE DEF r
<1>3. /\ Typed(p) /\ Sane(p) /\ h \in Micro(r) /\ h \in Reactions
      /\ p.gen = r.gen /\ p.spawnGen = r.spawnGen /\ p.failedGen = r.failedGen
      /\ p.attempt = r.attempt /\ p.respawn = r.respawn /\ p.lc = r.lc /\ p.child = r.child
      /\ p.waiters = r.waiters /\ p.present = r.present /\ p.desired = r.desired
      /\ p.state = r.state /\ p.restart = r.restart /\ p.requeue = r.requeue
      /\ \A kind : kind # h.kind => (Awaits(p, kind) <=> Awaits(r, kind))
  BY <1>1, PopFields
<1> HIDE DEF p, h
<1>4. r.present
  BY <1>1, <1>3 DEF Consistent, Chained, Awaits
<1>5. CASE h.ok /\ OwnsGeneration(p, h.gen)
  <2>1. /\ ~disposed /\ r.desired /\ h.gen = r.gen /\ r.lc = "none"
        /\ r.attempt # "none" => r.spawnGen < r.gen
    BY <1>1, <1>3, <1>5 DEF OwnsGeneration, Sane, Ordered
  <2>2. r.attempt # "none" => r.spawnGen # r.gen
    BY <1>1, <2>1 DEF Typed
  <2>3. Alike(p, q) /\ q.state = "starting" /\ Has(q)
    BY <1>3, QuietAlike DEF Typed, Alike
  <2> HIDE DEF q
  <2>4. Alike(q, t) /\ t.state = "starting" /\ Has(t)
    BY <2>3, TimersAlike DEF Alike
  <2> HIDE DEF t
  <2>5. Alike(p, t) /\ Typed(t) /\ Sane(t)
    BY <1>3, <2>3, <2>4, AlikeTrans, AlikeTyped, AlikeSane
  <2>6. /\ Has(s) /\ s.gen = t.gen /\ s.spawnGen = t.spawnGen /\ s.failedGen = 0
        /\ s.attempt = t.attempt /\ s.lc = t.lc /\ s.child = t.child
        /\ s.micro = t.micro /\ s.waiters = t.waiters /\ s.present = t.present /\ s.desired = t.desired
    BY <2>4 DEF Has
  <2> HIDE DEF s
  <2>7. /\ s.gen = r.gen /\ s.spawnGen = r.spawnGen /\ s.attempt = r.attempt /\ s.lc = r.lc /\ s.child = r.child
        /\ s.present = r.present /\ s.desired = r.desired
    BY <1>3, <2>5, <2>6 DEF Alike
  <2>8. Micro(s) = Micro(t) /\ Waiting(s) = Waiting(t)
    BY <2>6 DEF Micro, Waiting
  <2>9. ~Current(s)
    BY <2>2, <2>7 DEF Current, Attempting
  <2>10. Typed(s) /\ Sane(s)
    BY <2>5, <2>6, <2>8, <2>9 DEF Typed, Sane, Ordered
  <2>11. Spawnable(s)
    BY <1>1, <2>1, <2>2, <2>7 DEF Spawnable, GivenUp
  <2>12. Honest(AwaitSpawn(s), disposed)
    BY <1>4, <2>7, <2>10, <2>11, AwaitSpawnHonest
  <2> QED BY <1>2, <1>5, <2>12, BecomesHonest
<1>6. CASE ~(h.ok /\ OwnsGeneration(p, h.gen))
  <2>1. (Working(p) <=> Working(r)) /\ (Current(p) <=> Current(r)) /\ (Awaits(p, "stop") <=> Awaits(r, "stop"))
    BY <1>1, <1>3 DEF Working, Current, Attempting
  <2>2. disposed \/ Backed(p)
    BY <1>1, <1>3, <2>1 DEF Honest, Truthful, Backed
  <2>3. disposed \/ GivenUp(p)
    BY <1>1, <1>3, <2>1 DEF Honest, Truthful, GivenUp
  <2>4. Honest([p EXCEPT !.restart = "over"], disposed)
    BY <1>3, <1>4, <2>2, <2>3, RestartField DEF Truthful
  <2> QED BY <1>2, <1>6, <2>4, BecomesHonest
<1> QED BY <1>5, <1>6

(* The end of a restart: what it was queued for follows, or was never      *)
(* claimed.                                                                *)
LEMMA OnRestartedHonest == ASSUME Inv, SnapshotInv, NEW k \in Keys, OnRestarted(k) PROVE SnapshotInv'
<1> DEFINE r == rec[k]
           s == [r EXCEPT !.restart = "none", !.requeue = FALSE]
<1>1. /\ Honest(r, disposed) /\ Consistent(r) /\ Typed(r) /\ Sane(r) /\ r.restart = "over"
  BY KeyHonest DEF OnRestarted
<1>2. Becomes(k, IF r.requeue THEN RestartRecord(s, FALSE) ELSE s)
  BY DEF OnRestarted
<1> HIDE DEF r
<1>3. r.present
  BY <1>1 DEF Consistent, Chained
<1>4. /\ Has(s) /\ s.gen = r.gen /\ s.spawnGen = r.spawnGen /\ s.failedGen = r.failedGen
      /\ s.attempt = r.attempt /\ s.respawn = r.respawn /\ s.lc = r.lc /\ s.child = r.child
      /\ s.micro = r.micro /\ s.waiters = r.waiters
  BY <1>1 DEF Typed, Has
<1>5. s.present = r.present /\ s.desired = r.desired /\ s.state = r.state /\ s.restart = "none"
  BY <1>1 DEF Typed, Has
<1> HIDE DEF s
<1>6. Micro(s) = Micro(r) /\ Waiting(s) = Waiting(r) /\ (Current(s) <=> Current(r)) /\ (Working(s) <=> Working(r))
  BY <1>4, <1>5 DEF Micro, Waiting, Current, Attempting, Working
<1>7. Typed(s) /\ Sane(s)
  BY <1>1, <1>4, <1>6 DEF Typed, Sane, Ordered
<1>8. Consistent(s)
  BY <1>3, <1>5, <1>7 DEF Consistent, Chained
<1>9. CASE r.requeue
  <2>1. Honest(RestartRecord(s, FALSE), disposed)
    BY <1>3, <1>5, <1>8, RestartHonest
  <2> QED BY <1>2, <1>9, <2>1, BecomesHonest
<1>10. CASE ~r.requeue
  <2>1. disposed \/ GivenUp(s)
    BY <1>1, <1>4, <1>5, <1>6 DEF Honest, Truthful, GivenUp, Awaits
  <2>2. disposed \/ Backed(s)
    BY <1>1, <1>4, <1>5, <1>6, <1>10 DEF Honest, Truthful, Backed, Awaits
  <2>3. Honest(s, disposed)
    BY <1>8, <2>1, <2>2 DEF Honest, Truthful
  <2> QED BY <1>2, <1>10, <2>3, BecomesHonest
<1> QED BY <1>9, <1>10

LEMMA OnReaddHonest == ASSUME Inv, SnapshotInv, NEW k \in Keys, OnReadd(k) PROVE SnapshotInv'
<1> DEFINE p == Popped(k)
<1>1. rec[k].micro # <<>> /\ Reacting(k).kind = "readd"
  BY DEF OnReadd, At, Reacting
<1>2. Honest(p, disposed) /\ Consistent(p) /\ (p.child <=> p.lc = "tracked")
  BY <1>1, PoppedHonest, KeyHonest
<1>3. PICK x \in {Spawn(p), p} : Becomes(k, x)
  BY DEF OnReadd
<1> HIDE DEF p
<1>4. Spawnable(p)
  BY <1>2 DEF Spawnable, Honest, Truthful
<1>5. Honest(Spawn(p), disposed)
  BY <1>2, <1>4, SpawnHonest
<1> QED BY <1>2, <1>3, <1>5, BecomesHonest

(* A lifecycle that is over, for whatever reason.                          *)
LEMMA ReleaseFields ==
    ASSUME NEW r, Typed(r), NEW a, a = ReleaseLifecycle(r)
    PROVE  /\ Typed(a) /\ Untouched(r, a) /\ a.lc = "none"
           /\ a.child = r.child /\ a.micro = r.micro /\ a.waiters = r.waiters
<1>1. Typed(a) /\ a.lc = "none" /\ a.child = r.child /\ a.micro = r.micro /\ a.waiters = r.waiters
  BY DEF Typed, Has, ReleaseLifecycle, Lifecycles
<1>2. Untouched(r, a)
  BY DEF Typed, Has, ReleaseLifecycle, Untouched
<1> QED BY <1>1, <1>2

LEMMA OnReapedHonest == ASSUME Inv, SnapshotInv, NEW k \in Keys, OnReaped(k) PROVE SnapshotInv'
<1> DEFINE r == rec[k]
           a == ReleaseLifecycle(r)
<1>1. Honest(r, disposed) /\ Typed(r) /\ r.lc \notin {"none", "tracked"}
  BY KeyHonest DEF OnReaped, Terminating
<1>2. Becomes(k, Resolve(a, TRUE))
  BY DEF OnReaped
<1> HIDE DEF r
<1>3. /\ Typed(a) /\ Untouched(r, a) /\ a.lc = "none"
      /\ a.child = r.child /\ a.micro = r.micro /\ a.waiters = r.waiters
  BY <1>1, ReleaseFields
<1> HIDE DEF a
<1>4. Honest(Resolve(a, TRUE), disposed)
  BY <1>1, <1>3, ResolveHonest
<1> QED BY <1>2, <1>4, BecomesHonest

(* A spawn attempt that has come to its end.                               *)
LEMMA OverFields ==
    ASSUME Inv, SnapshotInv, NEW k \in Keys, rec[k].attempt \in {"granted", "refused"},
           NEW s, s = [rec[k] EXCEPT !.attempt = "over"]
    PROVE  /\ Attempted(rec[k], s) /\ s.attempt = "over" /\ ~Attempting(s)
           /\ Consistent(s) /\ Typed(s) /\ Sane(s)
           /\ \A kind : Awaits(s, kind) <=> Awaits(rec[k], kind)
<1> DEFINE r == rec[k]
<1>1. Consistent(r) /\ Typed(r)
  BY KeyHonest
<1>2. s = [r EXCEPT !.attempt = "over"] /\ r.attempt # "none"
  OBVIOUS
<1> HIDE DEF r
<1>3. /\ Has(s) /\ s.gen = r.gen /\ s.spawnGen = r.spawnGen /\ s.failedGen = r.failedGen
      /\ s.respawn = r.respawn /\ s.lc = r.lc /\ s.child = r.child
      /\ s.micro = r.micro /\ s.waiters = r.waiters /\ s.attempt = "over"
  BY <1>1, <1>2 DEF Typed, Has
<1>4. s.present = r.present /\ s.desired = r.desired /\ s.state = r.state /\ s.restart = r.restart /\ s.requeue = r.requeue
  BY <1>1, <1>2 DEF Typed, Has
<1>5. Attempted(r, s) /\ ~Attempting(s)
  BY <1>3, <1>4 DEF Attempted, Attempting
<1>6. Consistent(s) /\ \A kind : Awaits(s, kind) <=> Awaits(r, kind)
  BY <1>1, <1>2, <1>3, <1>5, AttemptConsistent
<1> QED BY <1>3, <1>5, <1>6 DEF Consistent, r

LEMMA OnNoCredentialHonest == ASSUME Inv, SnapshotInv, NEW k \in Keys, OnNoCredential(k) PROVE SnapshotInv'
<1> DEFINE r == rec[k]
           s == [r EXCEPT !.attempt = "over"]
           b == [s EXCEPT !.state = "backoff"]
<1>1. Honest(r, disposed) /\ Sane(r) /\ r.attempt \in {"granted", "refused"}
  BY KeyHonest DEF OnNoCredential
<1>2. Becomes(k, IF OwnsGeneration(s, s.spawnGen) THEN b ELSE s)
  BY DEF OnNoCredential
<1>3. /\ Attempted(r, s) /\ s.attempt = "over" /\ Consistent(s) /\ Typed(s)
      /\ \A kind : Awaits(s, kind) <=> Awaits(r, kind)
  BY <1>1, OverFields
<1> HIDE DEF r, s
<1>4. CASE OwnsGeneration(s, s.spawnGen)
  <2>1. Alike(s, b) /\ b.state = "backoff"
    BY <1>3 DEF Alike, Typed, Has
  <2> HIDE DEF b
  <2>2. Honest(b, disposed)
    BY <1>3, <2>1, AlikeConsistent, QuietHonest
  <2> QED BY <1>2, <1>4, <2>2, BecomesHonest
<1>5. CASE ~OwnsGeneration(s, s.spawnGen)
  <2>1. Working(s) <=> Working(r)
    BY <1>3 DEF Working, Attempted
  <2>2. disposed \/ GivenUp(s)
    BY <1>1, <1>3, <2>1 DEF Honest, Truthful, GivenUp, Attempted
  <2>3. disposed \/ (Current(r) /\ Working(r) => ~s.desired)
    BY <1>1, <1>3, <1>5 DEF OwnsGeneration, Attempted, Sane, Current, Working
  <2>4. disposed \/ Backed(s)
    BY <1>1, <1>3, <2>1, <2>2, <2>3 DEF Honest, Truthful, Backed, GivenUp, Attempted
  <2>5. Honest(s, disposed)
    BY <1>3, <2>2, <2>4 DEF Honest, Truthful
  <2> QED BY <1>2, <1>5, <2>5, BecomesHonest
<1> QED BY <1>4, <1>5

LEMMA OnSpawnThrowsHonest == ASSUME Inv, SnapshotInv, NEW k \in Keys, OnSpawnThrows(k) PROVE SnapshotInv'
<1> DEFINE s == [rec[k] EXCEPT !.attempt = "over"]
<1>1. rec[k].attempt \in {"granted", "refused"} /\ OwnsGeneration(s, s.spawnGen) /\ Becomes(k, FailRecord(s, s.spawnGen))
  BY DEF OnSpawnThrows
<1>2. Consistent(s) /\ Typed(s) /\ ~Attempting(s)
  BY <1>1, OverFields
<1> HIDE DEF s
<1>3. s.spawnGen \in Nat
  BY <1>2 DEF Typed
<1>4. Honest(FailRecord(s, s.spawnGen), disposed)
  BY <1>1, <1>2, <1>3, FailHonest
<1> QED BY <1>1, <1>4, BecomesHonest

(* A credential for the present generation: no restart is waiting to act   *)
(* on it, and the new child backs the record.                              *)
LEMMA OnCredentialHonest == ASSUME Inv, SnapshotInv, NEW k \in Keys, OnCredential(k) PROVE SnapshotInv'
<1> DEFINE r == rec[k]
           s == [r EXCEPT !.attempt = "over"]
           t == Tracked(s)
<1>1. /\ Honest(r, disposed) /\ Sane(r) /\ r.attempt = "granted" /\ r.lc = "none"
      /\ OwnsGeneration(s, s.spawnGen) /\ disposed' = disposed
  BY KeyHonest DEF OnCredential, Attempting
<1>2. PICK x \in {t, FailRecord(t, s.spawnGen)} : rec' = [rec EXCEPT ![k] = x]
  BY DEF OnCredential
<1>3. Attempted(r, s) /\ s.attempt = "over" /\ Consistent(s) /\ Typed(s) /\ Sane(s)
  BY <1>1, OverFields
<1> HIDE DEF r, s
<1>4. /\ Has(t) /\ t.gen = s.gen /\ t.spawnGen = s.spawnGen /\ t.failedGen = s.failedGen
      /\ t.attempt = s.attempt /\ t.respawn = s.respawn /\ t.lc = "tracked" /\ t.child = TRUE
      /\ t.micro = s.micro /\ t.waiters = s.waiters
  BY <1>3 DEF Tracked, Typed, Has
<1>5. t.present = s.present /\ t.desired = s.desired /\ t.restart = s.restart
  BY <1>3 DEF Tracked, Typed, Has
<1> HIDE DEF t
<1>6. s.waiters = <<>> /\ s.present /\ s.desired /\ s.gen = s.spawnGen
  BY <1>1, <1>3 DEF Attempted, Sane, OwnsGeneration, Terminating
<1>7. Micro(t) = Micro(s) /\ Waiting(t) = Waiting(s)
  BY <1>4 DEF Micro, Waiting
<1>8. \A m \in Micro(s) : m.kind = "restart" => m.gen # s.gen
  <2>1. s.gen \in Nat
    BY <1>3 DEF Typed
  <2> QED BY <1>3, <1>6, <2>1 DEF Sane, Ordered
<1>9. Typed(t)
  BY <1>3, <1>4 DEF Typed, Lifecycles
<1>10. ~Attempting(t)
  BY <1>3, <1>4 DEF Attempting
<1>11. Sane(t)
  BY <1>3, <1>4, <1>6, <1>7, <1>8, <1>10 DEF Sane, Ordered, Current
<1>12. Chained(t)
  BY <1>3, <1>4, <1>5, <1>7 DEF Consistent, Chained, Awaits
<1>13. Consistent(t)
  BY <1>9, <1>11, <1>12 DEF Consistent
<1>14. Honest(t, disposed)
  BY <1>4, <1>5, <1>6, <1>13 DEF Honest, Truthful, Backed, GivenUp
<1>15. s.spawnGen \in Nat
  BY <1>3 DEF Typed
<1>16. Honest(FailRecord(t, s.spawnGen), disposed)
  BY <1>10, <1>13, <1>14, <1>15, FailHonest
<1> QED BY <1>1, <1>2, <1>14, <1>16, AlteredHonest

(* The attempt is forgotten: what was chained to it starts over, and what  *)
(* it had backed was backed by its child or has been given up since.       *)
SettledRecord(r, d) ==
    /\ Typed(d)
    /\ d.gen = r.gen /\ d.spawnGen = 0 /\ d.failedGen = r.failedGen
    /\ d.attempt = "none" /\ d.respawn = FALSE /\ d.lc = r.lc /\ d.child = r.child
    /\ d.micro = r.micro /\ d.waiters = r.waiters
    /\ d.present = r.present /\ d.desired = r.desired /\ d.state = r.state /\ d.requeue = r.requeue

LEMMA SettledSane ==
    ASSUME NEW r, Consistent(r), r.child <=> r.lc = "tracked", disposed \/ GivenUp(r), NEW d, SettledRecord(r, d)
    PROVE  /\ Sane(d) /\ Spawnable(d) /\ (disposed \/ GivenUp(d))
           /\ \A kind : Awaits(d, kind) <=> Awaits(r, kind)
<1>1. Micro(d) = Micro(r) /\ Waiting(d) = Waiting(r)
  BY DEF SettledRecord, Micro, Waiting
<1>2. \A kind : Awaits(d, kind) <=> Awaits(r, kind)
  BY <1>1 DEF Awaits
<1>3. d.gen \in Nat /\ d.spawnGen <= d.gen
  BY DEF SettledRecord, Typed
<1>4. ~Current(d)
  BY DEF SettledRecord, Current, Attempting
<1>5. Sane(d)
  BY <1>1, <1>3, <1>4 DEF Consistent, Sane, Ordered, SettledRecord
<1>6. disposed \/ GivenUp(d)
  BY <1>2 DEF GivenUp, Working, SettledRecord
<1>7. Spawnable(d)
  BY <1>6 DEF Spawnable, SettledRecord
<1> QED BY <1>2, <1>5, <1>6, <1>7

LEMMA OnSpawnedHonest == ASSUME Inv, SnapshotInv, NEW k \in Keys, OnSpawned(k) PROVE SnapshotInv'
<1> DEFINE r == rec[k]
           s == [r EXCEPT !.attempt = "none", !.spawnGen = 0]
           clear == DeleteDormantRecord(s)
           next == [clear EXCEPT !.respawn = FALSE]
           settled == IF clear.restart = "spawn" THEN [next EXCEPT !.restart = "over"] ELSE next
<1>1. /\ Honest(r, disposed) /\ Consistent(r) /\ Typed(r) /\ r.attempt = "over"
      /\ (r.child <=> r.lc = "tracked") /\ (disposed \/ GivenUp(r))
  BY KeyHonest DEF OnSpawned, Honest, Truthful
<1>2. Becomes(k, IF clear.restart = "chain" THEN AwaitSpawn(next)
                 ELSE IF clear.respawn THEN Spawn(settled) ELSE settled)
  BY DEF OnSpawned
<1> HIDE DEF r
<1>3. /\ Has(s) /\ s.gen = r.gen /\ s.spawnGen = 0 /\ s.failedGen = r.failedGen
      /\ s.attempt = "none" /\ s.respawn = r.respawn /\ s.lc = r.lc /\ s.child = r.child
      /\ s.micro = r.micro /\ s.waiters = r.waiters
  BY <1>1 DEF Typed, Has
<1>4. s.present = r.present /\ s.desired = r.desired /\ s.state = r.state /\ s.restart = r.restart /\ s.requeue = r.requeue
  BY <1>1 DEF Typed, Has
<1> HIDE DEF s
<1>5. CASE clear = Delete(s)
  <2>1. Honest(Delete(s), disposed)
    BY <1>1, <1>3, DeleteHonest DEF Typed
  <2>2. Delete(s).restart = "none" /\ Delete(s).respawn = FALSE
    BY DEF Delete, NewRecord
  <2> DEFINE z == Delete(s)
  <2>3. Honest(z, disposed) /\ z.restart = "none" /\ z.respawn = FALSE
    BY <2>1, <2>2
  <2> HIDE DEF z
  <2>4. Becomes(k, [z EXCEPT !.respawn = FALSE])
    BY <1>2, <1>5, <2>3 DEF z
  <2> DEFINE y == [z EXCEPT !.respawn = FALSE]
  <2>5. Alike(z, y) /\ y.state = z.state
    BY <2>3 DEF Honest, Consistent, Typed, Has, Alike
  <2> HIDE DEF y
  <2>6. Honest(y, disposed)
    BY <2>3, <2>5, AlikeHonest
  <2> QED BY <2>4, <2>6, BecomesHonest DEF y
<1>6. CASE clear = s
  <2> DEFINE n == [s EXCEPT !.respawn = FALSE]
             o == [n EXCEPT !.restart = "over"]
  <2>1. Becomes(k, IF s.restart = "chain" THEN AwaitSpawn(n)
                   ELSE IF s.restart = "spawn" THEN IF s.respawn THEN Spawn(o) ELSE o
                   ELSE IF s.respawn THEN Spawn(n) ELSE n)
    BY <1>2, <1>6
  <2>2. Typed(n) /\ SettledRecord(r, n) /\ n.restart = r.restart
    <3>1. /\ Has(n) /\ n.gen = s.gen /\ n.spawnGen = 0 /\ n.failedGen = s.failedGen
          /\ n.attempt = "none" /\ n.respawn = FALSE /\ n.lc = s.lc /\ n.child = s.child
          /\ n.micro = s.micro /\ n.waiters = s.waiters
      BY <1>3 DEF Has
    <3>2. n.present = s.present /\ n.desired = s.desired /\ n.state = s.state /\ n.restart = s.restart /\ n.requeue = s.requeue
      BY <1>3 DEF Has
    <3> HIDE DEF n
    <3>3. Typed(n)
      BY <1>1, <1>3, <3>1 DEF Typed
    <3> QED BY <1>3, <1>4, <3>1, <3>2, <3>3 DEF SettledRecord
  <2> HIDE DEF n
  <2>3. SettledRecord(r, o) /\ o.restart = "over"
    <3>1. /\ Has(o) /\ o.gen = n.gen /\ o.spawnGen = n.spawnGen /\ o.failedGen = n.failedGen
          /\ o.attempt = n.attempt /\ o.respawn = n.respawn /\ o.lc = n.lc /\ o.child = n.child
          /\ o.micro = n.micro /\ o.waiters = n.waiters
      BY <2>2 DEF Typed, Has
    <3>2. o.present = n.present /\ o.desired = n.desired /\ o.state = n.state /\ o.restart = "over" /\ o.requeue = n.requeue
      BY <2>2 DEF Typed, Has
    <3> HIDE DEF o
    <3>3. Typed(o)
      BY <2>2, <3>1 DEF Typed
    <3> QED BY <2>2, <3>1, <3>2, <3>3 DEF SettledRecord
  <2> HIDE DEF o
  <2>4. ASSUME NEW d, SettledRecord(r, d), r.restart # "chain",
               (d.restart = r.restart /\ r.restart # "spawn") \/ (d.restart = "over" /\ r.restart = "spawn")
        PROVE  Honest(IF s.respawn THEN Spawn(d) ELSE d, disposed)
    <3>1. /\ Sane(d) /\ Spawnable(d) /\ (disposed \/ GivenUp(d)) /\ Typed(d)
          /\ \A kind : Awaits(d, kind) <=> Awaits(r, kind)
      BY <1>1, <2>4, SettledSane DEF SettledRecord
    <3>2. Chained(d)
      BY <1>1, <2>4, <3>1 DEF Consistent, Chained, SettledRecord
    <3>3. Consistent(d)
      BY <3>1, <3>2 DEF Consistent
    <3>4. CASE s.respawn
      BY <3>1, <3>3, <3>4, SpawnHonest
    <3>5. CASE ~s.respawn
      <4>1. Working(d) <=> Working(r)
        BY <2>4 DEF Working, SettledRecord
      <4>2. ~Current(r) /\ ~r.respawn
        BY <1>1, <1>3, <3>5 DEF Current, Attempting
      <4>3. disposed \/ Backed(d)
        BY <1>1, <2>4, <3>1, <4>1, <4>2 DEF Honest, Truthful, Backed, SettledRecord
      <4> QED BY <3>1, <3>3, <3>5, <4>3 DEF Honest, Truthful
    <3> QED BY <3>4, <3>5
  <2>5. CASE s.restart = "chain"
    <3>1. r.present
      BY <1>1, <1>4, <2>5 DEF Consistent, Chained
    <3>2. Sane(n) /\ Spawnable(n) /\ n.present
      BY <1>1, <2>2, <3>1, SettledSane DEF SettledRecord
    <3>3. Honest(AwaitSpawn(n), disposed)
      BY <2>2, <3>2, AwaitSpawnHonest
    <3> QED BY <2>1, <2>5, <3>3, BecomesHonest
  <2>6. CASE s.restart = "spawn"
    <3>1. Honest(IF s.respawn THEN Spawn(o) ELSE o, disposed)
      BY <1>4, <2>3, <2>4, <2>6
    <3> QED BY <2>1, <2>6, <3>1, BecomesHonest
  <2>7. CASE s.restart \notin {"chain", "spawn"}
    <3>1. Honest(IF s.respawn THEN Spawn(n) ELSE n, disposed)
      BY <1>4, <2>2, <2>4, <2>7
    <3> QED BY <2>1, <2>7, <3>1, BecomesHonest
  <2> QED BY <2>5, <2>6, <2>7
<1> QED BY <1>5, <1>6 DEF DeleteDormantRecord

LEMMA ReactHonest == ASSUME Inv, SnapshotInv, NEW k \in Keys, React(k) PROVE SnapshotInv'
  BY OnStoppedHonest, OnVoidHonest, OnRemovedHonest, OnDisposedHonest, OnFailedHonest, OnRestartHonest,
     OnRestartedHonest, OnReaddHonest, OnReapedHonest, OnSpawnedHonest, OnNoCredentialHonest,
     OnCredentialHonest, OnSpawnThrowsHonest DEF React

(* A change of fields that do not matter here, perhaps with #failRecord.   *)
LEMMA AlikeKept ==
    ASSUME Inv, SnapshotInv, NEW k \in Keys, NEW s, Alike(rec[k], s), s.state = rec[k].state
    PROVE  /\ Honest(s, disposed) /\ Consistent(s)
           /\ rec[k].lc # "none" => \A g \in Nat : Honest(FailRecord(s, g), disposed)
<1>1. Honest(rec[k], disposed) /\ (Attempting(rec[k]) => rec[k].lc = "none")
  BY KeyHonest
<1>2. Honest(s, disposed) /\ Consistent(s)
  BY <1>1, AlikeHonest DEF Honest
<1>3. rec[k].lc # "none" => ~Attempting(s)
  BY <1>1 DEF Alike, Attempting
<1> QED BY <1>2, <1>3, FailHonest

LEMMA ChildGenNat ==
    ASSUME Inv, NEW k \in Keys
    PROVE  rec[k].childGen \in Nat /\ rec[k].gen \in Nat /\ Has(rec[k]) /\ rec[k] \in Records
  BY RecordTyped DEF Inv, TypeOK, Records, Typed

LEMMA CredentialSettlesHonest ==
    ASSUME Inv, SnapshotInv, NEW k \in Keys, NEW ok \in BOOLEAN, CredentialSettles(k, ok)
    PROVE  SnapshotInv'
<1> DEFINE r == rec[k]
           a == IF r.lookup # "open" THEN r.attempt ELSE IF ok THEN "granted" ELSE "refused"
           s == [r EXCEPT !.lookup = "none", !.attempt = a]
<1>1. Honest(r, disposed) /\ Has(r) /\ (r.lookup = "open" => r.attempt = "lookup")
  BY KeyHonest DEF Sound, Shape, Typed
<1>2. Becomes(k, DeleteDormantRecord(s))
  BY DEF CredentialSettles
<1>3. a = r.attempt \/ (r.attempt = "lookup" /\ a \in {"granted", "refused"})
  BY <1>1
<1> HIDE DEF r, a
<1>4. Attempted(r, s) /\ s.attempt = a
  BY <1>1 DEF Has, Attempted
<1> HIDE DEF s
<1>5. Honest(s, disposed)
  BY <1>1, <1>3, <1>4, AttemptHonest DEF Attempting
<1>6. Honest(DeleteDormantRecord(s), disposed)
  BY <1>5, DormantHonest
<1> QED BY <1>2, <1>6, BecomesHonest

LEMMA CredentialTimeoutHonest ==
    ASSUME Inv, SnapshotInv, NEW k \in Keys, CredentialTimeout(k)
    PROVE  SnapshotInv'
<1> DEFINE r == rec[k]
           l == CancelLookup(r)
<1>1. Honest(r, disposed) /\ Has(r) /\ (r.lookup = "open" => r.attempt = "lookup")
  BY KeyHonest DEF Sound, Shape, Typed
<1>2. Becomes(k, l)
  BY DEF CredentialTimeout
<1> HIDE DEF r
<1>3. Attempted(r, l) /\ (l.attempt = r.attempt \/ (r.attempt = "lookup" /\ l.attempt = "refused"))
  BY <1>1, CancelLookupFields DEF Attempted
<1> HIDE DEF l
<1>4. Honest(l, disposed)
  BY <1>1, <1>3, AttemptHonest DEF Attempting
<1> QED BY <1>2, <1>4, BecomesHonest

LEMMA RestartTimeoutHonest == ASSUME Inv, SnapshotInv, NEW k \in Keys, RestartTimeout(k) PROVE SnapshotInv'
<1> DEFINE r == rec[k]
           s == [r EXCEPT !.restartTimer = FALSE, !.armed = @ - 1]
<1>1. Has(r) /\ (r.child <=> r.lc = "tracked")
  BY KeyHonest DEF Typed
<1>2. Becomes(k, Spawn(s))
  BY DEF RestartTimeout
<1>3. Alike(r, s) /\ s.state = r.state
  BY <1>1 DEF Has, Alike
<1> HIDE DEF s
<1>4. Honest(s, disposed) /\ Consistent(s)
  BY <1>3, AlikeKept
<1>5. Spawnable(s)
  BY <1>1, <1>3, <1>4 DEF Spawnable, Honest, Truthful, Alike
<1>6. Honest(Spawn(s), disposed)
  BY <1>4, <1>5, SpawnHonest
<1> QED BY <1>2, <1>6, BecomesHonest

LEMMA ReadyTimeoutHonest == ASSUME Inv, SnapshotInv, NEW k \in Keys, ReadyTimeout(k) PROVE SnapshotInv'
<1> DEFINE s == [rec[k] EXCEPT !.readyTimer = FALSE]
<1>1. Becomes(k, FailRecord(s, rec[k].childGen)) /\ rec[k].child
  BY DEF ReadyTimeout, IsCurrent
<1>2. Alike(rec[k], s) /\ s.state = rec[k].state
  BY ChildGenNat DEF Has, Alike
<1> HIDE DEF s
<1>3. rec[k].lc # "none" /\ rec[k].childGen \in Nat
  BY <1>1, KeyHonest, ChildGenNat
<1>4. Honest(FailRecord(s, rec[k].childGen), disposed)
  BY <1>2, <1>3, AlikeKept
<1> QED BY <1>1, <1>4, BecomesHonest

LEMMA OnlineTimeoutHonest == ASSUME Inv, SnapshotInv, NEW k \in Keys, OnlineTimeout(k) PROVE SnapshotInv'
<1> DEFINE s == [rec[k] EXCEPT !.onlineTimer = FALSE]
<1>1. Becomes(k, FailRecord(s, rec[k].childGen)) /\ rec[k].child
  BY DEF OnlineTimeout, IsCurrent
<1>2. Alike(rec[k], s) /\ s.state = rec[k].state
  BY ChildGenNat DEF Has, Alike
<1> HIDE DEF s
<1>3. rec[k].lc # "none" /\ rec[k].childGen \in Nat
  BY <1>1, KeyHonest, ChildGenNat
<1>4. Honest(FailRecord(s, rec[k].childGen), disposed)
  BY <1>2, <1>3, AlikeKept
<1> QED BY <1>1, <1>4, BecomesHonest

LEMMA StableTimeoutHonest == ASSUME Inv, SnapshotInv, NEW k \in Keys, StableTimeout(k) PROVE SnapshotInv'
<1> DEFINE s == [rec[k] EXCEPT !.stableTimer = FALSE, !.restartCount = 0]
<1>1. Becomes(k, s)
  BY DEF StableTimeout
<1>2. Alike(rec[k], s) /\ s.state = rec[k].state
  BY ChildGenNat DEF Has, Alike
<1> HIDE DEF s
<1> QED BY <1>1, <1>2, AlikeKept, BecomesHonest

LEMMA ForgetHonest == ASSUME Inv, SnapshotInv, NEW k \in Keys, NEW q PROVE Honest(Forget(rec[k], q), disposed)
<1> DEFINE b == RemoveBuffered(rec[k].buffer, q)
           s == [rec[k] EXCEPT !.pending = @ \ {q}, !.buffer = b]
<1>1. Forget(rec[k], q) = s
  BY DEF Forget
<1> HIDE DEF b
<1>2. Alike(rec[k], s) /\ s.state = rec[k].state
  BY ChildGenNat DEF Has, Alike
<1> HIDE DEF s
<1> QED BY <1>1, <1>2, AlikeKept

LEMMA RequestTimeoutHonest ==
    ASSUME Inv, SnapshotInv, NEW k \in Keys, NEW q, RequestTimeout(k, q)
    PROVE  SnapshotInv'
  BY ForgetHonest, BecomesHonest DEF RequestTimeout

(* One wait of a termination after another.                                *)
LEMMA PhaseHonest ==
    ASSUME NEW r, NEW s, NEW over, Honest(r, over), r.lc \in Terminating, s.lc \in Terminating,
           Has(s), Untouched(r, s), s.child = r.child, s.micro = r.micro, s.waiters = r.waiters
    PROVE  Honest(s, over)
<1>1. Micro(s) = Micro(r) /\ Waiting(s) = Waiting(r)
  BY DEF Micro, Waiting
<1>2. \A kind : Awaits(s, kind) <=> Awaits(r, kind)
  BY <1>1 DEF Awaits
<1>3. (Current(s) <=> Current(r)) /\ (Working(s) <=> Working(r))
  BY DEF Current, Attempting, Working, Untouched
<1>4. Typed(s)
  BY DEF Honest, Consistent, Typed, Untouched, Terminating, Lifecycles
<1>5. r.lc \notin {"none", "tracked"} /\ s.lc # "none"
  BY DEF Terminating
<1>6. Sane(s)
  BY <1>1, <1>3, <1>5 DEF Honest, Consistent, Sane, Ordered, Untouched
<1>7. Chained(s)
  BY <1>2 DEF Honest, Consistent, Chained, Untouched
<1>8. over \/ (Working(s) => Awaits(s, "stop"))
  BY <1>2, <1>3, <1>5 DEF Honest, Truthful, GivenUp
<1> QED BY <1>4, <1>6, <1>7, <1>8 DEF Honest, Consistent, Truthful, Backed, GivenUp

LEMMA TerminationTimeoutHonest ==
    ASSUME Inv, SnapshotInv, NEW k \in Keys, TerminationTimeout(k)
    PROVE  SnapshotInv'
<1> DEFINE r == rec[k]
           a == [r EXCEPT !.lc = "sigterm", !.connected = FALSE]
           b == [r EXCEPT !.lc = "sigkill"]
           c == [r EXCEPT !.lc = "abandoned"]
<1>1. Honest(r, disposed) /\ Typed(r) /\ r.lc \in Terminating
  BY KeyHonest DEF TerminationTimeout
<1>2. PICK x \in {a, b, Resolve(c, FALSE)} : Becomes(k, x)
  BY <1>1 DEF TerminationTimeout, Terminating
<1> HIDE DEF r
<1>3. Has(a) /\ Untouched(r, a) /\ a.lc = "sigterm" /\ a.child = r.child /\ a.micro = r.micro /\ a.waiters = r.waiters
  BY <1>1 DEF Typed, Has, Untouched
<1>4. Has(b) /\ Untouched(r, b) /\ b.lc = "sigkill" /\ b.child = r.child /\ b.micro = r.micro /\ b.waiters = r.waiters
  BY <1>1 DEF Typed, Has, Untouched
<1>5. Has(c) /\ Untouched(r, c) /\ c.lc = "abandoned" /\ c.child = r.child /\ c.micro = r.micro /\ c.waiters = r.waiters
  BY <1>1 DEF Typed, Has, Untouched
<1> HIDE DEF a, b, c
<1>6. Honest(a, disposed) /\ Honest(b, disposed)
  BY <1>1, <1>3, <1>4, PhaseHonest DEF Terminating
<1>7. Typed(c)
  BY <1>1, <1>5 DEF Typed, Untouched, Lifecycles
<1>8. Honest(Resolve(c, FALSE), disposed)
  BY <1>1, <1>5, <1>7, ResolveHonest DEF Terminating
<1> QED BY <1>2, <1>6, <1>8, BecomesHonest

LEMMA ExitedHonest ==
    ASSUME Inv, SnapshotInv, NEW k \in Keys, rec[k].lc # "none"
    PROVE  Honest(Exited(rec[k]), disposed)
<1> DEFINE r == rec[k]
           s == [r EXCEPT !.exited = TRUE]
           a == ReleaseLifecycle(r)
<1>1. /\ Honest(r, disposed) /\ Typed(r) /\ Sane(r) /\ r.lc \in {"tracked", "abandoned"} \cup Terminating
      /\ r.childGen \in Nat
  BY KeyHonest, ChildGenNat DEF Typed, Lifecycles
<1>2. Alike(r, s) /\ s.state = r.state
  BY <1>1 DEF Typed, Has, Alike
<1>3. Honest(s, disposed) /\ Honest(FailRecord(s, r.childGen), disposed)
  BY <1>1, <1>2, AlikeKept
<1> HIDE DEF r
<1>4. CASE r.lc = "abandoned"
  <2>1. Exited(r) = a \/ Exited(r) = Delete(a)
    BY <1>4 DEF Exited, Terminating
  <2>2. /\ Typed(a) /\ Untouched(r, a) /\ a.lc = "none"
        /\ a.child = r.child /\ a.micro = r.micro /\ a.waiters = r.waiters
    BY <1>1, ReleaseFields
  <2> HIDE DEF a
  <2>3. Honest(Delete(a), disposed)
    BY <2>2, DeleteHonest DEF Typed
  <2>4. Micro(a) = Micro(r) /\ Waiting(a) = Waiting(r) /\ a.waiters = <<>>
    BY <1>1, <1>4, <2>2 DEF Micro, Waiting, Sane, Terminating
  <2>5. \A kind : Awaits(a, kind) <=> Awaits(r, kind)
    BY <2>4 DEF Awaits
  <2>6. (Current(a) <=> Current(r)) /\ (Working(a) <=> Working(r))
    BY <2>2 DEF Current, Attempting, Working, Untouched
  <2>7. Sane(a)
    BY <1>1, <2>2, <2>4, <2>6 DEF Sane, Ordered, Untouched
  <2>8. Chained(a)
    BY <1>1, <2>2, <2>5 DEF Honest, Consistent, Chained, Untouched
  <2>9. disposed \/ (Working(a) => Awaits(a, "stop"))
    BY <1>1, <1>4, <2>5, <2>6 DEF Honest, Truthful, GivenUp
  <2>10. Honest(a, disposed)
    BY <2>2, <2>7, <2>8, <2>9 DEF Honest, Consistent, Truthful, Backed, GivenUp
  <2> QED BY <2>1, <2>3, <2>10 DEF r
<1>5. CASE r.lc # "abandoned"
  <2>1. Exited(r) = s \/ Exited(r) = FailRecord(s, r.childGen)
    BY <1>1, <1>5 DEF Exited
  <2> QED BY <1>3, <2>1 DEF r
<1> QED BY <1>4, <1>5

LEMMA ChildExitHonest == ASSUME Inv, SnapshotInv, NEW k \in Keys, ChildExit(k) PROVE SnapshotInv'
<1> DEFINE x == Exited(rec[k])
<1>1. rec[k].lc # "none" /\ rec' = [rec EXCEPT ![k] = x] /\ disposed' = disposed
  BY DEF ChildExit
<1>2. Honest(x, disposed)
  BY <1>1, ExitedHonest
<1> HIDE DEF x
<1> QED BY <1>1, <1>2, AlteredHonest

LEMMA ChildFailsHonest == ASSUME Inv, SnapshotInv, NEW k \in Keys, ChildFails(k) PROVE SnapshotInv'
<1> DEFINE Cut(b) == [rec[k] EXCEPT !.connected = @ /\ b]
<1>1. PICK b \in BOOLEAN : Becomes(k, FailRecord(Cut(b), rec[k].childGen))
  BY Zenon DEF ChildFails
<1>2. rec[k].lc # "none" /\ rec[k].childGen \in Nat
  BY KeyHonest, ChildGenNat DEF ChildFails
<1> DEFINE c == rec[k].connected /\ b
           s == [rec[k] EXCEPT !.connected = c]
<1>3. Cut(b) = s
  OBVIOUS
<1> HIDE DEF c, Cut
<1>4. Alike(rec[k], s) /\ s.state = rec[k].state
  BY ChildGenNat DEF Has, Alike
<1> HIDE DEF s
<1>5. Honest(FailRecord(s, rec[k].childGen), disposed)
  BY <1>2, <1>4, AlikeKept
<1> QED BY <1>1, <1>3, <1>5, BecomesHonest

(* A worker that is heard backs whatever it makes of the record.           *)
LEMMA HeardHonest ==
    ASSUME Inv, SnapshotInv, NEW k \in Keys, Heard(k), NEW s, Alike(rec[k], s)
    PROVE  Honest(s, disposed) /\ \A g \in Nat : Honest(FailRecord(s, g), disposed)
<1>1. rec[k].child /\ rec[k].desired /\ rec[k].lc = "tracked" /\ Consistent(rec[k]) /\ ~Attempting(rec[k])
  BY KeyHonest DEF Heard, IsCurrent, OwnsGeneration
<1>2. Honest(s, disposed) /\ Consistent(s)
  BY <1>1, ChildHonest DEF Honest
<1>3. ~Attempting(s)
  BY <1>1 DEF Alike, Attempting
<1> QED BY <1>2, <1>3, FailHonest

LEMMA SelfAlike == ASSUME Inv, NEW k \in Keys PROVE Alike(rec[k], rec[k])
  BY ChildGenNat DEF Alike

LEMMA ChildReadyHonest == ASSUME Inv, SnapshotInv, NEW k \in Keys, ChildReady(k) PROVE SnapshotInv'
<1> DEFINE r == rec[k]
           s == [r EXCEPT !.readySeen = TRUE, !.readyTimer = FALSE, !.onlineTimer = TRUE]
<1>1. Heard(k)
  BY DEF ChildReady
<1>2. PICK x \in {s, FailRecord(s, s.childGen), FailRecord(r, r.childGen)} : Becomes(k, x)
  BY DEF ChildReady
<1>3. Alike(r, s) /\ s.childGen \in Nat /\ r.childGen \in Nat
  BY ChildGenNat DEF Has, Alike, Records
<1> HIDE DEF s
<1>4. Honest(s, disposed) /\ Honest(FailRecord(s, s.childGen), disposed)
  BY <1>1, <1>3, HeardHonest
<1>5. Honest(FailRecord(r, r.childGen), disposed)
  BY <1>1, <1>3, SelfAlike, HeardHonest
<1> QED BY <1>2, <1>4, <1>5, BecomesHonest

LEMMA ChildOnlineHonest == ASSUME Inv, SnapshotInv, NEW k \in Keys, ChildOnline(k) PROVE SnapshotInv'
<1> DEFINE r == rec[k]
           s == [r EXCEPT !.onlineTimer = FALSE, !.state = "online", !.routable = TRUE, !.stableTimer = TRUE]
           f == [s EXCEPT !.buffer = <<>>]
<1>1. Heard(k) /\ disposed' = disposed
  BY DEF ChildOnline
<1>2. PICK x \in {f, FailRecord(f, s.childGen), FailRecord(s, s.childGen)} : rec' = [rec EXCEPT ![k] = x]
  BY DEF ChildOnline, Flush
<1>3. Alike(r, s) /\ s.childGen \in Nat
  BY ChildGenNat DEF Has, Alike, Records
<1> HIDE DEF s
<1>4. Alike(s, f)
  BY <1>3 DEF Alike, Has
<1> HIDE DEF f
<1>5. Alike(r, f)
  BY <1>3, <1>4, AlikeTrans
<1>6. Honest(f, disposed) /\ Honest(FailRecord(f, s.childGen), disposed) /\ Honest(FailRecord(s, s.childGen), disposed)
  BY <1>1, <1>3, <1>5, HeardHonest
<1> QED BY <1>1, <1>2, <1>6, AlteredHonest

LEMMA ChildOfflineHonest ==
    ASSUME Inv, SnapshotInv, NEW k \in Keys, NEW state, ChildOffline(k, state)
    PROVE  SnapshotInv'
<1> DEFINE r == rec[k]
           s == [r EXCEPT !.routable = FALSE, !.state = state, !.stableTimer = FALSE, !.onlineTimer = TRUE]
<1>1. Heard(k)
  BY DEF ChildOffline
<1>2. PICK x \in {s, FailRecord(s, s.childGen)} : Becomes(k, x)
  BY DEF ChildOffline
<1>3. Alike(r, s) /\ s.childGen \in Nat
  BY ChildGenNat DEF Has, Alike, Records
<1> HIDE DEF s
<1>4. Honest(s, disposed) /\ Honest(FailRecord(s, s.childGen), disposed)
  BY <1>1, <1>3, HeardHonest
<1> QED BY <1>2, <1>4, BecomesHonest

LEMMA ChildResultHonest ==
    ASSUME Inv, SnapshotInv, NEW k \in Keys, NEW q, ChildResult(k, q)
    PROVE  SnapshotInv'
  BY ForgetHonest, BecomesHonest DEF ChildResult

LEMMA ChildRefreshHonest == ASSUME Inv, SnapshotInv, NEW k \in Keys, ChildRefresh(k) PROVE SnapshotInv'
<1> DEFINE r == rec[k]
           s == [r EXCEPT !.refresh = "open"]
<1>1. Heard(k)
  BY DEF ChildRefresh
<1>2. PICK x \in {s, FailRecord(r, r.childGen)} : Becomes(k, x)
  BY DEF ChildRefresh
<1>3. Alike(r, s) /\ r.childGen \in Nat
  BY ChildGenNat DEF Has, Alike
<1> HIDE DEF s
<1>4. Honest(s, disposed) /\ Honest(FailRecord(r, r.childGen), disposed)
  BY <1>1, <1>3, SelfAlike, HeardHonest
<1> QED BY <1>2, <1>4, BecomesHonest

LEMMA RefreshSettlesHonest == ASSUME Inv, SnapshotInv, NEW k \in Keys, RefreshSettles(k) PROVE SnapshotInv'
<1> DEFINE r == rec[k]
           s == [r EXCEPT !.refresh = "answered"]
<1>1. PICK x : Becomes(k, x) /\ (x = s \/ (IsCurrent(s) /\ x = FailRecord(s, s.childGen)))
  BY DEF RefreshSettles
<1>2. Alike(r, s) /\ s.childGen \in Nat /\ s.state = r.state
  BY ChildGenNat DEF Has, Alike, Records
<1> HIDE DEF s
<1>3. IsCurrent(s) => r.lc # "none"
  BY <1>2, KeyHonest DEF IsCurrent, Alike
<1>4. Honest(s, disposed) /\ (IsCurrent(s) => Honest(FailRecord(s, s.childGen), disposed))
  BY <1>2, <1>3, AlikeKept
<1> QED BY <1>1, <1>4, BecomesHonest

LEMMA RequestHonest == ASSUME Inv, SnapshotInv, NEW k \in Keys, Request(k) PROVE SnapshotInv'
<1> DEFINE r == rec[k]
           q == sequence + 1
           s == [r EXCEPT !.pending = @ \cup {q}]
           b == [s EXCEPT !.buffer = Append(@, q)]
<1>1. PICK x : rec' = [rec EXCEPT ![k] = x] /\ (x = s \/ x = b \/ (r.child /\ x = FailRecord(s, s.gen)))
  BY DEF Request
<1>2. disposed' = disposed
  BY DEF Request
<1>3. Alike(r, s) /\ s.state = r.state /\ s.gen \in Nat
  BY ChildGenNat DEF Has, Alike
<1> HIDE DEF s
<1>4. Alike(s, b) /\ b.state = s.state
  BY <1>3 DEF Has, Alike
<1> HIDE DEF b
<1>5. Alike(r, b) /\ b.state = r.state
  BY <1>3, <1>4, AlikeTrans
<1>6. r.child => r.lc # "none"
  BY KeyHonest
<1>7. Honest(s, disposed) /\ Honest(b, disposed) /\ (r.child => Honest(FailRecord(s, s.gen), disposed))
  BY <1>3, <1>5, <1>6, AlikeKept
<1> QED BY <1>1, <1>2, <1>7, AlteredHonest

LEMMA StopStepHonest == ASSUME Inv, SnapshotInv, NEW k \in Keys, Stop(k) PROVE SnapshotInv'
<1> DEFINE r == rec[k]
           a == [r EXCEPT !.desired = FALSE, !.gen = @ + 1, !.removeWhenReaped = FALSE]
           x == Terminate(RejectPending(CancelLifecycleTimers(a)), Reaction("stop"))
<1>1. r.present /\ rec' = [rec EXCEPT ![k] = x] /\ disposed' = disposed
  BY DEF Stop
<1>2. Consistent(r)
  BY KeyHonest
<1>3. \A over : Honest(x, over)
  BY <1>1, <1>2, StopHonest, Zenon
<1> HIDE DEF x
<1>4. Honest(x, disposed)
  BY <1>3
<1> QED BY <1>1, <1>4, AlteredHonest

LEMMA RestartStepHonest == ASSUME Inv, SnapshotInv, NEW k \in Keys, Restart(k) PROVE SnapshotInv'
<1> DEFINE r == rec[k]
           s == [r EXCEPT !.desired = TRUE]
           queue == r.state = "stopped"
           x == RestartRecord(s, queue)
<1>1. r.present /\ rec' = [rec EXCEPT ![k] = x] /\ disposed' = disposed
  BY DEF Restart
<1>2. Honest(r, disposed) /\ Typed(r)
  BY KeyHonest
<1> HIDE DEF r, queue
<1>3. /\ Has(s) /\ s.gen = r.gen /\ s.spawnGen = r.spawnGen /\ s.failedGen = r.failedGen
      /\ s.attempt = r.attempt /\ s.respawn = r.respawn /\ s.lc = r.lc /\ s.child = r.child
      /\ s.micro = r.micro /\ s.waiters = r.waiters
  BY <1>2 DEF Typed, Has
<1>4. s.present = r.present /\ s.desired = TRUE /\ s.state = r.state /\ s.restart = r.restart /\ s.requeue = r.requeue
  BY <1>2 DEF Typed, Has
<1> HIDE DEF s
<1>5. Micro(s) = Micro(r) /\ Waiting(s) = Waiting(r) /\ (Current(s) <=> Current(r)) /\ (Working(s) <=> Working(r))
  BY <1>3, <1>4 DEF Micro, Waiting, Current, Attempting, Working
<1>6. Typed(s) /\ Sane(s)
  BY <1>2, <1>3, <1>5 DEF Honest, Consistent, Typed, Sane, Ordered
<1>7. Consistent(s)
  BY <1>2, <1>3, <1>4, <1>5, <1>6 DEF Honest, Consistent, Chained, Awaits
<1>8. disposed \/ GivenUp(s)
  BY <1>2, <1>3, <1>4, <1>5 DEF Honest, Truthful, GivenUp, Awaits
<1>9. disposed \/ Backed(s)
  BY <1>2, <1>3, <1>4, <1>5 DEF Honest, Truthful, Backed, Awaits
<1>10. Honest(x, disposed)
  BY <1>1, <1>4, <1>7, <1>8, <1>9, RestartHonest
<1> HIDE DEF x
<1> QED BY <1>1, <1>10, AlteredHonest DEF r

LEMMA ReconcileHonest ==
    ASSUME Inv, SnapshotInv, NEW c \in Calls, NEW want \in Wanted, Reconcile(c, want)
    PROVE  SnapshotInv'
<1>1. disposed' = disposed
  BY DEF Reconcile
<1>2. ASSUME NEW k \in Keys PROVE Honest(rec'[k], disposed)
  <2>1. Honest(rec[k], disposed) /\ Consistent(rec[k])
    BY KeyHonest
  <2>2. rec'[k] = rec[k] \/ (rec[k].present /\ rec'[k] = RemoveRecord(rec[k], c))
    BY DEF Reconcile
  <2> QED BY <2>1, <2>2, RemoveHonest
<1> QED BY <1>1, <1>2 DEF SnapshotInv

LEMMA ReconcileStartHonest ==
    ASSUME Inv, SnapshotInv, NEW c \in Calls, ReconcileStart(c)
    PROVE  SnapshotInv'
<1>1. disposed' = disposed
  BY DEF ReconcileStart
<1>2. calls[c].want \in Wanted
  BY DEF Inv, TypeOK
<1>3. PICK D \in SUBSET Keys : calls[c].want \in [D -> Tokens]
  BY <1>2 DEF Wanted
<1>4. ASSUME NEW k \in Keys PROVE Honest(rec'[k], disposed)
  <2>1. Honest(rec[k], disposed) /\ Sound(rec[k])
    BY KeyHonest
  <2>2. rec'[k] = rec[k] \/ (k \in DOMAIN calls[c].want /\ rec'[k] = Readd(rec[k], calls[c].want[k]))
    BY DEF ReconcileStart
  <2>3. k \in DOMAIN calls[c].want => calls[c].want[k] \in Tokens
    BY <1>3
  <2> QED BY <2>1, <2>2, <2>3, ReaddHonest
<1> QED BY <1>1, <1>4 DEF SnapshotInv

LEMMA DisposeStepHonest == ASSUME Inv, SnapshotInv, Dispose PROVE SnapshotInv'
<1>1. disposed' = TRUE
  BY DEF Dispose
<1>2. ASSUME NEW k \in Keys PROVE Honest(rec'[k], TRUE)
  <2>1. Consistent(rec[k]) /\ Sound(rec[k])
    BY KeyHonest
  <2>2. rec'[k] = rec[k] \/ (rec[k].present /\ rec'[k] = DisposeRecord(rec[k]))
    BY DEF Dispose
  <2>3. Honest(rec[k], TRUE)
    BY <2>1 DEF Honest
  <2> QED BY <2>1, <2>2, <2>3, DisposeHonest
<1> QED BY <1>1, <1>2 DEF SnapshotInv

LEMMA SnapshotInit == Init => SnapshotInv
<1> SUFFICES ASSUME Init, NEW k \in Keys PROVE Honest(rec[k], disposed)
  BY DEF SnapshotInv
<1> DEFINE n == NewRecord(NoToken)
<1>1. rec[k] = n
  BY DEF Init
<1>2. Has(n)
  BY DEF NewRecord, Has
<1>3. ~n.present
  BY DEF NewRecord
<1>4. n.gen = 0 /\ n.spawnGen = 0 /\ n.attempt = "none" /\ n.lc = "none" /\ n.waiters = <<>> /\ n.micro = <<>> /\ n.restart = "none"
  BY DEF NewRecord
<1> HIDE DEF n
<1>5. Typed(n) /\ Micro(n) = {} /\ Waiting(n) = {}
  BY <1>2, <1>4, ElemsEmpty DEF Typed, Lifecycles, Micro, Waiting
<1>6. Sane(n) /\ Chained(n)
  BY <1>4, <1>5 DEF Sane, Current, Attempting, Chained, Awaits
<1> QED BY <1>1, <1>3, <1>5, <1>6 DEF Honest, Consistent, Truthful, Backed, GivenUp, Working

LEMMA SnapshotNext == ASSUME Inv, SnapshotInv, [Next]_vars PROVE SnapshotInv'
<1>1. ASSUME NEW c \in Calls, NEW want \in Wanted, Reconcile(c, want) PROVE SnapshotInv'
  BY <1>1, ReconcileHonest
<1>2. ASSUME NEW c \in Calls, ReconcileStart(c) PROVE SnapshotInv'
  BY <1>2, ReconcileStartHonest
<1>3. CASE Dispose
  BY <1>3, DisposeStepHonest
<1>4. ASSUME NEW k \in Keys, Stop(k) \/ Restart(k) \/ Request(k) PROVE SnapshotInv'
  BY <1>4, StopStepHonest, RestartStepHonest, RequestHonest
<1>5. ASSUME NEW k \in Keys, React(k) PROVE SnapshotInv'
  BY <1>5, ReactHonest
<1>6. ASSUME NEW k \in Keys, Timeout(k) PROVE SnapshotInv'
  BY <1>6, CredentialTimeoutHonest, RestartTimeoutHonest, ReadyTimeoutHonest, OnlineTimeoutHonest,
     StableTimeoutHonest, TerminationTimeoutHonest, RequestTimeoutHonest DEF Timeout
<1>7. ASSUME NEW k \in Keys, ChildEvent(k) PROVE SnapshotInv'
  BY <1>7, ChildExitHonest, ChildFailsHonest, ChildReadyHonest, ChildOnlineHonest, ChildOfflineHonest,
     ChildResultHonest, ChildRefreshHonest DEF ChildEvent
<1>8. ASSUME NEW k \in Keys, NEW ok \in BOOLEAN, CredentialSettles(k, ok) PROVE SnapshotInv'
  BY <1>8, CredentialSettlesHonest
<1>9. ASSUME NEW k \in Keys, RefreshSettles(k) PROVE SnapshotInv'
  BY <1>9, RefreshSettlesHonest
<1>10. CASE UNCHANGED vars
  BY <1>10 DEF vars, SnapshotInv
<1> QED BY <1>1, <1>2, <1>3, <1>4, <1>5, <1>6, <1>7, <1>8, <1>9, <1>10 DEF Next

LEMMA SnapshotInvariance == Spec => []SnapshotInv
<1>1. Init => SnapshotInv
  BY SnapshotInit
<1>2. Inv /\ SnapshotInv /\ [Next]_vars => SnapshotInv'
  BY SnapshotNext
<1>3. Spec => []Inv
  BY Invariance
<1> QED BY <1>1, <1>2, <1>3, PTL DEF Spec

(* A record whose snapshot says starting, online or offline while its      *)
(* binding is desired has a worker, a credential lookup under way or a     *)
(* termination after which it goes on: between two macrotasks everything   *)
(* else that may back such a record has either run or is one of these.     *)
THEOREM SnapshotHonestHolds == Spec => []SnapshotHonest
<1>1. Inv /\ SnapshotInv => SnapshotHonest
  <2> SUFFICES ASSUME Inv, SnapshotInv, NEW k \in Keys, Idle, ~disposed, rec[k].desired,
                      rec[k].state \in {"starting", "online", "offline"}
               PROVE  rec[k].child \/ rec[k].attempt = "lookup" \/ rec[k].lc \in Terminating
    BY DEF SnapshotHonest
  <2> DEFINE r == rec[k]
  <2>1. Honest(r, disposed) /\ Sane(r) /\ Chained(r) /\ r.present /\ r.restart \in Restarts
    BY KeyHonest DEF Honest, Consistent, Sound, Shape, Records
  <2>2. r.micro = <<>> /\ r.attempt \in {"none", "lookup"} /\ r.restart # "over"
    BY DEF Idle
  <2>3. ASSUME NEW kind, Awaits(r, kind) PROVE r.lc \in Terminating
    <3>1. Waiting(r) # {}
      BY <2>2, <2>3, ElemsEmpty DEF Awaits, Micro
    <3>2. r.waiters # <<>>
      BY <3>1, ElemsEmpty DEF Waiting
    <3> QED BY <2>1, <3>2 DEF Sane
  <2> HIDE DEF r
  <2>4. Backed(r) /\ Working(r)
    BY <2>1 DEF Honest, Truthful, Working, r
  <2>5. CASE r.child
    BY <2>5 DEF r
  <2>6. CASE Awaits(r, "stop")
    BY <2>3, <2>6 DEF r
  <2>7. CASE Current(r) \/ (r.respawn /\ r.attempt # "none")
    BY <2>2, <2>7 DEF Current, Attempting, r
  <2>8. CASE r.requeue /\ r.restart # "none"
    <3>1. CASE r.restart = "terminate"
      BY <2>1, <2>3, <3>1 DEF Chained, r
    <3>2. CASE r.restart \in {"spawn", "chain"}
      BY <2>1, <2>2, <3>2 DEF Chained, r
    <3> QED BY <2>1, <2>2, <2>8, <3>1, <3>2 DEF Restarts
  <2> QED BY <2>4, <2>5, <2>6, <2>7, <2>8 DEF Backed
<1>2. Spec => []Inv
  BY Invariance
<1>3. Spec => []SnapshotInv
  BY SnapshotInvariance
<1> QED BY <1>1, <1>2, <1>3, PTL

=============================================================================
