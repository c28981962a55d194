-------------------------- MODULE BridgeTasksProofs --------------------------
(***************************************************************************)
(* Proofs about BridgeTasks, for any ids, conversations and concurrent     *)
(* calls and for any bounds.                                               *)
(*                                                                         *)
(* Two inductive invariants.  Bookkeeping relates the maps of the manager  *)
(* to the task objects and the calls under way; Serialized relates the     *)
(* conversation objects, their references and gates to the tasks.          *)
(***************************************************************************)
EXTENDS BridgeTasks, FiniteSetTheorems, TLAPS

-----------------------------------------------------------------------------
(* The parts of Bookkeeping.                                               *)

Made == {t \in Tasks : t <= created}

(* The objects made so far, and the others.                                *)
Objects ==
    /\ \A t \in Made : task[t].id \in Ids /\ task[t].key \in Keys /\ task[t].stage # "none"
    /\ \A t \in Tasks \ Made : task[t] = NoTask

(* A call under way has its arguments; a Fence that waits, waits for a     *)
(* task of its own identity.                                               *)
Calls ==
    /\ \A c \in Starts : start[c].stage # "idle" => start[c].id \in Ids /\ start[c].key \in Keys
    /\ \A f \in Fences :
        /\ fence[f].stage # "idle" => fence[f].id \in Ids \ Anonymous
        /\ fence[f].stage \in {"found", "waiting"} =>
               fence[f].task \in Made /\ task[fence[f].task].id = fence[f].id

(* The map names tasks by their own id.                                    *)
Indexed == \A i \in Ids : tasks[i] # 0 => tasks[i] \in Made /\ task[tasks[i]].id = i

(* A task without a terminal event is in the map, and its identity too.    *)
LiveIsIndexed ==
    \A t \in Made : ~Terminal(t) =>
        /\ tasks[task[t].id] = t
        /\ task[t].id \notin Anonymous => requests[task[t].id] # None

(* An identity that was used is remembered as long as it is valid.         *)
Remembered ==
    \A t \in Made : task[t].id \notin Anonymous \cup expired => requests[task[t].id] # None

(* The id a Start without an identity made is its own.                     *)
OwnId ==
    \A c \in Starts : start[c].id \in Anonymous =>
        /\ \A t \in Tasks : task[t].id # start[c].id
        /\ \A d \in Starts \ {c} : start[d].id # start[c].id

(* What was fenced stays known.                                            *)
FencedKnown ==
    \A i \in fenced : i \in Ids \ Anonymous /\ (i \notin expired => KnownRequest(i))

(* Once the server has returned no call is under way.                      *)
Quiescent == server = "returned" => \A c \in Starts : start[c].stage = "idle"

Bookkeeping ==
    /\ Objects /\ Calls /\ Indexed /\ LiveIsIndexed /\ Remembered /\ OwnId
    /\ FencedKnown /\ Quiescent /\ OneTaskPerRequest /\ FenceHolds /\ CleanShutdown

-----------------------------------------------------------------------------
(* The parts of Serialized.                                                *)

(* The tasks that hold a reference to conversation object c.               *)
Members(c) == {t \in Tasks : task[t].stage \in Counted /\ task[t].conv = c}

(* A task that is counted refers to the object its conversation has now.   *)
Attached ==
    \A t \in Tasks : task[t].stage \in Counted =>
        task[t].key \in Keys /\ task[t].conv \in Tasks /\ convs[task[t].key] = task[t].conv

(* A conversation object was made by a task of that conversation.          *)
Founded ==
    \A k \in Keys : convs[k] # 0 =>
        task[convs[k]].key = k /\ task[convs[k]].stage \notin {"none", "queued"}

RefsCount == \A c \in Tasks : refs[c] = Cardinality(Members(c))

Needed == \A k \in Keys : convs[k] # 0 => refs[convs[k]] # 0

(* A task past the gate is the one in the gate.                            *)
Admitted == \A t \in Tasks : task[t].stage \in Holding => gate[task[t].conv] = t

Serialized == Attached /\ Founded /\ RefsCount /\ Needed /\ Admitted

-----------------------------------------------------------------------------
(* Lemmas.                                                                 *)

(* Members is finite, and what its cardinality says of it.                 *)
LEMMA MembersFinite ==
    ASSUME NEW c
    PROVE  IsFiniteSet(Members(c)) /\ Cardinality(Members(c)) \in Nat
<1>1. IsFiniteSet(Tasks)
  BY FS_Interval, TasksAssumption DEF Tasks
<1>2. Members(c) \subseteq Tasks
  BY DEF Members
<1> QED BY <1>1, <1>2, FS_Subset, FS_CardinalityType

(* A counted task has a reference, so its object has at least one.         *)
LEMMA CountedPositive ==
    ASSUME Serialized, NEW t \in Tasks, task[t].stage \in Counted
    PROVE  task[t].conv \in Tasks /\ refs[task[t].conv] \in Nat \ {0}
<1>1. task[t].conv \in Tasks /\ t \in Members(task[t].conv)
  BY DEF Serialized, Attached, Members
<1>2. Cardinality(Members(task[t].conv)) # 0
  BY <1>1, MembersFinite, FS_EmptySet
<1> QED BY <1>1, <1>2, MembersFinite DEF Serialized, RefsCount

(* The step of a goroutine, of Cancel or of Fence changes no id, no key    *)
(* and takes back no terminal event.                                       *)
Progress(t) ==
    /\ task'[t].id = task[t].id
    /\ task'[t].key = task[t].key
    /\ task'[t].stage = "none" <=> task[t].stage = "none"
    /\ task[t].event # "none" => task'[t].event # "none"

(* Of a conversation it changes nothing but the stage.                     *)
Steady(t) ==
    /\ task'[t].key = task[t].key
    /\ task'[t].conv = task[t].conv
    /\ task'[t].stage \in Counted <=> task[t].stage \in Counted
    /\ task'[t].stage \in Holding => task[t].stage \in Holding
    /\ task'[t].stage \in {"none", "queued"} <=> task[t].stage \in {"none", "queued"}

(* pruneExpired keeps the maps well typed.                                 *)
LEMMA PruneType ==
    ASSUME TypeOK, NEW S, PruneExpired(S)
    PROVE  tasks' \in [Ids -> Tasks \cup {0}] /\ requests' \in [Ids -> Keys \cup {None}]
           /\ fences' \in SUBSET Ids
  BY DEF PruneExpired, TypeOK

LEMMA TasksNat ==
    Tasks \subseteq Nat \ {0}
  BY TasksAssumption DEF Tasks

-----------------------------------------------------------------------------
(* Type correctness.                                                       *)

LEMMA InitType ==
    Init => TypeOK
<1> SUFFICES ASSUME Init PROVE TypeOK
  OBVIOUS
<1>1. NoTask \in TaskObjects
  BY DEF NoTask, TaskObjects, Stages, Events
<1>2. created \in 0..MaxTasks
  BY TasksAssumption DEF Init
<1> QED BY <1>1, <1>2 DEF Init, TypeOK, IdleStart, IdleFence

LEMMA CallsType ==
    ASSUME TypeOK, Calls,
           \/ \E c \in Starts, i \in Ids, k \in Keys, S \in SUBSET Ids : StartCall(c, i, k, S)
           \/ \E c \in Starts : StartLookup(c) \/ StartRefused(c)
           \/ \E S \in SUBSET Ids : Subscribe(S)
           \/ \E f \in Fences, i \in Ids, S \in SUBSET Ids : FenceCall(f, i, S)
           \/ \E f \in Fences : FenceLookup(f) \/ FenceDone(f) \/ FenceTimeout(f)
           \/ \E i \in Ids : Expire(i)
           \/ Shutdown \/ Seal \/ ServeReturns \/ ServeTimeout
    PROVE  TypeOK'
<1>1. ASSUME NEW c \in Starts, NEW i \in Ids, NEW k \in Keys, NEW S \in SUBSET Ids,
             StartCall(c, i, k, S)
      PROVE  TypeOK'
  BY <1>1, PruneType DEF StartCall, TypeOK, conversations
<1>2. ASSUME NEW c \in Starts, StartLookup(c) \/ StartRefused(c) PROVE TypeOK'
  <2>1. start' = [start EXCEPT ![c] = IdleStart] \/ start' = [start EXCEPT ![c].stage = "resolving"]
    BY <1>2 DEF StartLookup, StartRefused, StartReturns
  <2>2. UNCHANGED <<manager, conversations, task, created, fence, expired, fenced, root, server>>
    BY <1>2 DEF StartLookup, StartRefused
  <2> QED BY <2>1, <2>2 DEF TypeOK, conversations, manager, IdleStart
<1>3. ASSUME NEW S \in SUBSET Ids, Subscribe(S) PROVE TypeOK'
  BY <1>3, PruneType DEF Subscribe, TypeOK, conversations
<1>4. ASSUME NEW f \in Fences, NEW i \in Ids, NEW S \in SUBSET Ids, FenceCall(f, i, S)
      PROVE  TypeOK'
  BY <1>4, PruneType DEF FenceCall, TypeOK, conversations
<1>5. ASSUME NEW f \in Fences, FenceLookup(f) PROVE TypeOK'
  <2>1. fence[f].id \in Ids
    BY <1>5 DEF FenceLookup, Calls
  <2> QED BY <1>5, <2>1 DEF FenceLookup, TypeOK, conversations, IdleFence
<1>6. ASSUME NEW f \in Fences, FenceDone(f) \/ FenceTimeout(f) PROVE TypeOK'
  <2>1. fence[f].id \in Ids
    BY <1>6 DEF FenceDone, FenceTimeout, Calls
  <2>2. fenced' \in SUBSET Ids
    BY <1>6, <2>1 DEF FenceDone, FenceTimeout, TypeOK
  <2>3. fence' = [fence EXCEPT ![f] = IdleFence]
    BY <1>6 DEF FenceDone, FenceTimeout
  <2> QED BY <1>6, <2>2, <2>3
          DEF FenceDone, FenceTimeout, TypeOK, conversations, manager, IdleFence
<1>7. ASSUME NEW i \in Ids, Expire(i) PROVE TypeOK'
  BY <1>7 DEF Expire, TypeOK, conversations, manager
<1>8. CASE Shutdown \/ Seal \/ ServeReturns \/ ServeTimeout
  BY <1>8 DEF Shutdown, Seal, ServeReturns, ServeTimeout, TypeOK, conversations, manager
<1> QED BY <1>1, <1>2, <1>3, <1>4, <1>5, <1>6, <1>7, <1>8

(* The ways one task object changes.                                       *)
LEMMA StageType ==
    ASSUME TypeOK, NEW t \in Tasks, NEW stage \in Stages
    PROVE  [task EXCEPT ![t].stage = stage] \in [Tasks -> TaskObjects]
  BY DEF TypeOK, TaskObjects

LEMMA ConvType ==
    ASSUME TypeOK, NEW t \in Tasks, NEW stage \in Stages, NEW c \in Tasks \cup {0}
    PROVE  [task EXCEPT ![t].stage = stage, ![t].conv = c] \in [Tasks -> TaskObjects]
<1> DEFINE one == [task EXCEPT ![t].stage = stage]
<1>1. one \in [Tasks -> TaskObjects]
  BY StageType
<1>2. [one EXCEPT ![t].conv = c] \in [Tasks -> TaskObjects]
  <2> HIDE DEF one
  <2> QED BY <1>1 DEF TaskObjects
<1> QED BY <1>2

LEMMA CancelledType ==
    ASSUME TypeOK, NEW t \in Tasks \cup {0}
    PROVE  [task EXCEPT ![t].cancelled = TRUE] \in [Tasks -> TaskObjects]
<1>0. task \in [Tasks -> TaskObjects]
  BY DEF TypeOK
<1>1. CASE t \in Tasks
  BY <1>0, <1>1 DEF TaskObjects
<1>2. CASE t \notin Tasks
  BY <1>2 DEF TypeOK
<1> QED BY <1>1, <1>2

LEMMA AttemptType ==
    ASSUME TypeOK, NEW t \in Tasks, NEW outcome \in Outcomes
    PROVE  /\ [task EXCEPT ![t].retried = TRUE] \in [Tasks -> TaskObjects]
           /\ [task EXCEPT ![t].stage = "finishing", ![t].outcome = outcome] \in [Tasks -> TaskObjects]
<1> DEFINE one == [task EXCEPT ![t].stage = "finishing"]
<1>1. one \in [Tasks -> TaskObjects]
  BY StageType DEF Stages
<1>2. [one EXCEPT ![t].outcome = outcome] \in [Tasks -> TaskObjects]
  <2> HIDE DEF one
  <2> QED BY <1>1 DEF TaskObjects
<1>3. [task EXCEPT ![t].retried = TRUE] \in [Tasks -> TaskObjects]
  <2>1. task \in [Tasks -> TaskObjects]
    BY DEF TypeOK
  <2> QED BY <2>1 DEF TaskObjects
<1> QED BY <1>2, <1>3

LEMMA PublishedType ==
    ASSUME TypeOK, NEW t \in Tasks, NEW event \in Events, NEW stage \in Stages
    PROVE  Published(t, event, stage) \in [Tasks -> TaskObjects]
<1> DEFINE one == [task EXCEPT ![t].event = event]
           two == [one EXCEPT ![t].cancelled = TRUE]
           three == [two EXCEPT ![t].stage = stage]
           four == [three EXCEPT ![t].outcome = "none"]
<1>1. one \in [Tasks -> TaskObjects]
  BY DEF TypeOK, TaskObjects
<1>2. two \in [Tasks -> TaskObjects]
  <2> HIDE DEF one
  <2> QED BY <1>1 DEF TaskObjects
<1>3. three \in [Tasks -> TaskObjects]
  <2> HIDE DEF two
  <2> QED BY <1>2 DEF TaskObjects
<1>4. four \in [Tasks -> TaskObjects]
  <2> HIDE DEF three
  <2> QED BY <1>3 DEF TaskObjects
<1>5. [four EXCEPT ![t].retried = FALSE] \in [Tasks -> TaskObjects]
  <2> HIDE DEF four
  <2> QED BY <1>4 DEF TaskObjects
<1> QED BY <1>5 DEF Published

LEMMA CommitType ==
    ASSUME TypeOK, Calls, NEW c \in Starts, StartCommit(c)
    PROVE  TypeOK'
<1>1. start[c].id \in Ids /\ start[c].key \in Keys
  BY DEF StartCommit, Calls
<1>2. created' \in Tasks /\ created' \in 0..MaxTasks
  BY TasksAssumption DEF StartCommit, TypeOK, Tasks
<1>3. [NoTask EXCEPT !.id = start[c].id, !.key = start[c].key, !.stage = "queued"] \in TaskObjects
  BY <1>1 DEF NoTask, TaskObjects, Stages, Events
<1>4. task' \in [Tasks -> TaskObjects]
  BY <1>2, <1>3 DEF StartCommit, TypeOK
<1>5. tasks' \in [Ids -> Tasks \cup {0}] /\ requests' \in [Ids -> Keys \cup {None}]
  BY <1>1, <1>2 DEF StartCommit, TypeOK
<1> QED BY <1>2, <1>4, <1>5 DEF StartCommit, StartReturns, IdleStart, TypeOK, conversations

LEMMA GoroutineType ==
    ASSUME TypeOK, Bookkeeping, Serialized, NEW t \in Tasks, Goroutine(t)
    PROVE  TypeOK'
<1> USE DEF Others, manager, conversations
<1>2. ASSUME task' \in [Tasks -> TaskObjects], UNCHANGED Others,
             convs' \in [Keys -> Tasks \cup {0}], refs' \in [Tasks -> Nat],
             gate' \in [Tasks -> Tasks \cup {0}]
      PROVE  TypeOK'
  BY <1>2 DEF TypeOK
<1>3. CASE Enqueue(t)
  <2>1. task[t].key \in Keys /\ (IF convs[task[t].key] = 0 THEN t ELSE convs[task[t].key]) \in Tasks
    BY <1>3 DEF Enqueue, Bookkeeping, Objects, NoTask, TypeOK
  <2>2. task' \in [Tasks -> TaskObjects]
    BY <1>3, <2>1, ConvType DEF Enqueue, Stages
  <2> QED BY <1>2, <1>3, <2>1, <2>2 DEF Enqueue, TypeOK
<1>4. CASE Acquire(t)
  <2>1. task' \in [Tasks -> TaskObjects]
    BY <1>4, StageType DEF Acquire, Stages
  <2> QED BY <1>2, <1>4, <2>1 DEF Acquire, TypeOK
<1>5. ASSUME task[t].stage \in Counted, ReleaseConversation(t)
      PROVE  convs' \in [Keys -> Tasks \cup {0}] /\ refs' \in [Tasks -> Nat]
  <2>1. refs[task[t].conv] - 1 \in Nat
    BY <1>5, CountedPositive
  <2>2. refs' \in [Tasks -> Nat]
    BY <1>5, <2>1 DEF ReleaseConversation, TypeOK
  <2>3. [convs EXCEPT ![task[t].key] = 0] \in [Keys -> Tasks \cup {0}]
    BY DEF TypeOK
  <2> QED BY <1>5, <2>2, <2>3 DEF ReleaseConversation, TypeOK
<1>6. CASE GiveUp(t)
  <2>1. task' \in [Tasks -> TaskObjects]
    BY <1>6, ConvType DEF GiveUp, Stages
  <2> QED BY <1>2, <1>5, <1>6, <2>1 DEF GiveUp, TypeOK, Counted
<1>7. CASE Release(t)
  <2>1. task' \in [Tasks -> TaskObjects]
    BY <1>7, ConvType DEF Release, Stages
  <2> QED BY <1>2, <1>5, <1>7, <2>1 DEF Release, TypeOK, Counted
<1>8. CASE Leave(t)
  <2>1. task' \in [Tasks -> TaskObjects]
    BY <1>8, StageType DEF Leave, Stages
  <2> QED BY <1>2, <1>8, <2>1 DEF Leave, TypeOK
<1>9. CASE PublishGivenUp(t) \/ Finish(t)
  <2>1. FinalEvent(t) \in Events /\ "cancelled" \in Events
    BY DEF FinalEvent, Events
  <2>2. task' \in [Tasks -> TaskObjects]
    BY <1>9, <2>1, PublishedType DEF PublishGivenUp, Finish, Stages
  <2> QED BY <1>2, <1>9, <2>2 DEF PublishGivenUp, Finish, TypeOK
<1>10. CASE Proceed(t)
  <2>1. [task EXCEPT ![t].stage = "running"] \in [Tasks -> TaskObjects]
    BY DEF TypeOK, TaskObjects, Stages
  <2>2. Published(t, "cancelled", "published") \in [Tasks -> TaskObjects]
    BY PublishedType DEF Events, Stages
  <2> QED BY <1>2, <1>10, <2>1, <2>2 DEF Proceed, TypeOK
<1>11. ASSUME NEW outcome \in Attempts, AttemptEnds(t, outcome) PROVE TypeOK'
  <2>1. outcome \in Outcomes
    BY TasksAssumption
  <2>2. task' \in [Tasks -> TaskObjects]
    BY <1>11, <2>1, AttemptType DEF AttemptEnds
  <2> QED BY <1>2, <1>11, <2>2 DEF AttemptEnds, TypeOK
<1> QED BY <1>3, <1>4, <1>6, <1>7, <1>8, <1>9, <1>10, <1>11 DEF Goroutine

LEMMA NextType ==
    ASSUME TypeOK, Bookkeeping, Serialized, [Next]_vars
    PROVE  TypeOK'
<1>1. ASSUME NEW i \in Ids, NEW S \in SUBSET Ids, Cancel(i, S) PROVE TypeOK'
  <2>1. task' \in [Tasks -> TaskObjects]
    BY <1>1, PruneType, CancelledType DEF Cancel
  <2> QED BY <1>1, <2>1, PruneType DEF Cancel, TypeOK, conversations
<1>2. ASSUME NEW f \in Fences, FenceCancel(f) PROVE TypeOK'
  <2>1. task' \in [Tasks -> TaskObjects]
    BY <1>2, CancelledType DEF FenceCancel, TypeOK
  <2> QED BY <1>2, <2>1 DEF FenceCancel, TypeOK, conversations, manager
<1>3. CASE UNCHANGED vars
  BY <1>3 DEF vars, conversations, manager, TypeOK
<1> QED BY <1>1, <1>2, <1>3, CallsType, CommitType, GoroutineType DEF Next, Bookkeeping

-----------------------------------------------------------------------------
(* The bookkeeping of the manager.                                         *)

LEMMA InitBookkeeping ==
    Init => Bookkeeping
<1> SUFFICES ASSUME Init PROVE Bookkeeping
  OBVIOUS
<1>1. Made = {} /\ \A t \in Tasks : task[t] = NoTask
  BY TasksAssumption DEF Init, Made, Tasks
<1>2. NoTask.id = None /\ None \notin Ids /\ NoTask.stage = "none" /\ Anonymous \subseteq Ids
  BY TasksAssumption DEF NoTask
<1>3. Objects /\ Calls /\ Indexed /\ LiveIsIndexed /\ Remembered /\ FencedKnown /\ Quiescent
  BY <1>1 DEF Init, Objects, Calls, Indexed, LiveIsIndexed, Remembered, FencedKnown, Quiescent,
              IdleStart, IdleFence
<1>4. OwnId
  BY <1>2 DEF Init, OwnId, IdleStart
<1>5. OneTaskPerRequest /\ FenceHolds /\ CleanShutdown
  BY <1>1, <1>2 DEF OneTaskPerRequest, FenceHolds, CleanShutdown, Init
<1> QED BY <1>3, <1>4, <1>5 DEF Bookkeeping

(* Steps of the tasks that leave the maps and the calls alone.             *)
LEMMA ProgressBookkeeping ==
    ASSUME TypeOK, Bookkeeping, \A t \in Tasks : Progress(t), TypeOK',
           \A t \in Tasks : task[t].stage = "none" => task'[t] = task[t],
           UNCHANGED <<manager, created, start, fenced, expired, server>>,
           \A f \in Fences : /\ fence'[f].stage # "idle" => fence[f].stage # "idle"
                             /\ fence'[f].id = fence[f].id /\ fence'[f].task = fence[f].task
                             /\ fence'[f].stage \in {"found", "waiting"} => fence[f].stage \in {"found", "waiting"}
    PROVE  Bookkeeping'
<1> USE DEF Progress, manager, Terminal
<1>1. Made' = Made
  BY DEF Made
<1>2. Objects'
  <2>1. \A t \in Made : task'[t].id \in Ids /\ task'[t].key \in Keys /\ task'[t].stage # "none"
    BY DEF Bookkeeping, Objects, Made
  <2>2. \A t \in Tasks \ Made : task'[t] = NoTask
    <3>1. NoTask.stage = "none"
      BY DEF NoTask
    <3> QED BY <3>1 DEF Bookkeeping, Objects
  <2> QED BY <1>1, <2>1, <2>2 DEF Objects
<1>3. Calls'
  BY <1>1 DEF Bookkeeping, Calls, Made
<1>4. Indexed' /\ LiveIsIndexed' /\ Remembered'
  BY <1>1 DEF Bookkeeping, Indexed, LiveIsIndexed, Remembered, Made
<1>5. OwnId' /\ FencedKnown' /\ Quiescent'
  BY DEF Bookkeeping, OwnId, FencedKnown, Quiescent, KnownRequest
<1>6. OneTaskPerRequest' /\ FenceHolds' /\ CleanShutdown'
  BY DEF Bookkeeping, OneTaskPerRequest, FenceHolds, CleanShutdown
<1> QED BY <1>2, <1>3, <1>4, <1>5, <1>6 DEF Bookkeeping

LEMMA GoroutineProgress ==
    ASSUME TypeOK, NEW t \in Tasks, Goroutine(t)
    PROVE  /\ \A s \in Tasks : Progress(s) /\ (s # t => task'[s] = task[s])
           /\ UNCHANGED Others /\ task[t].stage # "none"
<1> USE DEF Progress, TypeOK, TaskObjects
<1>1. CASE Enqueue(t)
  BY <1>1 DEF Enqueue
<1>2. CASE Acquire(t)
  BY <1>2 DEF Acquire
<1>3. CASE GiveUp(t)
  BY <1>3 DEF GiveUp
<1>4. CASE PublishGivenUp(t)
  BY <1>4 DEF PublishGivenUp, Published
<1>5. CASE Proceed(t)
  BY <1>5 DEF Proceed, Published
<1>6. ASSUME NEW outcome \in Attempts, AttemptEnds(t, outcome)
      PROVE  /\ \A s \in Tasks : Progress(s) /\ (s # t => task'[s] = task[s])
             /\ UNCHANGED Others /\ task[t].stage # "none"
  BY <1>6 DEF AttemptEnds, Running
<1>7. CASE Finish(t)
  <2>1. FinalEvent(t) # "none"
    BY DEF FinalEvent
  <2> HIDE DEF FinalEvent
  <2> QED BY <1>7, <2>1 DEF Finish, Published
<1>8. CASE Leave(t)
  BY <1>8 DEF Leave
<1>9. CASE Release(t)
  BY <1>9 DEF Release
<1> QED BY <1>1, <1>2, <1>3, <1>4, <1>5, <1>6, <1>7, <1>8, <1>9 DEF Goroutine

LEMMA CancelProgress ==
    ASSUME TypeOK, NEW t, task' = task \/ task' = [task EXCEPT ![t].cancelled = TRUE]
    PROVE  \A s \in Tasks : Progress(s) /\ (s # t => task'[s] = task[s])
<1>1. task \in [Tasks -> TaskObjects]
  BY DEF TypeOK
<1> QED BY <1>1 DEF Progress, TaskObjects

(* pruneExpired forgets neither a task under way nor a valid identity.     *)
LEMMA PruneKeeps ==
    ASSUME TypeOK, Bookkeeping, NEW S, PruneExpired(S)
    PROVE  /\ \A i \in Ids : tasks'[i] \in {0, tasks[i]}
           /\ \A t \in Made : ~Terminal(t) =>
                /\ tasks'[task[t].id] = t
                /\ task[t].id \notin Anonymous => requests'[task[t].id] # None
           /\ \A i \in Ids \ (Anonymous \cup expired) :
                requests'[i] = requests[i] /\ (i \in fences' <=> i \in fences)
<1>1. \A i \in Ids : tasks'[i] \in {0, tasks[i]}
  BY DEF PruneExpired, TypeOK
<1>2. ASSUME NEW t \in Made, ~Terminal(t)
      PROVE  /\ tasks'[task[t].id] = t
             /\ task[t].id \notin Anonymous => requests'[task[t].id] # None
  <2>1. tasks[task[t].id] = t /\ task[t].id \in Ids
    BY <1>2 DEF Bookkeeping, LiveIsIndexed, Objects
  <2>2. task[t].id \notin Anonymous => requests[task[t].id] # None
    BY <1>2 DEF Bookkeeping, LiveIsIndexed
  <2> QED BY <1>2, <2>1, <2>2 DEF PruneExpired
<1>3. ASSUME NEW i \in Ids \ (Anonymous \cup expired)
      PROVE  requests'[i] = requests[i] /\ (i \in fences' <=> i \in fences)
  BY <1>3 DEF PruneExpired, TypeOK
<1> QED BY <1>1, <1>2, <1>3

(* What a call that prunes keeps, whatever it does to its own record.      *)
LEMMA PrunedMaps ==
    ASSUME TypeOK, Bookkeeping, NEW S, PruneExpired(S), \A t \in Tasks : Progress(t),
           \A t \in Tasks : task[t].stage = "none" => task'[t] = task[t],
           UNCHANGED <<created, expired, fenced>>
    PROVE  /\ Made' = Made /\ Objects' /\ Indexed' /\ LiveIsIndexed' /\ Remembered'
           /\ FencedKnown' /\ OneTaskPerRequest' /\ FenceHolds'
<1> USE DEF Progress, Terminal
<1>1. Made' = Made
  BY DEF Made
<1>2. Objects'
  <2>1. \A t \in Made : task'[t].id \in Ids /\ task'[t].key \in Keys /\ task'[t].stage # "none"
    BY DEF Bookkeeping, Objects, Made
  <2>2. \A t \in Tasks \ Made : task'[t] = NoTask
    <3>1. NoTask.stage = "none"
      BY DEF NoTask
    <3> QED BY <3>1 DEF Bookkeeping, Objects
  <2> QED BY <1>1, <2>1, <2>2 DEF Objects
<1>3. Indexed'
  BY <1>1, PruneKeeps DEF Bookkeeping, Indexed, Made
<1>4. LiveIsIndexed'
  BY <1>1, PruneKeeps DEF LiveIsIndexed, Made
<1>5. Remembered'
  <2>1. ASSUME NEW t \in Made, task[t].id \notin Anonymous \cup expired
        PROVE  requests'[task[t].id] # None
    <3>1. task[t].id \in Ids /\ requests[task[t].id] # None
      BY <2>1 DEF Bookkeeping, Objects, Remembered
    <3> QED BY <2>1, <3>1, PruneKeeps
  <2> QED BY <1>1, <2>1 DEF Remembered, Made
<1>6. FencedKnown'
  BY PruneKeeps DEF Bookkeeping, FencedKnown, KnownRequest
<1>7. OneTaskPerRequest' /\ FenceHolds'
  BY DEF Bookkeeping, OneTaskPerRequest, FenceHolds
<1> QED BY <1>1, <1>2, <1>3, <1>4, <1>5, <1>6, <1>7

LEMMA StartCallBookkeeping ==
    ASSUME TypeOK, Bookkeeping, NEW c \in Starts, NEW i \in Ids, NEW k \in Keys,
           NEW S \in SUBSET Ids, StartCall(c, i, k, S)
    PROVE  Bookkeeping'
<1>1. \A t \in Tasks : Progress(t)
  BY DEF StartCall, Progress
<1>2. /\ Made' = Made /\ Objects' /\ Indexed' /\ LiveIsIndexed' /\ Remembered'
      /\ FencedKnown' /\ OneTaskPerRequest' /\ FenceHolds'
  BY <1>1, PrunedMaps DEF StartCall
<1>3. Calls'
  BY <1>2 DEF Bookkeeping, Calls, StartCall, TypeOK
<1>4. OwnId'
  <2>1. start' = [start EXCEPT ![c] = [stage |-> "validated", id |-> i, key |-> k]]
    BY DEF StartCall
  <2>2. \A d \in Starts : start'[d].id = IF d = c THEN i ELSE start[d].id
    BY <2>1 DEF TypeOK
  <2>3. i \in Anonymous => Unused(i)
    BY DEF StartCall
  <2>4. i \notin Anonymous => \A d \in Starts : start[d].id \in Anonymous => start[d].id # i
    OBVIOUS
  <2>5. task' = task
    BY DEF StartCall
  <2> QED BY <2>2, <2>3, <2>4, <2>5 DEF Bookkeeping, OwnId, Unused
<1>5. Quiescent' /\ CleanShutdown'
  BY DEF StartCall, Quiescent, CleanShutdown
<1> QED BY <1>2, <1>3, <1>4, <1>5 DEF Bookkeeping

LEMMA OtherCallsBookkeeping ==
    ASSUME TypeOK, Bookkeeping, NEW S \in SUBSET Ids,
           \/ Subscribe(S)
           \/ \E i \in Ids : Cancel(i, S) \/ \E f \in Fences : FenceCall(f, i, S)
    PROVE  Bookkeeping'
<1>1. \A t \in Tasks : Progress(t)
  <2>1. task' = task \/ \E i \in Ids : task' = [task EXCEPT ![tasks'[i]].cancelled = TRUE]
    BY DEF Subscribe, Cancel, FenceCall
  <2> QED BY <2>1, CancelProgress
<1>2. \A t \in Tasks : task[t].stage = "none" => task'[t] = task[t]
  <2>1. ASSUME NEW t \in Tasks, task[t].stage = "none", task'[t] # task[t] PROVE FALSE
    <3>1. PICK i \in Ids : Cancel(i, S)
      BY <2>1 DEF Subscribe, FenceCall
    <3>2. tasks'[i] = t
      BY <2>1, <3>1 DEF Cancel, TypeOK
    <3>3. PruneExpired(S) /\ t # 0
      BY <3>1, <3>2 DEF Cancel
    <3>4. tasks[i] = t
      BY <3>2, <3>3, PruneKeeps
    <3> QED BY <2>1, <3>3, <3>4 DEF Bookkeeping, Indexed, Objects
  <2> QED BY <2>1
<1>3. PruneExpired(S) /\ UNCHANGED <<created, start, expired, fenced, server>> /\ server = "serving"
  BY DEF Subscribe, Cancel, FenceCall
<1>4. /\ Made' = Made /\ Objects' /\ Indexed' /\ LiveIsIndexed' /\ Remembered'
      /\ FencedKnown' /\ OneTaskPerRequest' /\ FenceHolds'
  BY <1>1, <1>2, <1>3, PrunedMaps
<1>5. Calls'
  <2>1. \A f \in Fences : fence'[f] = fence[f] \/ (fence'[f].stage = "validated" /\ fence'[f].id \in Ids \ Anonymous)
    <3>1. ASSUME NEW g \in Fences, NEW i \in Ids, FenceCall(g, i, S), NEW f \in Fences
          PROVE  fence'[f] = fence[f] \/ (fence'[f].stage = "validated" /\ fence'[f].id \in Ids \ Anonymous)
      BY <3>1 DEF FenceCall, TypeOK
    <3> QED BY <3>1 DEF Subscribe, Cancel
  <2>2. \A t \in Made : task'[t].id = task[t].id
    BY <1>1 DEF Progress, Made
  <2> QED BY <1>3, <1>4, <2>1, <2>2 DEF Bookkeeping, Calls
<1>6. OwnId'
  BY <1>1, <1>3 DEF Bookkeeping, OwnId, Progress
<1>7. Quiescent' /\ CleanShutdown'
  BY <1>3 DEF Quiescent, CleanShutdown
<1> QED BY <1>4, <1>5, <1>6, <1>7 DEF Bookkeeping

(* The second look at the request and the new task.                        *)
LEMMA CommitBookkeeping ==
    ASSUME TypeOK, Bookkeeping, NEW c \in Starts, StartCommit(c)
    PROVE  Bookkeeping'
<1> DEFINE i == start[c].id
           n == created + 1
<1>1. i \in Ids /\ start[c].key \in Keys
  BY DEF StartCommit, Bookkeeping, Calls
<1>2. n \in Tasks /\ created' = n /\ n \notin Made /\ Made' = Made \cup {n}
  BY TasksAssumption DEF StartCommit, TypeOK, Tasks, Made
<1>3. \A t \in Tasks \ {n} : task'[t] = task[t]
  BY DEF StartCommit, TypeOK
<1>4. task'[n].id = i /\ task'[n].key = start[c].key /\ task'[n].stage = "queued" /\ task'[n].event = "none"
  BY <1>2 DEF StartCommit, TypeOK, NoTask
<1>5. \A j \in Ids : tasks'[j] = IF j = i THEN n ELSE tasks[j]
  BY <1>1, <1>2 DEF StartCommit, TypeOK
<1>6. \A j \in Ids : IF j = i /\ i \notin Anonymous THEN requests'[j] # None
                    ELSE requests'[j] = requests[j]
  BY <1>1, TasksAssumption DEF StartCommit, TypeOK
<1>7. UNCHANGED <<fences, fence, expired, fenced, server>>
  BY DEF StartCommit
<1>8. \A d \in Starts : start'[d] = IF d = c THEN IdleStart ELSE start[d]
  BY DEF StartCommit, StartReturns, TypeOK
<1>9. i \notin Anonymous => requests[i] = None /\ i \notin fences
  BY DEF StartCommit, KnownRequest
<1>10. \A t \in Made : task[t].id = i => i \notin Anonymous /\ i \in expired /\ Terminal(t)
  <2>1. ASSUME NEW t \in Made, task[t].id = i PROVE i \notin Anonymous
    BY <1>1, <2>1 DEF Bookkeeping, OwnId, Made
  <2> QED BY <1>9, <2>1 DEF Bookkeeping, Remembered, LiveIsIndexed
<1>11. \A t \in Made : t \in Tasks /\ t # n
  BY <1>2 DEF Made
<1> HIDE DEF i, n
<1>12. Objects'
  BY <1>1, <1>2, <1>3, <1>4, <1>11 DEF Bookkeeping, Objects
<1>13. Calls'
  BY <1>2, <1>3, <1>7, <1>8, <1>11 DEF Bookkeeping, Calls, IdleStart
<1>14. Indexed'
  BY <1>1, <1>2, <1>3, <1>4, <1>5, <1>11 DEF Bookkeeping, Indexed
<1>15. LiveIsIndexed'
  <2>1. ASSUME NEW t \in Made, ~Terminal(t)
        PROVE  /\ tasks'[task[t].id] = t
               /\ task[t].id \notin Anonymous => requests'[task[t].id] # None
    <3>1. task[t].id \in Ids /\ task[t].id # i
      BY <1>10, <2>1 DEF Bookkeeping, Objects
    <3> QED BY <1>5, <1>6, <2>1, <3>1 DEF Bookkeeping, LiveIsIndexed
  <2>2. tasks'[i] = n /\ (i \notin Anonymous => requests'[i] # None)
    BY <1>1, <1>5, <1>6
  <2> QED BY <1>2, <1>3, <1>4, <1>11, <2>1, <2>2 DEF LiveIsIndexed, Terminal
<1>16. Remembered'
  <2>1. ASSUME NEW t \in Made, task[t].id \notin Anonymous \cup expired
        PROVE  requests'[task[t].id] # None
    <3>1. task[t].id \in Ids /\ requests[task[t].id] # None
      BY <2>1 DEF Bookkeeping, Objects, Remembered
    <3> QED BY <1>6, <3>1
  <2>2. i \notin Anonymous => requests'[i] # None
    BY <1>1, <1>6
  <2> QED BY <1>2, <1>3, <1>4, <1>7, <1>11, <2>1, <2>2 DEF Remembered
<1>17. OwnId'
  <2>1. IdleStart.id \notin Anonymous
    BY TasksAssumption DEF IdleStart
  <2>2. \A d \in Starts \ {c} : start[d].id \in Anonymous => start[d].id # i
    BY DEF Bookkeeping, OwnId, i
  <2>3. \A d \in Starts : start[d].id \in Anonymous => start[d].id # IdleStart.id
    BY <2>1
  <2> QED BY <1>3, <1>4, <1>8, <2>1, <2>2, <2>3 DEF Bookkeeping, OwnId
<1>18. FencedKnown'
  BY <1>6, <1>7 DEF Bookkeeping, FencedKnown, KnownRequest
<1>19. Quiescent' /\ CleanShutdown'
  BY <1>7 DEF Bookkeeping, Quiescent, CleanShutdown, StartCommit
<1>20. \A t \in Tasks \ Made : task[t].id = None /\ None \notin Ids
  BY TasksAssumption DEF Bookkeeping, Objects, NoTask
<1>21. OneTaskPerRequest'
  <2>1. ASSUME NEW t \in Tasks, t # n, task[t].id = i PROVE i \in expired
    BY <1>1, <1>10, <1>20, <2>1
  <2> QED BY <1>3, <1>4, <1>7, <2>1 DEF Bookkeeping, OneTaskPerRequest
<1>22. FenceHolds'
  <2>1. i \notin fenced \ expired
    BY <1>9 DEF Bookkeeping, FencedKnown, KnownRequest
  <2> QED BY <1>3, <1>4, <1>7, <2>1 DEF Bookkeeping, FenceHolds, Terminal
<1> QED BY <1>12, <1>13, <1>14, <1>15, <1>16, <1>17, <1>18, <1>19, <1>21, <1>22 DEF Bookkeeping

(* A Start that returns or goes on without a new task.                     *)
LEMMA StartBookkeeping ==
    ASSUME TypeOK, Bookkeeping, NEW c \in Starts, StartLookup(c) \/ StartRefused(c)
    PROVE  Bookkeeping'
<1>1. UNCHANGED <<manager, conversations, task, created, fence, expired, fenced, root, server>>
  BY DEF StartLookup, StartRefused
<1>2. \A d \in Starts : \/ start'[d] = IdleStart
                        \/ start'[d].id = start[d].id /\ start'[d].key = start[d].key
                           /\ (start[d].stage = "idle" => start'[d].stage = "idle")
  BY DEF StartLookup, StartRefused, StartReturns, TypeOK
<1>3. IdleStart.stage = "idle" /\ IdleStart.id = None /\ None \notin Anonymous
  BY TasksAssumption DEF IdleStart
<1>4. Made' = Made
  BY <1>1 DEF Made
<1>5. Objects' /\ Indexed' /\ LiveIsIndexed' /\ Remembered' /\ FencedKnown'
  BY <1>1, <1>4 DEF manager, Bookkeeping, Objects, Indexed, LiveIsIndexed, Remembered, FencedKnown,
                    Terminal, KnownRequest
<1>6. Calls' /\ Quiescent'
  BY <1>1, <1>2, <1>3, <1>4 DEF Bookkeeping, Calls, Quiescent
<1>7. OwnId'
  BY <1>1, <1>2, <1>3 DEF Bookkeeping, OwnId
<1>8. OneTaskPerRequest' /\ FenceHolds' /\ CleanShutdown'
  BY <1>1 DEF Bookkeeping, OneTaskPerRequest, FenceHolds, CleanShutdown, Terminal
<1> QED BY <1>5, <1>6, <1>7, <1>8 DEF Bookkeeping

(* A Fence that returns, with or without its proof.                        *)
LEMMA FenceBookkeeping ==
    ASSUME TypeOK, Bookkeeping, NEW f \in Fences, FenceLookup(f) \/ FenceDone(f) \/ FenceTimeout(f)
    PROVE  Bookkeeping'
<1> DEFINE i == fence[f].id
<1>1. UNCHANGED <<tasks, requests, conversations, task, created, start, expired, root, server>>
  BY DEF FenceLookup, FenceDone, FenceTimeout, manager
<1>2. i \in Ids \ Anonymous
  BY DEF FenceLookup, FenceDone, FenceTimeout, Bookkeeping, Calls
<1>3. Made' = Made
  BY <1>1 DEF Made
<1>4. Objects' /\ Indexed' /\ LiveIsIndexed' /\ Remembered' /\ OwnId' /\ Quiescent'
  BY <1>1, <1>3 DEF Bookkeeping, Objects, Indexed, LiveIsIndexed, Remembered, OwnId, Quiescent, Terminal
<1>5. OneTaskPerRequest' /\ CleanShutdown'
  BY <1>1 DEF Bookkeeping, OneTaskPerRequest, CleanShutdown, Terminal
<1>6. Calls'
  <2>1. \A g \in Fences \ {f} : fence'[g] = fence[g]
    BY DEF FenceLookup, FenceDone, FenceTimeout, TypeOK
  <2>2. \/ fence'[f].stage = "idle"
        \/ fence'[f].stage = "found" /\ fence'[f].id = i /\ fence'[f].task = tasks[i] /\ tasks[i] # 0
    BY DEF FenceLookup, FenceDone, FenceTimeout, TypeOK, IdleFence
  <2>3. tasks[i] # 0 => tasks[i] \in Made /\ task[tasks[i]].id = i
    BY <1>2 DEF Bookkeeping, Indexed
  <2> QED BY <1>1, <1>2, <1>3, <2>1, <2>2, <2>3 DEF Bookkeeping, Calls
<1>7. \/ fenced' = fenced /\ fences' = fences
      \/ /\ fenced' = fenced \cup {i} /\ fences' = fences \cup {i} /\ tasks[i] = 0
      \/ /\ fenced' = fenced \cup {i} /\ fences' = fences
         /\ fence[f].task \in Made /\ task[fence[f].task].id = i /\ Terminal(fence[f].task)
  BY DEF FenceLookup, FenceDone, FenceTimeout, manager, Bookkeeping, Calls
<1> HIDE DEF i
<1>8. i \in fenced' /\ i \notin fenced /\ i \notin expired =>
        (i \in fences' \/ requests[i] # None) /\ \A t \in Tasks : task[t].id = i => Terminal(t)
  <2>1. \A t \in Tasks : task[t].id = i => t \in Made
    BY <1>2, TasksAssumption DEF Bookkeeping, Objects, NoTask
  <2>2. CASE tasks[i] = 0 /\ i \in fences'
    <3>1. ASSUME NEW t \in Tasks, task[t].id = i, ~Terminal(t) PROVE FALSE
      BY <2>1, <2>2, <3>1, TasksNat DEF Bookkeeping, LiveIsIndexed
    <3> QED BY <2>2, <3>1
  <2>3. CASE fence[f].task \in Made /\ task[fence[f].task].id = i /\ Terminal(fence[f].task)
    <3>1. i \notin expired => requests[i] # None
      BY <1>2, <2>3 DEF Bookkeeping, Remembered
    <3>2. i \notin expired => \A t \in Tasks : task[t].id = i => t = fence[f].task
      BY <1>2, <2>3, TasksAssumption DEF Bookkeeping, OneTaskPerRequest, Made
    <3> QED BY <2>3, <3>1, <3>2
  <2> QED BY <1>7, <2>2, <2>3
<1>9. FencedKnown'
  <2>1. ASSUME NEW j \in fenced', j \notin fenced PROVE j = i
    BY <1>7, <2>1
  <2>2. fences \subseteq fences'
    BY <1>7
  <2> QED BY <1>1, <1>2, <1>8, <2>1, <2>2 DEF Bookkeeping, FencedKnown, KnownRequest
<1>10. FenceHolds'
  <2>1. ASSUME NEW j \in fenced', j \notin fenced PROVE j = i
    BY <1>7, <2>1
  <2> QED BY <1>1, <1>8, <2>1 DEF Bookkeeping, FenceHolds, Terminal
<1> QED BY <1>4, <1>5, <1>6, <1>9, <1>10 DEF Bookkeeping

(* Time and the shutdown of the server.                                    *)
LEMMA ServerBookkeeping ==
    ASSUME TypeOK, Bookkeeping,
           (\E i \in Ids : Expire(i)) \/ Shutdown \/ Seal \/ ServeReturns \/ ServeTimeout
    PROVE  Bookkeeping'
<1>1. UNCHANGED <<manager, task, created, start, fence, fenced>> /\ expired \subseteq expired'
  BY DEF Expire, Shutdown, Seal, ServeReturns, ServeTimeout
<1>2. Made' = Made
  BY <1>1 DEF Made
<1>3. Objects' /\ Calls' /\ Indexed' /\ LiveIsIndexed' /\ Remembered' /\ OwnId'
  BY <1>1, <1>2 DEF manager, Bookkeeping, Objects, Calls, Indexed, LiveIsIndexed, Remembered, OwnId, Terminal
<1>4. FencedKnown' /\ OneTaskPerRequest' /\ FenceHolds'
  BY <1>1 DEF manager, Bookkeeping, FencedKnown, OneTaskPerRequest, FenceHolds, Terminal, KnownRequest
<1>5. Quiescent' /\ CleanShutdown'
  <2>1. CASE server' = server
    BY <1>1, <2>1 DEF Bookkeeping, Quiescent, CleanShutdown, Terminal
  <2>2. CASE ServeReturns
    <3>1. \A c \in Starts : start[c].stage = "idle"
      BY <2>2 DEF ServeReturns, Handling
    <3>2. ASSUME NEW t \in Made, ~Terminal(t) PROVE FALSE
      <4>1. task[t].id \in Ids /\ tasks[task[t].id] = t /\ t # 0
        BY <3>2, TasksNat DEF Bookkeeping, LiveIsIndexed, Objects, Made
      <4> QED BY <2>2, <3>2, <4>1 DEF ServeReturns
    <3>3. \A t \in Tasks \ Made : task[t].stage = "none"
      BY DEF Bookkeeping, Objects, NoTask
    <3> QED BY <1>1, <3>1, <3>2, <3>3 DEF Quiescent, CleanShutdown, Terminal
  <2>3. CASE Seal \/ ServeTimeout
    BY <2>3 DEF Seal, ServeTimeout, Quiescent, CleanShutdown
  <2> QED BY <2>1, <2>2, <2>3 DEF Expire, Shutdown
<1> QED BY <1>3, <1>4, <1>5 DEF Bookkeeping

LEMMA NextBookkeeping ==
    ASSUME TypeOK, TypeOK', Bookkeeping, [Next]_vars
    PROVE  Bookkeeping'
<1>1. ASSUME NEW t \in Tasks, Goroutine(t) PROVE Bookkeeping'
  BY <1>1, GoroutineProgress, ProgressBookkeeping DEF Others, manager
<1>2. ASSUME NEW f \in Fences, FenceCancel(f) PROVE Bookkeeping'
  <2>1. \A s \in Tasks : Progress(s) /\ (s # fence[f].task => task'[s] = task[s])
    <3>1. PICK t : t = fence[f].task
      OBVIOUS
    <3>2. task' = [task EXCEPT ![t].cancelled = TRUE]
      BY <1>2, <3>1 DEF FenceCancel
    <3>3. task' = task \/ task' = [task EXCEPT ![t].cancelled = TRUE]
      BY <3>2
    <3>4. \A s \in Tasks : Progress(s) /\ (s # t => task'[s] = task[s])
      BY <3>3, CancelProgress
    <3> QED BY <3>1, <3>4
  <2>2. task[fence[f].task].stage # "none"
    BY <1>2 DEF FenceCancel, Bookkeeping, Calls, Objects
  <2>3. \A g \in Fences : /\ fence'[g].stage # "idle" => fence[g].stage # "idle"
                          /\ fence'[g].id = fence[g].id /\ fence'[g].task = fence[g].task
                          /\ fence'[g].stage \in {"found", "waiting"} => fence[g].stage \in {"found", "waiting"}
    BY <1>2 DEF FenceCancel, TypeOK
  <2> QED BY <1>2, <2>1, <2>2, <2>3, ProgressBookkeeping DEF FenceCancel, manager
<1>3. CASE UNCHANGED vars
  <2>1. \A s \in Tasks : Progress(s)
    BY <1>3 DEF vars, Progress
  <2> QED BY <1>3, <2>1, ProgressBookkeeping DEF vars, manager
<1> QED BY <1>1, <1>2, <1>3, StartCallBookkeeping, CommitBookkeeping, StartBookkeeping,
           OtherCallsBookkeeping, FenceBookkeeping, ServerBookkeeping DEF Next

-----------------------------------------------------------------------------
(* The conversations.                                                      *)

LEMMA InitSerialized ==
    Init => Serialized
<1> SUFFICES ASSUME Init PROVE Serialized
  OBVIOUS
<1>1. \A t \in Tasks : task[t].stage \notin Counted \cup Holding
  BY DEF Init, NoTask, Counted, Holding
<1>2. \A c : Members(c) = {}
  BY <1>1 DEF Members
<1>3. RefsCount
  BY <1>2, FS_EmptySet DEF Init, RefsCount
<1> QED BY <1>1, <1>3 DEF Init, Serialized, Attached, Founded, Needed, Admitted

(* A step that changes no reference.                                       *)
LEMMA SteadySerialized ==
    ASSUME TypeOK, Serialized, \A t \in Tasks : Steady(t), UNCHANGED <<convs, refs>>,
           \A t \in Tasks : task'[t].stage \in Holding => gate'[task[t].conv] = gate[task[t].conv]
    PROVE  Serialized'
<1> USE DEF Steady
<1>1. \A c : Members(c)' = Members(c)
  BY DEF Members
<1>2. RefsCount'
  BY <1>1 DEF Serialized, RefsCount
<1>3. Attached' /\ Needed' /\ Admitted'
  BY DEF Serialized, Attached, Needed, Admitted
<1>4. Founded'
  BY DEF Serialized, Founded, TypeOK
<1> QED BY <1>2, <1>3, <1>4 DEF Serialized

(* A new task has no conversation yet.                                     *)
LEMMA CommitSerialized ==
    ASSUME TypeOK, Bookkeeping, Serialized, NEW c \in Starts, StartCommit(c)
    PROVE  Serialized'
<1>1. created' \in Tasks /\ created' \notin Made
  BY TasksAssumption DEF StartCommit, TypeOK, Tasks, Made
<1>2. task[created'].stage = "none"
  BY <1>1 DEF Bookkeeping, Objects, NoTask
<1>3. \A t \in Tasks \ {created'} : task'[t] = task[t]
  BY DEF StartCommit, TypeOK
<1>4. task'[created'].stage = "queued"
  BY <1>1 DEF StartCommit, TypeOK, NoTask
<1>5. UNCHANGED conversations
  BY DEF StartCommit
<1>6. \A d : Members(d)' = Members(d)
  BY <1>2, <1>3, <1>4 DEF Members, Counted, Holding
<1>7. RefsCount'
  BY <1>5, <1>6 DEF Serialized, RefsCount, conversations
<1>8. Attached' /\ Needed' /\ Admitted'
  BY <1>2, <1>3, <1>4, <1>5 DEF Serialized, Attached, Needed, Admitted, Counted, Holding, conversations
<1>9. Founded'
  BY <1>2, <1>3, <1>5 DEF Serialized, Founded, TypeOK, conversations
<1> QED BY <1>7, <1>8, <1>9 DEF Serialized

(* acquireConversation takes a reference.                                  *)
LEMMA EnqueueSerialized ==
    ASSUME TypeOK, Bookkeeping, Serialized, NEW t \in Tasks, Enqueue(t)
    PROVE  Serialized'
<1>0. task[t].key \in Keys
  BY DEF Enqueue, Bookkeeping, Objects, NoTask
<1>k. PICK k \in Keys : k = task[t].key
  BY <1>0
<1>c. PICK c \in Tasks : c = IF convs[k] = 0 THEN t ELSE convs[k]
  BY DEF TypeOK
<1>1. k \in Keys /\ c \in Tasks /\ c # 0
  BY TasksNat
<1>2. \A s \in Tasks \ {t} : task'[s] = task[s]
  BY DEF Enqueue, TypeOK
<1>3. task'[t].stage = "waiting" /\ task'[t].conv = c /\ task'[t].key = k
  BY <1>k, <1>c DEF Enqueue, TypeOK, TaskObjects
<1>4. convs' = [convs EXCEPT ![k] = c] /\ refs' = [refs EXCEPT ![c] = @ + 1] /\ gate' = gate
  BY <1>k, <1>c DEF Enqueue
<1>5. task[t].stage = "queued"
  BY DEF Enqueue
<1>6. ASSUME NEW l \in Keys PROVE convs'[l] = IF l = k THEN c ELSE convs[l]
  BY <1>1, <1>4 DEF TypeOK
<1>7. \A s \in Tasks : task[s].stage \in Counted => convs'[task[s].key] = task[s].conv
  BY <1>c, <1>6, TasksNat DEF Serialized, Attached
<1>8. Members(c)' = Members(c) \cup {t} /\ t \notin Members(c)
  BY <1>1, <1>2, <1>3, <1>5 DEF Members, Counted, Holding
<1>9. \A d : d # c => Members(d)' = Members(d)
  BY <1>2, <1>3, <1>5 DEF Members, Counted, Holding
<1>10. RefsCount'
  <2>1. Cardinality(Members(c)') = Cardinality(Members(c)) + 1
    BY <1>8, MembersFinite, FS_AddElement
  <2>2. refs'[c] = refs[c] + 1 /\ \A d \in Tasks : d # c => refs'[d] = refs[d]
    BY <1>1, <1>4 DEF TypeOK
  <2> QED BY <1>9, <2>1, <2>2, <1>1 DEF Serialized, RefsCount
<1>11. Attached'
  BY <1>1, <1>2, <1>3, <1>5, <1>6, <1>7 DEF Serialized, Attached
<1>12. Founded'
  <2>1. convs[k] # 0 => task[convs[k]].key = k /\ task[convs[k]].stage \notin {"none", "queued"}
    BY <1>1 DEF Serialized, Founded
  <2>2. task'[c].key = k /\ task'[c].stage \notin {"none", "queued"}
    BY <1>k, <1>c, <1>1, <1>2, <1>3, <1>5, <2>1 DEF TypeOK
  <2>3. ASSUME NEW l \in Keys \ {k}, convs[l] # 0
        PROVE  task'[convs[l]].key = l /\ task'[convs[l]].stage \notin {"none", "queued"}
    BY <1>2, <1>5, <2>3 DEF Serialized, Founded, TypeOK
  <2> QED BY <1>6, <2>2, <2>3 DEF Founded
<1>13. Needed'
  <2>1. refs'[c] # 0
    BY <1>1, <1>4 DEF TypeOK
  <2>2. \A d \in Tasks : refs[d] # 0 => refs'[d] # 0
    BY <1>1, <1>4 DEF TypeOK
  <2> QED BY <1>6, <2>1, <2>2 DEF Serialized, Needed, TypeOK
<1>14. Admitted'
  BY <1>2, <1>3, <1>4 DEF Serialized, Admitted, Holding
<1> QED BY <1>10, <1>11, <1>12, <1>13, <1>14 DEF Serialized

(* releaseConversation gives it back; the last one removes the object.     *)
LEMMA ReleaseSerialized ==
    ASSUME TypeOK, Bookkeeping, Serialized, NEW t \in Tasks, GiveUp(t) \/ Release(t)
    PROVE  Serialized'
<1>c. PICK c : c = task[t].conv
  OBVIOUS
<1>k. PICK k : k = task[t].key
  OBVIOUS
<1>1. task[t].stage \in Counted \ Holding
  BY DEF GiveUp, Release, Counted, Holding
<1>2. c \in Tasks /\ k \in Keys /\ convs[k] = c /\ c # 0 /\ refs[c] \in Nat \ {0}
  BY <1>c, <1>k, <1>1, CountedPositive, TasksNat DEF Serialized, Attached
<1>3. \A s \in Tasks \ {t} : task'[s] = task[s]
  BY DEF GiveUp, Release, TypeOK
<1>4. task'[t].stage \in {"givenUp", "ended"} /\ task'[t].key = k
  BY <1>k DEF GiveUp, Release, TypeOK, TaskObjects
<1>5. /\ refs' = [refs EXCEPT ![c] = @ - 1] /\ gate' = gate
      /\ convs' = IF refs[c] = 1 THEN [convs EXCEPT ![k] = 0] ELSE convs
  BY <1>c, <1>k, <1>2 DEF GiveUp, Release, ReleaseConversation
<1>6. Members(c)' = Members(c) \ {t} /\ t \in Members(c)
  BY <1>c, <1>1, <1>3, <1>4 DEF Members, Counted, Holding
<1>7. \A d : d # c => Members(d)' = Members(d)
  BY <1>c, <1>1, <1>3, <1>4 DEF Members, Counted, Holding
<1>8. Cardinality(Members(c)') = refs[c] - 1 /\ IsFiniteSet(Members(c)')
  BY <1>2, <1>6, MembersFinite, FS_RemoveElement DEF Serialized, RefsCount
<1>9. refs'[c] = refs[c] - 1 /\ \A d \in Tasks : d # c => refs'[d] = refs[d]
  BY <1>2, <1>5 DEF TypeOK
<1>10. RefsCount'
  BY <1>2, <1>7, <1>8, <1>9 DEF Serialized, RefsCount
<1>11. refs[c] = 1 => Members(c)' = {}
  BY <1>2, <1>8, FS_EmptySet
<1>12. \A s \in Tasks : task'[s].stage \in Counted => s # t /\ task[s].stage \in Counted
  BY <1>3, <1>4 DEF Counted, Holding
<1>13. \A l \in Keys \ {k} : convs'[l] = convs[l]
  BY <1>2, <1>5 DEF TypeOK
<1>14. Attached'
  <2>1. ASSUME NEW s \in Tasks, task'[s].stage \in Counted
        PROVE  task[s].key \in Keys /\ task[s].conv \in Tasks /\ convs'[task[s].key] = task[s].conv
    <3>1. task[s].key \in Keys /\ task[s].conv \in Tasks /\ convs[task[s].key] = task[s].conv
      BY <1>12, <2>1 DEF Serialized, Attached
    <3>2. CASE task[s].key = k
      <4>1. s \in Members(c)'
        BY <1>2, <1>3, <1>12, <2>1, <3>1, <3>2 DEF Members
      <4> QED BY <1>5, <1>11, <3>1, <4>1
    <3>3. CASE task[s].key # k
      BY <1>13, <3>1, <3>3
    <3> QED BY <3>2, <3>3
  <2> QED BY <1>3, <1>12, <2>1 DEF Attached
<1>15. \A l \in Keys : convs'[l] # 0 => convs'[l] = convs[l]
  BY <1>2, <1>5 DEF TypeOK
<1>16. Founded'
  <2>1. \A s \in Tasks : task'[s].key = task[s].key
                        /\ (task[s].stage \notin {"none", "queued"} => task'[s].stage \notin {"none", "queued"})
    BY <1>k, <1>3, <1>4
  <2>2. \A l \in Keys : convs[l] \in Tasks \cup {0}
    BY DEF TypeOK
  <2> QED BY <1>15, <2>1, <2>2 DEF Serialized, Founded
<1>17. Needed'
  <2>1. ASSUME NEW l \in Keys, convs'[l] # 0 PROVE refs'[convs'[l]] # 0
    <3>1. CASE l = k
      BY <1>2, <1>5, <1>9, <2>1, <3>1 DEF TypeOK
    <3>2. CASE l # k
      <4>1. convs[l] # c /\ convs[l] \in Tasks
        BY <1>2, <1>13, <2>1, <3>2 DEF Serialized, Founded, TypeOK
      <4> QED BY <1>9, <1>13, <2>1, <3>2, <4>1 DEF Serialized, Needed
    <3> QED BY <3>1, <3>2
  <2> QED BY <2>1 DEF Needed
<1>18. Admitted'
  BY <1>3, <1>4, <1>5 DEF Serialized, Admitted, Holding
<1> QED BY <1>10, <1>14, <1>16, <1>17, <1>18 DEF Serialized

(* The gate lets one task in.                                              *)
LEMMA GateSerialized ==
    ASSUME TypeOK, Bookkeeping, Serialized, NEW t \in Tasks, Acquire(t) \/ Leave(t)
    PROVE  Serialized'
<1>1. task[t].stage \in Counted /\ task[t].conv \in Tasks
  BY DEF Acquire, Leave, Serialized, Attached, Counted, Holding
<1>2. \A s \in Tasks \ {t} : task'[s] = task[s]
  BY DEF Acquire, Leave, TypeOK
<1>3. task'[t].key = task[t].key /\ task'[t].conv = task[t].conv /\ task'[t].stage \in {"acquired", "leaving"}
  BY DEF Acquire, Leave, TypeOK, TaskObjects
<1>4. UNCHANGED <<convs, refs>>
  BY DEF Acquire, Leave
<1>5. \A c : Members(c)' = Members(c)
  BY <1>1, <1>2, <1>3 DEF Members, Counted, Holding
<1>6. RefsCount'
  BY <1>4, <1>5 DEF Serialized, RefsCount
<1>7. Attached' /\ Needed'
  BY <1>1, <1>2, <1>3, <1>4 DEF Serialized, Attached, Needed
<1>8. Founded'
  BY <1>2, <1>3, <1>4 DEF Serialized, Founded, TypeOK
<1>9. Admitted'
  <2>1. CASE Acquire(t)
    <3>1. gate[task[t].conv] = 0 /\ gate' = [gate EXCEPT ![task[t].conv] = t]
      BY <2>1 DEF Acquire
    <3>2. ASSUME NEW s \in Tasks, s # t, task[s].stage \in Holding
          PROVE  task[s].conv # task[t].conv /\ gate[task[s].conv] = s
      BY <3>1, <3>2, TasksNat DEF Serialized, Admitted
    <3> QED BY <1>1, <1>2, <1>3, <3>1, <3>2 DEF Admitted, TypeOK
  <2>2. CASE Leave(t)
    <3>1. gate[task[t].conv] = t /\ gate' = [gate EXCEPT ![task[t].conv] = 0] /\ task'[t].stage = "leaving"
      BY <2>2 DEF Leave, Serialized, Admitted, Holding, TypeOK
    <3>2. ASSUME NEW s \in Tasks, s # t, task[s].stage \in Holding
          PROVE  task[s].conv # task[t].conv /\ gate[task[s].conv] = s
      BY <3>1, <3>2 DEF Serialized, Admitted
    <3> QED BY <1>1, <1>2, <1>3, <3>1, <3>2 DEF Admitted, TypeOK, Holding
  <2> QED BY <2>1, <2>2
<1> QED BY <1>6, <1>7, <1>8, <1>9 DEF Serialized

(* Within a run and outside of it nothing else changes.                    *)
LEMMA RunSteady ==
    ASSUME TypeOK, NEW t \in Tasks,
           \/ PublishGivenUp(t) \/ Proceed(t) \/ Finish(t)
           \/ \E outcome \in Attempts : AttemptEnds(t, outcome)
    PROVE  (\A s \in Tasks : Steady(s)) /\ UNCHANGED conversations
<1> USE DEF Steady, TypeOK, TaskObjects, Counted, Holding
<1>1. CASE PublishGivenUp(t)
  BY <1>1 DEF PublishGivenUp, Published
<1>2. CASE Proceed(t)
  BY <1>2 DEF Proceed, Published
<1>3. CASE Finish(t)
  <2> HIDE DEF FinalEvent
  <2> QED BY <1>3 DEF Finish, Published
<1>4. ASSUME NEW outcome \in Attempts, AttemptEnds(t, outcome)
      PROVE  (\A s \in Tasks : Steady(s)) /\ UNCHANGED conversations
  <2>0. UNCHANGED conversations /\ task[t].stage = "running" /\ task \in [Tasks -> TaskObjects]
    BY <1>4 DEF AttemptEnds, Running
  <2>1. CASE task' = [task EXCEPT ![t].retried = TRUE]
    <3> HIDE DEF TypeOK
    <3> QED BY <2>0, <2>1
  <2>2. CASE task' = [task EXCEPT ![t].stage = "finishing", ![t].outcome = outcome]
    <3> HIDE DEF TypeOK
    <3> QED BY <2>0, <2>2
  <2> QED BY <1>4, <2>1, <2>2 DEF AttemptEnds
<1> QED BY <1>1, <1>2, <1>3, <1>4

LEMMA CancelSteady ==
    ASSUME TypeOK, NEW t, task' = task \/ task' = [task EXCEPT ![t].cancelled = TRUE]
    PROVE  \A s \in Tasks : Steady(s)
<1>1. task \in [Tasks -> TaskObjects]
  BY DEF TypeOK
<1> QED BY <1>1 DEF Steady, TaskObjects

LEMMA NextSerialized ==
    ASSUME TypeOK, Bookkeeping, Serialized, [Next]_vars
    PROVE  Serialized'
<1>1. ASSUME NEW t \in Tasks, Goroutine(t) PROVE Serialized'
  <2>1. ASSUME \/ PublishGivenUp(t) \/ Proceed(t) \/ Finish(t)
               \/ \E outcome \in Attempts : AttemptEnds(t, outcome)
        PROVE  Serialized'
    BY <2>1, RunSteady, SteadySerialized DEF conversations
  <2> QED BY <1>1, <2>1, EnqueueSerialized, ReleaseSerialized, GateSerialized DEF Goroutine
<1>2. ASSUME UNCHANGED conversations, NEW t, task' = task \/ task' = [task EXCEPT ![t].cancelled = TRUE]
      PROVE  Serialized'
  BY <1>2, CancelSteady, SteadySerialized DEF conversations
<1>3. ASSUME \/ \E c \in Starts, i \in Ids, k \in Keys, S \in SUBSET Ids : StartCall(c, i, k, S)
             \/ \E c \in Starts : StartLookup(c) \/ StartRefused(c)
             \/ \E i \in Ids : Expire(i)
             \/ \E S \in SUBSET Ids : Subscribe(S)
             \/ \E f \in Fences, i \in Ids, S \in SUBSET Ids : FenceCall(f, i, S)
             \/ \E f \in Fences : FenceLookup(f) \/ FenceDone(f) \/ FenceTimeout(f)
             \/ Shutdown \/ Seal \/ ServeReturns \/ ServeTimeout
             \/ UNCHANGED vars
      PROVE  Serialized'
  <2>1. UNCHANGED conversations /\ task' = task
    BY <1>3 DEF StartCall, StartLookup, StartRefused, Expire, Subscribe, FenceCall, FenceLookup,
                FenceDone, FenceTimeout, Shutdown, Seal, ServeReturns, ServeTimeout, vars
  <2> QED BY <1>2, <2>1
<1>4. ASSUME NEW i \in Ids, NEW S \in SUBSET Ids, Cancel(i, S) PROVE Serialized'
  BY <1>2, <1>4 DEF Cancel
<1>5. ASSUME NEW f \in Fences, FenceCancel(f) PROVE Serialized'
  BY <1>2, <1>5 DEF FenceCancel
<1> QED BY <1>1, <1>3, <1>4, <1>5, CommitSerialized DEF Next

-----------------------------------------------------------------------------
(* The theorems.                                                           *)

(* The inductive invariant.                                                *)
Inv == TypeOK /\ Bookkeeping /\ Serialized

LEMMA InvHolds ==
    Spec => []Inv
<1>1. Init => Inv
  BY InitType, InitBookkeeping, InitSerialized DEF Inv
<1>2. Inv /\ [Next]_vars => Inv'
  BY NextType, NextBookkeeping, NextSerialized DEF Inv
<1> QED BY <1>1, <1>2, PTL DEF Spec

(* The manager's maps, the conversation objects, the task objects and the  *)
(* calls under way keep their types; refs never falls below zero, although *)
(* releaseConversation decrements it without looking.                      *)
THEOREM TypeCorrect ==
    Spec => []TypeOK
<1>1. Inv => TypeOK
  BY DEF Inv
<1> QED BY <1>1, InvHolds, PTL

(* A valid request identity starts one task: the second look at m.requests *)
(* and the new task are one critical section of Start, and pruneExpired    *)
(* forgets no valid identity.                                              *)
THEOREM OneTaskPerRequestHolds ==
    Spec => []OneTaskPerRequest
<1>1. Inv => OneTaskPerRequest
  BY DEF Inv, Bookkeeping
<1> QED BY <1>1, InvHolds, PTL

(* What Fence answered stays true while the identity is valid: no task of  *)
(* it is under way, none will start.                                       *)
THEOREM FenceHoldsAlways ==
    Spec => []FenceHolds
<1>1. Inv => FenceHolds
  BY DEF Inv, Bookkeeping
<1> QED BY <1>1, InvHolds, PTL

(* A server that returns without an error leaves no task without its       *)
(* terminal event.                                                         *)
THEOREM CleanShutdownHolds ==
    Spec => []CleanShutdown
<1>1. Inv => CleanShutdown
  BY DEF Inv, Bookkeeping
<1> QED BY <1>1, InvHolds, PTL

(* The gates serialize the tasks of a conversation, although the object    *)
(* that has the gate is deleted and made again.                            *)
THEOREM OneRunPerConversationHolds ==
    Spec => []OneRunPerConversation
<1>1. Inv => OneRunPerConversation
  <2> SUFFICES ASSUME Inv, NEW s \in Tasks, NEW t \in Tasks, s # t, task[s].key = task[t].key,
                      task[s].stage \in Holding, task[t].stage \in Holding
               PROVE  FALSE
    BY DEF OneRunPerConversation
  <2>1. task[s].conv = task[t].conv
    BY DEF Inv, Serialized, Attached, Counted
  <2> QED BY <2>1 DEF Inv, Serialized, Admitted
<1> QED BY <1>1, InvHolds, PTL

(* releaseConversation removes a conversation with its last task: the refs *)
(* count its tasks exactly.                                                *)
THEOREM ConversationsReclaimedHolds ==
    Spec => []ConversationsReclaimed
<1>1. Inv => ConversationsReclaimed
  <2> SUFFICES ASSUME Inv, NEW k \in Keys, convs[k] # 0
               PROVE  \E t \in Tasks : task[t].stage \in Counted /\ task[t].conv = convs[k]
    BY DEF ConversationsReclaimed
  <2>1. convs[k] \in Tasks /\ refs[convs[k]] # 0
    BY DEF Inv, TypeOK, Serialized, Needed
  <2>2. Members(convs[k]) # {}
    BY <2>1, FS_EmptySet DEF Inv, Serialized, RefsCount
  <2> QED BY <2>2 DEF Members
<1> QED BY <1>1, InvHolds, PTL

=============================================================================
