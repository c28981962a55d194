-------------------------- MODULE MessageRouterProofs --------------------------
(***************************************************************************)
(* What the router guarantees for the messages of one conversation, for    *)
(* every set of messages and every number of deliveries, disposals,        *)
(* crashes, failed writes and lost answers.                                *)
(***************************************************************************)
EXTENDS MessageRouter, FiniteSetTheorems, SequenceTheorems, TLAPS

-----------------------------------------------------------------------------
(* The inductive invariant.                                                *)

HandlerRecords ==
    [at : Stages, of : Messages \cup {0}, generation : 0..(2 * MaxDisposal),
     answer : {"none", "claimed", "duplicate", "failed", "accepted"}, target : Handlers \cup {0}]
Lanes == [holder : Handlers \cup {0}, queue : Seq(Handlers)]

Stores == [Messages -> [state : {"none", "claimed", "admitted"}, owner : Handlers \cup {0}]]
Disposals == [at : {"none", "cancelling", "sending", "returned"}, target : Handlers \cup {0}, count : 0..MaxDisposal]
PlainStages == {"preparing", "checked", "starting", "restarting", "withdrawing", "consuming", "answering"}

(* A handler that was not delivered is idle, and only a handler of a plain *)
(* message takes the steps of #runPlain.                                   *)
HandlerShape ==
    /\ delivered \in 0..MaxDelivery
    /\ handler \in [Handlers -> HandlerRecords]
    /\ lane \in Lanes
    /\ \A h \in Handlers :
          /\ handler[h].at = "idle" <=> h > delivered
          /\ handler[h].at \notin {"idle", "done"} => handler[h].of \in Messages
          /\ handler[h].at \in PlainStages => handler[h].of \in Plain
          /\ handler[h].at = "queued" => handler[h].of \notin Stops

(* A binding is activated once for each of its disposals, which bounds the *)
(* generations.                                                            *)
GateShape ==
    /\ generation \in 0..(2 * MaxDisposal) /\ disposal \in Disposals /\ closed \in BOOLEAN
    /\ generation + (IF disposed THEN 1 ELSE 0) <= 2 * disposal.count
    /\ disposal.at # "cancelling" => disposal.target = 0

StoreShape == memory \in Stores /\ file \in Stores /\ faults \in 0..MaxFault

TaskShape ==
    /\ active \in Handlers \cup {0}
    /\ task \in [Handlers -> {"none", "running", "stopping", "over"}]
    /\ adrift \subseteq Handlers

Working(h) ==
    handler[h].of \in Messages \ Stops /\ handler[h].at \notin {"idle", "queued", "refusing", "done"}

(* Whoever works on the conversation holds its lane; whoever waits for the *)
(* lane is queued, once.                                                   *)
LaneSound ==
    /\ \A h \in Handlers : Working(h) => lane.holder = h
    /\ \A i \in 1..Len(lane.queue) : handler[lane.queue[i]].at = "queued"
    /\ \A i, j \in 1..Len(lane.queue) : lane.queue[i] = lane.queue[j] => i = j

(* The handler has claimed its message and does not know it acted on it.   *)
Holds(h) ==
    \/ handler[h].at = "claiming" /\ handler[h].answer = "claimed"
    \/ handler[h].at \in {"preparing", "checked", "starting", "restarting", "checking", "acting"}
    \/ handler[h].at = "responding" /\ Reading(h)

(* A message whose handler learned of its act keeps a claim in memory and  *)
(* in the file; so does one that a handler may still act on, and it is     *)
(* that handler's.                                                         *)
ClaimSound ==
    /\ \A m \in answered : memory[m].state # "none" /\ file[m].state # "none"
    /\ \A h \in Handlers : Holds(h) =>
          /\ memory[handler[h].of] = [state |-> "claimed", owner |-> h]
          /\ file[handler[h].of].state # "none"
          /\ handler[h].of \notin answered
    /\ crashes = 0 /\ faults = 0 =>
          \A m \in Messages : memory[m].state # "none" =>
              m \in answered \/ \E h \in Handlers : memory[m].owner = h /\ Holds(h) /\ handler[h].of = m

(* A task that runs has a handler that is current, which a disposal would  *)
(* find active, or that is about to cancel it; or else a disposal is about *)
(* to, or a cancel failed.                                                 *)
Attended(h) ==
    \/ h \in adrift \cup {disposal.target}
    \/ handler[h].at = "withdrawing"
    \/ /\ Current(h) /\ active = h
       /\ handler[h].of \in Plain /\ handler[h].at \in {"admitting", "receipting", "consuming"}

TaskSound == \A h \in Handlers : task[h] = "running" => Attended(h)

CountShape ==
    acts \in [Messages -> Nat] /\ answered \subseteq Messages /\ losses \in 0..MaxLost /\ crashes \in 0..MaxCrash

Inv ==
    /\ HandlerShape /\ GateShape /\ StoreShape /\ TaskShape /\ CountShape
    /\ LaneSound /\ ClaimSound /\ TaskSound

LEMMA ShapeTypes == Inv => TypeOK
<1> SUFFICES ASSUME Inv PROVE TypeOK
  OBVIOUS
<1>1. lane.holder \in Handlers \cup {0} /\ lane.queue \in Seq(Handlers)
  BY DEF Inv, HandlerShape, Lanes
<1>2. {memory, file} \subseteq Stores
  BY DEF Inv, StoreShape
<1> QED BY <1>1, <1>2
    DEF Inv, TypeOK, HandlerShape, GateShape, StoreShape, TaskShape, CountShape, HandlerRecords, Stores, Disposals

-----------------------------------------------------------------------------
(* What a step does to its handler, and to the lane.                       *)

Others(h) == \A k \in Handlers \ {h} : handler'[k] = handler[k]

Leaves(h) ==
    /\ handler'[h].at = "done" /\ handler'[h] \in HandlerRecords
    /\ lane' = IF lane.holder = h THEN [lane EXCEPT !.holder = 0] ELSE lane

Moves(h) ==
    /\ handler'[h] \in HandlerRecords
    /\ handler'[h].at \notin {"idle", "queued", "refusing", "done"} /\ handler[h].at # "refusing"
    /\ handler'[h].of = handler[h].of /\ handler'[h].generation = handler[h].generation
    /\ handler'[h].at \in PlainStages => handler[h].of \in Plain
    /\ lane' = lane

StepOf(h) ==
    /\ handler[h].at \notin {"idle", "queued", "done"}
    /\ handler' = [handler EXCEPT ![h] = handler'[h]]
    /\ delivered' = delivered
    /\ Leaves(h) \/ Moves(h)

LEMMA LaneLeft ==
    ASSUME lane \in Lanes, NEW h
    PROVE  LET l == IF lane.holder = h THEN [lane EXCEPT !.holder = 0] ELSE lane
           IN  l \in Lanes /\ l.queue = lane.queue /\ l.holder = IF lane.holder = h THEN 0 ELSE lane.holder
  BY DEF Lanes

LEMMA StepShape ==
    ASSUME HandlerShape, LaneSound, NEW h \in Handlers, StepOf(h)
    PROVE  HandlerShape' /\ LaneSound' /\ Others(h)
<1>1. handler \in [Handlers -> HandlerRecords] /\ handler'[h] \in HandlerRecords
  BY DEF HandlerShape, StepOf, Leaves, Moves
<1>2. handler' \in [Handlers -> HandlerRecords] /\ Others(h)
  BY <1>1 DEF StepOf, Others
<1>3. /\ lane' \in Lanes /\ lane'.queue = lane.queue
      /\ lane'.holder = lane.holder \/ (handler'[h].at = "done" /\ lane.holder = h)
  <2>1. CASE Leaves(h)
    BY <2>1, LaneLeft DEF HandlerShape, Leaves
  <2>2. CASE Moves(h)
    BY <2>2 DEF HandlerShape, Moves
  <2> QED BY <2>1, <2>2 DEF StepOf
<1>4. /\ handler'[h].at \notin {"idle", "queued"}
      /\ handler'[h].at = "done" \/ (handler'[h].of = handler[h].of /\ handler[h].at # "refusing")
      /\ handler'[h].at \in PlainStages => handler'[h].of \in Plain
  BY DEF StepOf, Leaves, Moves, PlainStages
<1>5. HandlerShape'
  <2>1. ASSUME NEW k \in Handlers
        PROVE  /\ handler'[k].at = "idle" <=> k > delivered
               /\ handler'[k].at \notin {"idle", "done"} => handler'[k].of \in Messages
               /\ handler'[k].at \in PlainStages => handler'[k].of \in Plain
               /\ handler'[k].at = "queued" => handler'[k].of \notin Stops
    <3>1. CASE k = h
      BY <1>4, <3>1 DEF HandlerShape, StepOf
    <3>2. CASE k # h
      BY <1>2, <3>2 DEF HandlerShape, Others
    <3> QED BY <3>1, <3>2
  <2> QED BY <1>2, <1>3, <2>1 DEF HandlerShape, StepOf
<1>6. ASSUME NEW k \in Handlers, Working(k)' PROVE lane'.holder = k
  <2>1. CASE k = h
    <3>1. Working(h)
      BY <1>4, <1>6, <2>1 DEF Working, StepOf
    <3> QED BY <1>3, <1>6, <2>1, <3>1 DEF LaneSound, Working
  <2>2. CASE k # h
    BY <1>2, <1>3, <1>6, <2>2 DEF LaneSound, Others, Working
  <2> QED BY <2>1, <2>2
<1>7. \A i \in 1..Len(lane.queue) : handler'[lane.queue[i]].at = "queued"
  <2>1. \A i \in 1..Len(lane.queue) : lane.queue[i] \in Handlers
    BY DEF HandlerShape, Lanes
  <2> QED BY <1>2, <2>1 DEF LaneSound, Others, StepOf
<1> QED BY <1>2, <1>3, <1>5, <1>6, <1>7 DEF LaneSound

LEMMA Continued ==
    ASSUME HandlerShape, NEW h \in Handlers, NEW stage \in Stages \ {"idle", "queued", "refusing", "done"},
           handler[h].at \notin {"idle", "queued", "refusing", "done"},
           stage \in PlainStages => handler[h].of \in Plain,
           Continue(h, stage), delivered' = delivered
    PROVE  /\ StepOf(h) /\ handler'[h].at = stage /\ handler'[h].of = handler[h].of
           /\ handler'[h].generation = handler[h].generation /\ handler'[h].target = handler[h].target
           /\ handler'[h].answer = handler[h].answer
<1> DEFINE x == [handler[h] EXCEPT !.at = stage]
<1>1. handler[h] \in HandlerRecords
  BY DEF HandlerShape
<1>2. /\ x \in HandlerRecords /\ x.at = stage /\ x.of = handler[h].of /\ x.generation = handler[h].generation
      /\ x.target = handler[h].target /\ x.answer = handler[h].answer
  BY <1>1 DEF HandlerRecords
<1>3. handler' = [handler EXCEPT ![h] = x] /\ lane' = lane
  BY DEF Continue, At
<1> HIDE DEF x
<1>4. handler'[h] = x
  BY <1>3 DEF HandlerShape
<1> QED BY <1>2, <1>3, <1>4 DEF StepOf, Moves

LEMMA GoneTypes ==
    ASSUME HandlerShape, NEW h \in Handlers
    PROVE  Gone(h) \in HandlerRecords /\ Gone(h).at = "done"
<1>1. handler[h].answer \in {"none", "claimed", "duplicate", "failed", "accepted"}
  BY DEF HandlerShape, HandlerRecords
<1>2. Idle \in HandlerRecords /\ Idle.answer = "none"
  BY RouterAssumption DEF Idle, HandlerRecords, Stages
<1> QED BY <1>1, <1>2 DEF Gone, HandlerRecords, Stages

LEMMA Returned ==
    ASSUME HandlerShape, NEW h \in Handlers, handler[h].at \notin {"idle", "queued", "done"},
           Return(h), delivered' = delivered
    PROVE  StepOf(h) /\ handler'[h].at = "done"
<1>1. handler' = [handler EXCEPT ![h] = Gone(h)]
  BY DEF Return
<1>2. handler'[h] = Gone(h)
  BY <1>1 DEF HandlerShape
<1> QED BY <1>1, <1>2, GoneTypes DEF StepOf, Leaves, Return

-----------------------------------------------------------------------------
(* What the state store does, and what becomes of the claims.              *)

LEMMA Written ==
    ASSUME StoreShape, NEW new \in Stores, NEW ok \in BOOLEAN, Write(new, ok)
    PROVE  /\ StoreShape' /\ memory' = (IF ok THEN new ELSE memory)
           /\ file' \in {file, new} /\ (ok => file' = new)
           /\ faults' = 0 => ok /\ faults = 0
<1>1. CASE ok
  BY <1>1 DEF Write, StoreShape
<1>2. CASE ~ok
  BY <1>2, RouterAssumption DEF Write, StoreShape
<1> QED BY <1>1, <1>2

LEMMA HeldMessage ==
    ASSUME HandlerShape, NEW h \in Handlers, Holds(h)
    PROVE  handler[h].of \in Messages
  BY DEF HandlerShape, Holds

(* A step that leaves the claims alone.                                    *)
LEMMA ClaimsIdle ==
    ASSUME ClaimSound, NEW h \in Handlers, Others(h), UNCHANGED <<store, answered, crashes>>,
           Holds(h)' <=> Holds(h), Holds(h) => handler'[h].of = handler[h].of
    PROVE  ClaimSound'
<1>1. \A k \in Handlers : (Holds(k)' <=> Holds(k)) /\ (Holds(k) => handler'[k].of = handler[k].of)
  BY DEF Others, Holds, Reading
<1> QED BY <1>1 DEF ClaimSound, store

(* The handler gives its claim back.                                       *)
LEMMA ClaimGiven ==
    ASSUME HandlerShape, StoreShape, CountShape, ClaimSound, NEW h \in Handlers, Others(h), Holds(h), ~Holds(h)',
           NEW ok \in BOOLEAN, Released(h, ok), UNCHANGED <<answered, crashes>>
    PROVE  StoreShape' /\ ClaimSound'
<1> DEFINE m == handler[h].of
           new == [memory EXCEPT ![m] = Free]
<1>1. m \in Messages /\ memory[m] = [state |-> "claimed", owner |-> h] /\ m \notin answered
  BY HeldMessage DEF ClaimSound
<1>2. Write(new, ok)
  BY <1>1 DEF Released, Own
<1>3. Free \in [state : {"none", "claimed", "admitted"}, owner : Handlers \cup {0}] /\ Free.state = "none"
  BY DEF Free
<1>4. new \in Stores /\ new[m].state = "none" /\ \A k \in Messages \ {m} : new[k] = memory[k]
  BY <1>1, <1>3 DEF StoreShape, Stores
<1> HIDE DEF m, new
<1>5. /\ StoreShape' /\ memory' = (IF ok THEN new ELSE memory) /\ file' \in {file, new}
      /\ faults' = 0 => ok /\ faults = 0
  BY <1>2, <1>4, Written
<1>6. \A k \in Messages \ {m} : memory'[k] = memory[k] /\ (file'[k] = file[k] \/ file'[k] = memory[k])
  BY <1>4, <1>5
<1>7. \A k \in Handlers \ {h} : (Holds(k)' <=> Holds(k)) /\ handler'[k].of = handler[k].of
  BY DEF Others, Holds, Reading
<1>8. \A k \in Handlers : Holds(k)' => k # h /\ Holds(k) /\ handler[k].of \in Messages \ {m} /\ handler'[k].of = handler[k].of
  <2> SUFFICES ASSUME NEW k \in Handlers, Holds(k)'
               PROVE  k # h /\ Holds(k) /\ handler[k].of \in Messages \ {m} /\ handler'[k].of = handler[k].of
    OBVIOUS
  <2>1. k # h /\ Holds(k) /\ handler'[k].of = handler[k].of
    BY <1>7
  <2>2. memory[handler[k].of] = [state |-> "claimed", owner |-> k] /\ handler[k].of \in Messages
    BY <2>1, HeldMessage DEF ClaimSound
  <2> QED BY <1>1, <2>1, <2>2
<1>9. \A k \in answered : memory'[k].state # "none" /\ file'[k].state # "none"
  BY <1>1, <1>6 DEF ClaimSound, CountShape
<1>10. \A k \in Handlers : Holds(k)' =>
          /\ memory'[handler'[k].of] = [state |-> "claimed", owner |-> k]
          /\ file'[handler'[k].of].state # "none" /\ handler'[k].of \notin answered
  BY <1>6, <1>8 DEF ClaimSound
<1>11. ASSUME crashes = 0, faults' = 0, NEW k \in Messages, memory'[k].state # "none", k \notin answered
       PROVE  \E g \in Handlers : memory'[k].owner = g /\ Holds(g)' /\ handler'[g].of = k
  <2>1. k # m /\ memory'[k] = memory[k] /\ faults = 0
    BY <1>4, <1>5, <1>6, <1>11
  <2>2. PICK g \in Handlers : memory[k].owner = g /\ Holds(g) /\ handler[g].of = k
    BY <1>11, <2>1 DEF ClaimSound
  <2>3. g # h
    BY <2>1, <2>2 DEF m
  <2> QED BY <1>7, <2>1, <2>2, <2>3
<1> QED BY <1>5, <1>9, <1>10, <1>11 DEF ClaimSound

(* The handler acts on its message, and may then call admitMessage.        *)
LEMMA ClaimSpent ==
    ASSUME HandlerShape, StoreShape, CountShape, ClaimSound, NEW h \in Handlers, Others(h), Holds(h), ~Holds(h)',
           NEW ok \in BOOLEAN, Admitted(h, ok) \/ UNCHANGED store, Act(h), UNCHANGED crashes
    PROVE  StoreShape' /\ CountShape' /\ ClaimSound'
<1> DEFINE m == handler[h].of
           new == [memory EXCEPT ![m].state = "admitted"]
<1>1. m \in Messages /\ memory[m] = [state |-> "claimed", owner |-> h] /\ file[m].state # "none"
  BY HeldMessage DEF ClaimSound
<1>2. CountShape' /\ answered' = answered \cup {m}
  BY <1>1 DEF Act, Run, CountShape
<1>3. new \in Stores /\ new[m].state = "admitted" /\ \A k \in Messages \ {m} : new[k] = memory[k]
  <2>1. [memory[m] EXCEPT !.state = "admitted"] \in [state : {"none", "claimed", "admitted"}, owner : Handlers \cup {0}]
        /\ [memory[m] EXCEPT !.state = "admitted"].state = "admitted"
    BY <1>1
  <2>2. new = [memory EXCEPT ![m] = [memory[m] EXCEPT !.state = "admitted"]]
    BY <1>1 DEF StoreShape, Stores
  <2> QED BY <1>1, <2>1, <2>2 DEF StoreShape, Stores
<1>4. Admitted(h, ok) => Write(new, ok)
  BY <1>1 DEF Admitted, Own
<1> HIDE DEF m, new
<1>5. /\ StoreShape' /\ memory' \in {memory, new} /\ file' \in {file, new}
      /\ faults' = 0 => faults = 0
  <2>1. CASE Admitted(h, ok)
    BY <1>3, <1>4, <2>1, Written
  <2>2. CASE UNCHANGED store
    BY <2>2 DEF store, StoreShape
  <2> QED BY <2>1, <2>2
<1>6. /\ \A k \in Messages \ {m} : memory'[k] = memory[k] /\ (file'[k] = file[k] \/ file'[k] = memory[k])
      /\ memory'[m].state # "none" /\ file'[m].state # "none"
  BY <1>1, <1>3, <1>5
<1>7. \A k \in Handlers \ {h} : (Holds(k)' <=> Holds(k)) /\ handler'[k].of = handler[k].of
  BY DEF Others, Holds, Reading
<1>8. \A k \in Handlers : Holds(k)' => k # h /\ Holds(k) /\ handler[k].of \in Messages \ {m} /\ handler'[k].of = handler[k].of
  <2> SUFFICES ASSUME NEW k \in Handlers, Holds(k)'
               PROVE  k # h /\ Holds(k) /\ handler[k].of \in Messages \ {m} /\ handler'[k].of = handler[k].of
    OBVIOUS
  <2>1. k # h /\ Holds(k) /\ handler'[k].of = handler[k].of
    BY <1>7
  <2>2. memory[handler[k].of] = [state |-> "claimed", owner |-> k] /\ handler[k].of \in Messages
    BY <2>1, HeldMessage DEF ClaimSound
  <2> QED BY <1>1, <2>1, <2>2
<1>9. \A k \in answered' : memory'[k].state # "none" /\ file'[k].state # "none"
  BY <1>2, <1>6 DEF ClaimSound, CountShape
<1>10. \A k \in Handlers : Holds(k)' =>
          /\ memory'[handler'[k].of] = [state |-> "claimed", owner |-> k]
          /\ file'[handler'[k].of].state # "none" /\ handler'[k].of \notin answered'
  BY <1>2, <1>6, <1>8 DEF ClaimSound
<1>11. ASSUME crashes = 0, faults' = 0, NEW k \in Messages, memory'[k].state # "none", k \notin answered'
       PROVE  \E g \in Handlers : memory'[k].owner = g /\ Holds(g)' /\ handler'[g].of = k
  <2>1. k # m /\ memory'[k] = memory[k] /\ faults = 0 /\ k \notin answered
    BY <1>2, <1>5, <1>6, <1>11
  <2>2. PICK g \in Handlers : memory[k].owner = g /\ Holds(g) /\ handler[g].of = k
    BY <1>11, <2>1 DEF ClaimSound
  <2>3. g # h
    BY <2>1, <2>2 DEF m
  <2> QED BY <1>7, <2>1, <2>2, <2>3
<1> QED BY <1>2, <1>5, <1>9, <1>10, <1>11 DEF ClaimSound

(* A handler begins: it claims its message, finds it claimed, or fails to. *)
LEMMA ClaimTaken ==
    ASSUME HandlerShape, StoreShape, CountShape, ClaimSound, NEW h \in Handlers, Others(h), ~Holds(h),
           NEW m \in Messages, NEW answer \in Answers, Claimed(m, h, answer), UNCHANGED <<answered, crashes>>,
           handler'[h].at = "claiming", handler'[h].of = m, handler'[h].answer = answer
    PROVE  StoreShape' /\ ClaimSound'
<1> DEFINE new == [memory EXCEPT ![m] = [state |-> "claimed", owner |-> h]]
<1>0. new \in Stores /\ new[m] = [state |-> "claimed", owner |-> h] /\ \A k \in Messages \ {m} : new[k] = memory[k]
  BY DEF StoreShape, Stores
<1>1. \A k \in Handlers \ {h} : (Holds(k)' <=> Holds(k)) /\ handler'[k].of = handler[k].of
  BY DEF Others, Holds, Reading
<1>2. Holds(h)' <=> answer = "claimed"
  BY DEF Holds, Reading
<1>3. CASE memory[m].state # "none"
  <2>1. answer = "duplicate" /\ UNCHANGED store
    BY <1>3 DEF Claimed
  <2>2. \A k \in Handlers : (Holds(k)' <=> Holds(k)) /\ (Holds(k) => handler'[k].of = handler[k].of)
    BY <1>1, <1>2, <2>1
  <2> QED BY <2>1, <2>2 DEF ClaimSound, store, StoreShape
<1>4. CASE memory[m].state = "none"
  <2>1. Write(new, answer = "claimed")
    BY <1>4 DEF Claimed
  <2>2. /\ StoreShape' /\ memory' = (IF answer = "claimed" THEN new ELSE memory) /\ file' \in {file, new}
        /\ answer = "claimed" => file' = new
        /\ faults' = 0 => answer = "claimed" /\ faults = 0
    BY <1>0, <2>1, Written
  <2> HIDE DEF new
  <2>3. /\ \A k \in Messages \ {m} : memory'[k] = memory[k] /\ (file'[k] = file[k] \/ file'[k] = memory[k])
        /\ m \notin answered
        /\ \A k \in Handlers : Holds(k) => handler[k].of \in Messages \ {m}
    <3>1. \A k \in Messages \ {m} : memory'[k] = memory[k] /\ (file'[k] = file[k] \/ file'[k] = memory[k])
      BY <1>0, <2>2
    <3>2. m \notin answered
      BY <1>4 DEF ClaimSound
    <3>3. ASSUME NEW k \in Handlers, Holds(k) PROVE handler[k].of \in Messages \ {m}
      <4>1. handler[k].of \in Messages
        BY <3>3, HeldMessage
      <4>2. memory[handler[k].of] = [state |-> "claimed", owner |-> k]
        BY <3>3 DEF ClaimSound
      <4>3. memory[handler[k].of].state = "claimed"
        BY <4>2
      <4> QED BY <1>4, <4>1, <4>3
    <3> QED BY <3>1, <3>2, <3>3
  <2>4. \A k \in answered : memory'[k].state # "none" /\ file'[k].state # "none"
    BY <2>3 DEF ClaimSound, CountShape
  <2>5. ASSUME NEW k \in Handlers, Holds(k)'
        PROVE  /\ memory'[handler'[k].of] = [state |-> "claimed", owner |-> k]
               /\ file'[handler'[k].of].state # "none" /\ handler'[k].of \notin answered
    <3>1. CASE k = h
      BY <1>0, <1>2, <2>2, <2>3, <2>5, <3>1
    <3>2. CASE k # h
      BY <1>1, <2>3, <2>5, <3>2 DEF ClaimSound
    <3> QED BY <3>1, <3>2
  <2>6. ASSUME crashes = 0, faults' = 0, NEW k \in Messages, memory'[k].state # "none", k \notin answered
        PROVE  \E g \in Handlers : memory'[k].owner = g /\ Holds(g)' /\ handler'[g].of = k
    <3>1. answer = "claimed" /\ faults = 0 /\ memory' = new
      BY <2>2, <2>6
    <3>2. CASE k = m
      BY <1>0, <1>2, <3>1, <3>2
    <3>3. CASE k # m
      <4>1. memory'[k] = memory[k]
        BY <2>3, <3>3
      <4>2. PICK g \in Handlers : memory[k].owner = g /\ Holds(g) /\ handler[g].of = k
        BY <2>6, <3>1, <4>1 DEF ClaimSound
      <4> QED BY <1>1, <4>1, <4>2
    <3> QED BY <3>2, <3>3
  <2> QED BY <2>2, <2>4, <2>5, <2>6 DEF ClaimSound
<1> QED BY <1>3, <1>4

-----------------------------------------------------------------------------
(* The tasks, and the steps that leave them alone.                         *)

LEMMA OthersAttended ==
    ASSUME HandlerShape, LaneSound, NEW h \in Handlers, Others(h), UNCHANGED gate, adrift \subseteq adrift',
           active' = active \/ Working(h), NEW k \in Handlers \ {h}, Attended(k)
    PROVE  Attended(k)'
<1>1. handler'[k] = handler[k] /\ (Current(k)' <=> Current(k)) /\ disposal' = disposal
  BY DEF Others, Current, disposed, gate
<1>2. CASE active' = active
  BY <1>1, <1>2 DEF Attended
<1>3. CASE Working(h)
  <2>1. ~Working(k)
    BY <1>3 DEF LaneSound
  <2>2. handler[k].of \in Plain /\ handler[k].at \in {"admitting", "receipting", "consuming"} => Working(k)
    BY RouterAssumption DEF Working, Messages
  <2> QED BY <1>1, <2>1, <2>2 DEF Attended
<1> QED BY <1>2, <1>3

(* The handler does not look after a task.                                 *)
Taskless(h) ==
    /\ handler[h].at # "withdrawing"
    /\ ~(handler[h].of \in Plain /\ handler[h].at \in {"admitting", "receipting", "consuming"})

(* A step that starts no task and learns of no act.                        *)
Calm ==
    /\ UNCHANGED <<active, gate, adrift, answered, crashes>>
    /\ CountShape'
    /\ task' \in [Handlers -> {"none", "running", "stopping", "over"}]
    /\ \A k \in Handlers : task'[k] = "running" => task[k] = "running"

LEMMA CalmUntouched == Inv /\ UNCHANGED Untouched => Calm
  BY DEF Inv, CountShape, TaskShape, Calm, Untouched, history, record

LEMMA QuietTasks ==
    ASSUME Inv, NEW h \in Handlers, Others(h), Taskless(h), Calm
    PROVE  GateShape' /\ TaskShape' /\ CountShape' /\ TaskSound'
<1>1. UNCHANGED gate /\ active' = active /\ adrift' = adrift
  BY DEF Calm
<1>2. GateShape' /\ TaskShape' /\ CountShape'
  BY <1>1 DEF Inv, GateShape, TaskShape, Calm, gate, disposed
<1>3. ASSUME NEW k \in Handlers, task'[k] = "running" PROVE Attended(k)'
  <2>1. Attended(k)
    BY <1>3 DEF Inv, TaskSound, Calm
  <2>2. CASE k = h
    BY <1>1, <2>1, <2>2 DEF Attended, Taskless, gate
  <2>3. CASE k # h
    BY <1>1, <2>1, <2>3, OthersAttended DEF Inv
  <2> QED BY <2>2, <2>3
<1> QED BY <1>2, <1>3 DEF TaskSound

LEMMA QuietStep ==
    ASSUME Inv, NEW h \in Handlers, StepOf(h), Taskless(h), Calm, StoreShape', ClaimSound'
    PROVE  Inv'
<1>1. HandlerShape' /\ LaneSound' /\ Others(h)
  BY StepShape DEF Inv
<1>2. GateShape' /\ TaskShape' /\ CountShape' /\ TaskSound'
  BY <1>1, QuietTasks
<1> QED BY <1>1, <1>2 DEF Inv

LEMMA CalmStep ==
    ASSUME Inv, NEW h \in Handlers, StepOf(h), Taskless(h), UNCHANGED store, Calm,
           Holds(h)' <=> Holds(h), Holds(h) => handler'[h].of = handler[h].of
    PROVE  Inv'
<1>1. Others(h)
  BY StepShape DEF Inv
<1>2. ClaimSound' /\ StoreShape'
  BY <1>1, ClaimsIdle DEF Inv, StoreShape, store, Calm
<1> QED BY <1>2, QuietStep

LEMMA IdleStep ==
    ASSUME Inv, NEW h \in Handlers, StepOf(h), Taskless(h), UNCHANGED <<store, HandlerOnly>>,
           Holds(h)' <=> Holds(h), Holds(h) => handler'[h].of = handler[h].of
    PROVE  Inv'
<1>1. UNCHANGED store /\ Calm
  BY CalmUntouched DEF HandlerOnly
<1> QED BY <1>1, CalmStep

LEMMA HoldingStages ==
    ASSUME NEW h \in Handlers, Holds(h)
    PROVE  handler[h].at \notin {"idle", "queued", "refusing", "done"} /\ Taskless(h)
  BY DEF Holds, Taskless

(* releaseMessage, and then a text or nothing.                             *)
LEMMA ReleaseCalm ==
    ASSUME Inv, NEW h \in Handlers, Holds(h), NEW ok \in BOOLEAN, NEW stage \in {"releasing", "retracting"},
           Released(h, ok), Continue(h, stage), delivered' = delivered, Calm
    PROVE  Inv'
<1>1. StepOf(h) /\ handler'[h].at = stage
  BY Continued, HoldingStages DEF Inv, Stages, PlainStages
<1>2. Others(h)
  BY <1>1, StepShape DEF Inv
<1>3. ~Holds(h)'
  BY <1>1 DEF Holds
<1>4. StoreShape' /\ ClaimSound'
  BY <1>2, <1>3, ClaimGiven DEF Inv, Calm
<1> QED BY <1>1, <1>4, HoldingStages, QuietStep

LEMMA ReleaseStep ==
    ASSUME Inv, NEW h \in Handlers, Holds(h), NEW ok \in BOOLEAN, NEW stage \in {"releasing", "retracting"},
           Released(h, ok), Continue(h, stage), UNCHANGED HandlerOnly
    PROVE  Inv'
<1>1. delivered' = delivered /\ Calm
  BY CalmUntouched DEF HandlerOnly
<1> QED BY <1>1, ReleaseCalm

LEMMA ReleasedKept == ASSUME Inv, NEW h \in Handlers, Holds(h), NEW ok \in BOOLEAN, Release(h, ok), UNCHANGED HandlerOnly PROVE Inv'
  BY ReleaseStep DEF Release

(* A handler that goes on with its claim.                                  *)
LEMMA HoldStep ==
    ASSUME Inv, NEW h \in Handlers, Holds(h), NEW stage \in {"preparing", "checking", "checked", "starting"},
           Continue(h, stage), stage # "checking" => handler[h].of \in Plain, UNCHANGED <<store, HandlerOnly>>
    PROVE  Inv'
<1>1. StepOf(h) /\ handler'[h].at = stage /\ handler'[h].of = handler[h].of
  BY Continued, HoldingStages DEF Inv, HandlerOnly, Stages, PlainStages
<1>2. Holds(h)'
  BY <1>1 DEF Holds
<1> QED BY <1>1, <1>2, HoldingStages, IdleStep

(* A handler without a claim.                                              *)
LEMMA FreeStep ==
    ASSUME Inv, NEW h \in Handlers, ~Holds(h), Taskless(h), handler[h].at \notin {"idle", "queued", "refusing", "done"},
           NEW stage \in {"texting", "responding", "receipting", "awaiting"}, Continue(h, stage),
           stage = "responding" => ~Reading(h), UNCHANGED <<store, HandlerOnly>>
    PROVE  Inv'
<1>1. StepOf(h) /\ handler'[h].at = stage /\ handler'[h].of = handler[h].of /\ handler'[h].target = handler[h].target
  BY Continued DEF Inv, HandlerOnly, Stages, PlainStages, Outbound
<1>2. ~Holds(h)'
  BY <1>1 DEF Holds, Reading
<1> QED BY <1>1, <1>2, IdleStep

LEMMA ReturnStep ==
    ASSUME Inv, NEW h \in Handlers, ~Holds(h), Taskless(h), handler[h].at \notin {"idle", "queued", "done"},
           Return(h), UNCHANGED <<store, HandlerOnly>>
    PROVE  Inv'
<1>1. StepOf(h) /\ handler'[h].at = "done"
  BY Returned DEF Inv, HandlerOnly
<1>2. ~Holds(h)'
  BY <1>1 DEF Holds
<1> QED BY <1>1, <1>2, IdleStep

-----------------------------------------------------------------------------
(* The steps that every kind of handler has.                               *)

LEMMA ClaimAnsweredKept == ASSUME Inv, NEW h \in Handlers, NEW ok \in BOOLEAN, ClaimAnswered(h, ok) PROVE Inv'
<1>1. handler[h].at = "claiming" /\ UNCHANGED HandlerOnly /\ Taskless(h)
  BY DEF ClaimAnswered, Taskless
<1>2. CASE handler[h].answer = "claimed" /\ ~Current(h)
  <2>1. Release(h, ok) /\ Holds(h)
    BY <1>1, <1>2 DEF ClaimAnswered, Holds
  <2> QED BY <1>1, <2>1, ReleasedKept
<1>3. CASE handler[h].answer = "claimed" /\ Current(h)
  <2>1. Continue(h, IF handler[h].of \in Plain THEN "preparing" ELSE "checking") /\ UNCHANGED store /\ Holds(h)
    BY <1>1, <1>3 DEF ClaimAnswered, Holds
  <2> QED BY <1>1, <2>1, HoldStep
<1>4. CASE handler[h].answer = "failed" /\ Current(h)
  <2>1. Continue(h, "texting") /\ UNCHANGED store /\ ~Holds(h)
    BY <1>1, <1>4 DEF ClaimAnswered, Holds
  <2> QED BY <1>1, <2>1, FreeStep
<1>5. CASE handler[h].answer # "claimed" /\ ~(handler[h].answer = "failed" /\ Current(h))
  <2>1. Return(h) /\ UNCHANGED store /\ ~Holds(h)
    BY <1>1, <1>5 DEF ClaimAnswered, Holds
  <2> QED BY <1>1, <2>1, ReturnStep
<1> QED BY <1>2, <1>3, <1>4, <1>5

LEMMA ReleaseAnsweredKept == ASSUME Inv, NEW h \in Handlers, ReleaseAnswered(h) PROVE Inv'
<1>1. handler[h].at \in {"releasing", "retracting"} /\ UNCHANGED <<store, HandlerOnly>> /\ Taskless(h) /\ ~Holds(h)
  BY DEF ReleaseAnswered, Taskless, Holds
<1>2. CASE Continue(h, "texting")
  BY <1>1, <1>2, FreeStep
<1>3. CASE Return(h)
  BY <1>1, <1>3, ReturnStep
<1> QED BY <1>2, <1>3 DEF ReleaseAnswered

LEMMA TextSettlesKept == ASSUME Inv, NEW h \in Handlers, TextSettles(h) PROVE Inv'
<1>1. handler[h].at \in {"texting", "refusing"} /\ UNCHANGED <<store, HandlerOnly>> /\ Taskless(h) /\ ~Holds(h) /\ Return(h)
  BY DEF TextSettles, Taskless, Holds
<1> QED BY <1>1, ReturnStep

-----------------------------------------------------------------------------
(* #runPlain.                                                              *)

LEMMA PrepareKept == ASSUME Inv, NEW h \in Handlers, NEW ok \in BOOLEAN, Prepare(h, ok) PROVE Inv'
<1>1. handler[h].at = "preparing" /\ UNCHANGED HandlerOnly /\ Holds(h) /\ handler[h].of \in Plain
  BY DEF Prepare, Holds, Inv, HandlerShape, PlainStages
<1>2. CASE Continue(h, "checked") /\ UNCHANGED store
  BY <1>1, <1>2, HoldStep
<1>3. CASE Release(h, ok)
  BY <1>1, <1>3, ReleasedKept
<1> QED BY <1>2, <1>3 DEF Prepare

LEMMA CallStartKept == ASSUME Inv, NEW h \in Handlers, NEW ok \in BOOLEAN, CallStart(h, ok) PROVE Inv'
<1>1. handler[h].at = "checked" /\ UNCHANGED HandlerOnly /\ Holds(h) /\ handler[h].of \in Plain
  BY DEF CallStart, Holds, Inv, HandlerShape, PlainStages
<1>2. CASE Continue(h, "starting") /\ UNCHANGED store
  BY <1>1, <1>2, HoldStep
<1>3. CASE Release(h, ok)
  BY <1>1, <1>3, ReleasedKept
<1> QED BY <1>2, <1>3 DEF CallStart

(* A call that was run may go unanswered.                                  *)
LEMMA LostCalm ==
    ASSUME Inv, NEW h \in Handlers, handler[h].of \in Messages, Unanswered(h) \/ Lost(h), crashes' = crashes
    PROVE  answered' = answered /\ CountShape'
<1>1. CASE UNCHANGED record
  BY <1>1 DEF Inv, CountShape, record
<1>2. CASE Lost(h)
  BY <1>2, RouterAssumption DEF Inv, CountShape, Lost, Run
<1> QED BY <1>1, <1>2 DEF Unanswered

LEMMA StartAgainKept == ASSUME Inv, NEW h \in Handlers, StartAgain(h) PROVE Inv'
<1>1. /\ handler[h].at = "starting" /\ Continue(h, "restarting") /\ UNCHANGED store /\ Holds(h)
      /\ handler[h].of \in Plain /\ handler[h].of \in Messages /\ delivered' = delivered
  BY DEF StartAgain, Holds, Inv, HandlerShape, PlainStages
<1>2. Calm
  BY <1>1, LostCalm DEF StartAgain, Calm, Inv, TaskShape
<1>3. StepOf(h) /\ handler'[h].at = "restarting" /\ handler'[h].of = handler[h].of
  BY <1>1, Continued DEF Inv, Stages
<1>4. Holds(h)'
  BY <1>3 DEF Holds
<1> QED BY <1>1, <1>2, <1>3, <1>4, HoldingStages, CalmStep

LEMMA StartFailsKept == ASSUME Inv, NEW h \in Handlers, NEW ok \in BOOLEAN, StartFails(h, ok) PROVE Inv'
<1>1. Holds(h) /\ Release(h, ok) /\ delivered' = delivered
  BY DEF StartFails, Starting, Holds
<1>2. Calm
  BY <1>1, HeldMessage, LostCalm DEF StartFails, Calm, Inv, TaskShape
<1> QED BY <1>1, <1>2, ReleaseCalm DEF Release

LEMMA AdmitStep ==
    ASSUME HandlerShape, NEW h \in Handlers, handler[h].at \notin {"idle", "queued", "refusing", "done"},
           NEW ok \in BOOLEAN, Admit(h, ok), delivered' = delivered
    PROVE  /\ StepOf(h) /\ handler'[h].at = "admitting" /\ handler'[h].of = handler[h].of
           /\ handler'[h].generation = handler[h].generation /\ handler'[h].target = handler[h].target
<1> DEFINE a == IF ok THEN "accepted" ELSE "failed"
           x == [handler[h] EXCEPT !.at = "admitting", !.answer = a]
<1>1. handler[h] \in HandlerRecords /\ a \in {"none", "claimed", "duplicate", "failed", "accepted"}
  BY DEF HandlerShape
<1>2. handler' = [handler EXCEPT ![h] = x] /\ lane' = lane
  BY <1>1 DEF Admit, HandlerShape, HandlerRecords
<1> HIDE DEF a
<1>3. /\ x \in HandlerRecords /\ x.at = "admitting" /\ x.of = handler[h].of
      /\ x.generation = handler[h].generation /\ x.target = handler[h].target
  BY <1>1 DEF HandlerRecords, Stages
<1> HIDE DEF x
<1>4. handler'[h] = x
  BY <1>2 DEF HandlerShape
<1> QED BY <1>2, <1>3, <1>4 DEF StepOf, Moves, PlainStages

LEMMA StartAnsweredKept == ASSUME Inv, NEW h \in Handlers, NEW ok \in BOOLEAN, StartAnswered(h, ok) PROVE Inv'
<1>1. /\ Starting(h) /\ task' = [task EXCEPT ![h] = "running"] /\ Act(h) /\ Holds(h)
      /\ UNCHANGED <<delivered, gate, adrift, crashes>> /\ handler[h].of \in Plain
  BY DEF StartAnswered, Starting, Holds, Inv, HandlerShape, PlainStages
<1>2. /\ StepOf(h) /\ ~Holds(h)' /\ (Admitted(h, ok) \/ UNCHANGED store) /\ active' \in {active, h}
      /\ \/ handler'[h].at = "withdrawing"
         \/ /\ handler'[h].at = "admitting" /\ handler'[h].of \in Plain /\ active' = h
            /\ Current(h) /\ handler'[h].generation = handler[h].generation
  <2>1. CASE Current(h)
    <3>1. Admit(h, ok) /\ active' = h
      BY <2>1 DEF StartAnswered
    <3>2. StepOf(h) /\ handler'[h].at = "admitting" /\ handler'[h].of \in Plain /\ handler'[h].generation = handler[h].generation
      BY <1>1, <3>1, AdmitStep DEF Inv, Starting
    <3> QED BY <2>1, <3>1, <3>2 DEF Admit, Holds
  <2>2. CASE ~Current(h)
    <3>1. Continue(h, "withdrawing") /\ UNCHANGED <<store, active>>
      BY <2>2 DEF StartAnswered
    <3>2. StepOf(h) /\ handler'[h].at = "withdrawing"
      BY <1>1, <3>1, Continued DEF Inv, Starting, Stages
    <3> QED BY <3>1, <3>2 DEF Holds
  <2> QED BY <2>1, <2>2
<1>3. HandlerShape' /\ LaneSound' /\ Others(h)
  BY <1>2, StepShape DEF Inv
<1>4. StoreShape' /\ CountShape' /\ ClaimSound'
  BY <1>1, <1>2, <1>3, ClaimSpent DEF Inv
<1>5. GateShape' /\ TaskShape'
  BY <1>1, <1>2 DEF Inv, GateShape, TaskShape, gate, disposed
<1>6. Working(h)
  BY <1>1, RouterAssumption DEF Starting, Working, Messages
<1>7. ASSUME NEW k \in Handlers, task'[k] = "running" PROVE Attended(k)'
  <2>1. CASE k = h
    BY <1>1, <1>2, <2>1 DEF Attended, Current, gate, disposed
  <2>2. CASE k # h
    <3>1. task[k] = "running"
      BY <1>1, <1>7, <2>2 DEF Inv, TaskShape
    <3>2. Attended(k)
      BY <3>1 DEF Inv, TaskSound
    <3> QED BY <1>1, <1>3, <1>6, <2>2, <3>2, OthersAttended DEF Inv
  <2> QED BY <2>1, <2>2
<1> QED BY <1>3, <1>4, <1>5, <1>7 DEF Inv, TaskSound

(* A handler of a plain message that is past its claim.                    *)
LEMMA PlainTaskStep ==
    ASSUME Inv, NEW h \in Handlers, Working(h), StepOf(h), ~Holds(h), ~Holds(h)',
           UNCHANGED <<store, gate, record, crashes>>,
           TaskShape', adrift \subseteq adrift', \A k \in Handlers \ {h} : task'[k] = task[k],
           task'[h] = "running" => Attended(h)'
    PROVE  Inv'
<1>1. HandlerShape' /\ LaneSound' /\ Others(h)
  BY StepShape DEF Inv
<1>2. UNCHANGED store /\ UNCHANGED gate /\ acts' = acts /\ answered' = answered /\ losses' = losses /\ crashes' = crashes
  BY DEF record
<1>3. StoreShape' /\ GateShape' /\ CountShape'
  BY <1>2 DEF Inv, StoreShape, GateShape, CountShape, store, gate, disposed
<1>4. ClaimSound'
  BY <1>1, <1>2, ClaimsIdle DEF Inv
<1>5. ASSUME NEW k \in Handlers, task'[k] = "running" PROVE Attended(k)'
  <2>1. CASE k = h
    BY <1>5, <2>1
  <2>2. CASE k # h
    <3>1. Attended(k)
      BY <1>5, <2>2 DEF Inv, TaskSound
    <3> QED BY <1>1, <1>2, <2>2, <3>1, OthersAttended DEF Inv
  <2> QED BY <2>1, <2>2
<1> QED BY <1>1, <1>3, <1>4, <1>5 DEF Inv, TaskSound

LEMMA PlainWorks ==
    ASSUME NEW h \in Handlers, handler[h].of \in Plain, handler[h].at \notin {"idle", "queued", "refusing", "done"}
    PROVE  Working(h)
  BY RouterAssumption DEF Working, Messages

LEMMA CancelledTask ==
    ASSUME TaskShape, NEW h \in Handlers, Cancelled(h)
    PROVE  /\ task' \in [Handlers -> {"none", "running", "stopping", "over"}]
           /\ adrift' \subseteq Handlers /\ adrift \subseteq adrift'
           /\ \A k \in Handlers \ {h} : task'[k] = task[k]
           /\ task'[h] = "running" => h \in adrift'
<1>1. CASE task' = [task EXCEPT ![h] = IF @ = "running" THEN "stopping" ELSE @] /\ UNCHANGED adrift
  <2>1. (IF task[h] = "running" THEN "stopping" ELSE task[h]) \in {"none", "stopping", "over"}
    BY DEF TaskShape
  <2> QED BY <1>1, <2>1 DEF TaskShape
<1>2. CASE adrift' = adrift \cup (Running \cap {h}) /\ UNCHANGED task
  BY <1>2 DEF TaskShape, Running
<1> QED BY <1>1, <1>2 DEF Cancelled

LEMMA WithdrawKept == ASSUME Inv, NEW h \in Handlers, Withdraw(h) PROVE Inv'
<1>1. /\ handler[h].at = "withdrawing" /\ Cancelled(h) /\ Return(h) /\ handler[h].of \in Plain
      /\ UNCHANGED <<delivered, active, store, gate, record, crashes>>
  BY DEF Withdraw, Inv, HandlerShape, PlainStages
<1>2. StepOf(h) /\ handler'[h].at = "done" /\ Working(h) /\ ~Holds(h)
  BY <1>1, Returned, PlainWorks DEF Inv, Holds
<1>3. /\ TaskShape' /\ adrift \subseteq adrift' /\ \A k \in Handlers \ {h} : task'[k] = task[k]
      /\ task'[h] = "running" => h \in adrift'
  BY <1>1, CancelledTask DEF Inv, TaskShape
<1>4. task'[h] = "running" => Attended(h)'
  BY <1>3 DEF Attended
<1>5. ~Holds(h)'
  BY <1>2 DEF Holds
<1> QED BY <1>1, <1>2, <1>3, <1>4, <1>5, PlainTaskStep

(* The task, if it runs, is that of the active handler or is attended to.  *)
LEMMA PlainAdmissionStep ==
    ASSUME Inv, NEW h \in Handlers, handler[h].of \in Plain, handler[h].at \in {"admitting", "receipting"},
           UNCHANGED <<delivered, store, task, gate, history, crashes>>,
           \/ active' = 0 /\ Continue(h, "withdrawing")
           \/ Current(h) /\ UNCHANGED active /\ \E stage \in {"receipting", "consuming"} : Continue(h, stage)
           \/ ~Current(h) /\ active' = 0 /\ Return(h)
    PROVE  Inv'
<1>1. Working(h) /\ ~Holds(h)
  BY PlainWorks DEF Holds
<1>2. UNCHANGED <<store, gate, record, crashes>> /\ task' = task /\ adrift' = adrift /\ delivered' = delivered
  BY DEF history
<1>3. active' \in {active, 0}
  OBVIOUS
<1>4. TaskShape'
  BY <1>2, <1>3 DEF Inv, TaskShape
<1>5. task[h] = "running" => Attended(h)
  BY DEF Inv, TaskSound
<1>6. CASE active' = 0 /\ Continue(h, "withdrawing")
  <2>1. StepOf(h) /\ handler'[h].at = "withdrawing"
    BY <1>2, <1>6, Continued DEF Inv, Stages
  <2>2. Attended(h)' /\ ~Holds(h)'
    BY <2>1 DEF Attended, Holds
  <2> QED BY <1>1, <1>2, <1>4, <2>1, <2>2, PlainTaskStep
<1>7. CASE Current(h) /\ UNCHANGED active /\ \E stage \in {"receipting", "consuming"} : Continue(h, stage)
  <2>1. PICK stage \in {"receipting", "consuming"} : Continue(h, stage)
    BY <1>7
  <2>2. StepOf(h) /\ handler'[h].at = stage /\ handler'[h].of = handler[h].of /\ handler'[h].generation = handler[h].generation
    BY <1>2, <2>1, Continued DEF Inv, Stages, Outbound
  <2>3. Attended(h) => Attended(h)'
    BY <1>2, <1>7, <2>2 DEF Attended, Current, gate, disposed
  <2>4. ~Holds(h)'
    BY <2>2 DEF Holds
  <2> QED BY <1>1, <1>2, <1>4, <1>5, <2>2, <2>3, <2>4, PlainTaskStep
<1>8. CASE ~Current(h) /\ active' = 0 /\ Return(h)
  <2>1. StepOf(h) /\ handler'[h].at = "done"
    BY <1>2, <1>8, Returned DEF Inv
  <2>2. Attended(h) => Attended(h)'
    BY <1>2, <1>8 DEF Attended, gate
  <2>3. ~Holds(h)'
    BY <2>1 DEF Holds
  <2> QED BY <1>1, <1>2, <1>4, <1>5, <2>1, <2>2, <2>3, PlainTaskStep
<1> QED BY <1>6, <1>7, <1>8

LEMMA PlainAdmittedKept == ASSUME Inv, NEW h \in Handlers, PlainAdmitted(h) PROVE Inv'
  BY PlainAdmissionStep DEF PlainAdmitted

LEMMA PlainReceiptKept == ASSUME Inv, NEW h \in Handlers, PlainReceipt(h) PROVE Inv'
  BY PlainAdmissionStep DEF PlainReceipt

LEMMA ConsumeEndsKept == ASSUME Inv, NEW h \in Handlers, ConsumeEnds(h) PROVE Inv'
<1>1. /\ handler[h].at = "consuming" /\ handler[h].of \in Plain
      /\ UNCHANGED <<delivered, store, gate, record, crashes>>
  BY DEF ConsumeEnds, Inv, HandlerShape, PlainStages
<1>2. /\ task' \in [Handlers -> {"none", "running", "stopping", "over"}]
      /\ adrift' \subseteq Handlers /\ adrift \subseteq adrift' /\ \A k \in Handlers \ {h} : task'[k] = task[k]
      /\ task'[h] = "running" => h \in adrift' \cup {disposal.target}
  <2>1. CASE task[h] = "over" /\ UNCHANGED <<task, adrift>>
    BY <2>1 DEF Inv, TaskShape
  <2>2. CASE Cancelled(h)
    BY <2>2, CancelledTask DEF Inv
  <2>3. CASE ~Current(h) /\ UNCHANGED <<task, adrift>>
    BY <1>1, <2>3 DEF Inv, TaskShape, TaskSound, Attended
  <2> QED BY <2>1, <2>2, <2>3 DEF ConsumeEnds
<1>3. StepOf(h) /\ handler'[h].at \in {"answering", "done"} /\ active' \in {active, 0}
  <2>1. CASE Current(h)
    BY <1>1, <2>1, Continued DEF ConsumeEnds, Inv, Stages, Outbound
  <2>2. CASE ~Current(h)
    BY <1>1, <2>2, Returned DEF ConsumeEnds, Inv, Forget
  <2> QED BY <2>1, <2>2
<1>4. TaskShape'
  BY <1>2, <1>3 DEF Inv, TaskShape
<1>5. ~Holds(h) /\ ~Holds(h)' /\ Working(h)
  BY <1>1, <1>3, PlainWorks DEF Holds
<1>6. task'[h] = "running" => Attended(h)'
  BY <1>1, <1>2 DEF Attended, gate
<1> QED BY <1>1, <1>2, <1>3, <1>4, <1>5, <1>6, PlainTaskStep

LEMMA AnswerSettlesKept == ASSUME Inv, NEW h \in Handlers, AnswerSettles(h) PROVE Inv'
<1>1. /\ handler[h].at = "answering" /\ handler[h].of \in Plain /\ Return(h) /\ active' \in {active, 0}
      /\ UNCHANGED <<delivered, store, gate, record, crashes>> /\ task' = task /\ adrift' = adrift
  BY DEF AnswerSettles, Inv, HandlerShape, PlainStages, Forget, history
<1>2. StepOf(h) /\ handler'[h].at = "done" /\ Working(h)
  BY <1>1, Returned, PlainWorks DEF Inv
<1>3. TaskShape' /\ ~Holds(h) /\ ~Holds(h)'
  BY <1>1, <1>2 DEF Inv, TaskShape, Holds
<1>4. task'[h] = "running" => Attended(h)'
  BY <1>1 DEF Inv, TaskSound, Attended, gate
<1> QED BY <1>1, <1>2, <1>3, <1>4, PlainTaskStep

-----------------------------------------------------------------------------
(* #runSlash and #runStop.                                                 *)

LEMMA CheckedKept == ASSUME Inv, NEW h \in Handlers, NEW ok \in BOOLEAN, Checked(h, ok) PROVE Inv'
<1>1. handler[h].at = "checking" /\ UNCHANGED HandlerOnly /\ Holds(h)
  BY DEF Checked, Holds
<1>2. CASE Release(h, ok)
  BY <1>1, <1>2, ReleasedKept
<1>3. CASE /\ handler' = [handler EXCEPT ![h].at = IF handler[h].of \in Stops /\ active = 0
                                                   THEN "responding" ELSE "acting",
                                         ![h].target = IF handler[h].of \in Stops THEN active ELSE 0]
           /\ UNCHANGED <<lane, store>>
  <2> DEFINE stage == IF handler[h].of \in Stops /\ active = 0 THEN "responding" ELSE "acting"
             target == IF handler[h].of \in Stops THEN active ELSE 0
             x == [handler[h] EXCEPT !.at = stage, !.target = target]
  <2>1. handler[h] \in HandlerRecords /\ stage \in {"responding", "acting"} /\ target \in Handlers \cup {0}
    BY DEF Inv, HandlerShape, TaskShape
  <2>2. stage = "responding" => handler[h].of \in Stops /\ target = 0
    OBVIOUS
  <2>3. handler' = [handler EXCEPT ![h] = x] /\ lane' = lane
    BY <1>3, <2>1 DEF Inv, HandlerShape, HandlerRecords
  <2> HIDE DEF stage, target
  <2>4. x \in HandlerRecords /\ x.at = stage /\ x.of = handler[h].of /\ x.generation = handler[h].generation /\ x.target = target
    BY <2>1 DEF HandlerRecords, Stages, Outbound
  <2> HIDE DEF x
  <2>5. handler'[h] = x
    BY <2>3 DEF Inv, HandlerShape
  <2>6. StepOf(h)
    BY <1>1, <2>1, <2>3, <2>4, <2>5 DEF StepOf, Moves, PlainStages, HandlerOnly
  <2>7. Holds(h)'
    BY <2>1, <2>2, <2>4, <2>5 DEF Holds, Reading
  <2> QED BY <1>1, <1>3, <2>4, <2>5, <2>6, <2>7, HoldingStages, IdleStep
<1> QED BY <1>2, <1>3 DEF Checked

LEMMA StoppedTasks ==
    ASSUME Inv, NEW h \in Handlers, Stopped(h)
    PROVE  /\ task' \in [Handlers -> {"none", "running", "stopping", "over"}]
           /\ \A k \in Handlers : task'[k] = "running" => task[k] = "running"
  BY DEF Stopped, Inv, TaskShape

LEMMA ActFailsKept == ASSUME Inv, NEW h \in Handlers, NEW ok \in BOOLEAN, ActFails(h, ok) PROVE Inv'
<1>1. Holds(h) /\ Release(h, ok) /\ UNCHANGED <<delivered, active, gate, adrift, crashes>> /\ handler[h].of \in Messages
  BY HeldMessage DEF ActFails, Holds, Inv
<1>2. CASE UNCHANGED <<record, task>>
  <2>1. Calm
    BY <1>1, <1>2 DEF Calm, Inv, CountShape, TaskShape, record
  <2> QED BY <1>1, <2>1, ReleaseCalm DEF Release
<1>3. CASE Lost(h) /\ Stopped(h)
  <2>1. Calm
    BY <1>1, <1>3, LostCalm, StoppedTasks DEF Calm
  <2> QED BY <1>1, <2>1, ReleaseCalm DEF Release
<1> QED BY <1>2, <1>3 DEF ActFails

LEMMA ReadDoneKept == ASSUME Inv, NEW h \in Handlers, NEW ok \in BOOLEAN, ReadDone(h, ok) PROVE Inv'
<1>1. handler[h].at = "acting" /\ handler[h].of \in Reads /\ UNCHANGED HandlerOnly /\ Holds(h)
  BY DEF ReadDone, Holds
<1>2. CASE Current(h)
  <2>1. Continue(h, "responding") /\ UNCHANGED store
    BY <1>2 DEF ReadDone
  <2>2. StepOf(h) /\ handler'[h].at = "responding" /\ handler'[h].of = handler[h].of
    BY <1>1, <2>1, Continued DEF Inv, HandlerOnly, Stages, Outbound, PlainStages
  <2>3. Holds(h)'
    BY <1>1, <2>2 DEF Holds, Reading
  <2> QED BY <1>1, <2>1, <2>2, <2>3, HoldingStages, IdleStep
<1>3. CASE ~Current(h)
  <2>1. Released(h, ok) /\ Continue(h, "retracting")
    BY <1>3 DEF ReadDone
  <2> QED BY <1>1, <2>1, ReleaseStep
<1> QED BY <1>2, <1>3

(* A message is acted on, and admitMessage is called.                      *)
LEMMA ActStep ==
    ASSUME Inv, NEW h \in Handlers, Holds(h), handler[h].of \notin Plain, NEW ok \in BOOLEAN, Act(h), Admit(h, ok),
           UNCHANGED <<delivered, active, gate, adrift, crashes>>,
           task' \in [Handlers -> {"none", "running", "stopping", "over"}],
           \A k \in Handlers : task'[k] = "running" => task[k] = "running"
    PROVE  Inv'
<1>1. StepOf(h) /\ handler'[h].at = "admitting"
  BY AdmitStep, HoldingStages DEF Inv
<1>2. HandlerShape' /\ LaneSound' /\ Others(h)
  BY <1>1, StepShape DEF Inv
<1>3. ~Holds(h)' /\ Admitted(h, ok)
  BY <1>1 DEF Holds, Admit
<1>4. StoreShape' /\ CountShape' /\ ClaimSound'
  BY <1>2, <1>3, ClaimSpent DEF Inv
<1>5. GateShape' /\ TaskShape'
  BY DEF Inv, GateShape, TaskShape, gate, disposed
<1>6. ASSUME NEW k \in Handlers, task'[k] = "running" PROVE Attended(k)'
  <2>1. Attended(k)
    BY <1>6 DEF Inv, TaskSound
  <2>2. CASE k = h
    BY <2>1, <2>2, HoldingStages DEF Attended, Taskless, gate
  <2>3. CASE k # h
    BY <1>2, <2>1, <2>3, OthersAttended DEF Inv
  <2> QED BY <2>2, <2>3
<1> QED BY <1>2, <1>4, <1>5, <1>6 DEF Inv, TaskSound

LEMMA MutationDoneKept == ASSUME Inv, NEW h \in Handlers, NEW ok \in BOOLEAN, MutationDone(h, ok) PROVE Inv'
<1>1. /\ Holds(h) /\ handler[h].of \notin Plain /\ Act(h) /\ Admit(h, ok)
      /\ UNCHANGED <<delivered, active, gate, adrift, crashes>>
      /\ Stopped(h)
  BY RouterAssumption DEF MutationDone, Holds
<1>2. /\ task' \in [Handlers -> {"none", "running", "stopping", "over"}]
      /\ \A k \in Handlers : task'[k] = "running" => task[k] = "running"
  BY <1>1, StoppedTasks
<1> QED BY <1>1, <1>2, ActStep

LEMMA ReadSettlesKept ==
    ASSUME Inv, NEW h \in Handlers, NEW sent \in BOOLEAN, NEW ok \in BOOLEAN, ReadSettles(h, sent, ok) PROVE Inv'
<1>1. Holds(h) /\ handler[h].of \notin Plain /\ UNCHANGED <<delivered, active, task, gate, adrift, crashes>>
  BY RouterAssumption DEF ReadSettles, Holds, Reading
<1>2. CASE sent
  <2>1. Act(h) /\ Admit(h, ok)
    BY <1>2 DEF ReadSettles
  <2> QED BY <1>1, <2>1, ActStep DEF Inv, TaskShape
<1>3. CASE ~sent
  <2>1. Released(h, ok) /\ Continue(h, "retracting") /\ Unanswered(h)
    BY <1>3 DEF ReadSettles
  <2>2. Calm
    BY <1>1, <2>1, HeldMessage, LostCalm DEF Calm, Inv, TaskShape
  <2> QED BY <1>1, <2>1, <2>2, ReleaseCalm
<1> QED BY <1>2, <1>3

LEMMA FinishStep ==
    ASSUME Inv, NEW h \in Handlers, ~Holds(h), Taskless(h), handler[h].at \notin {"idle", "queued", "refusing", "done"},
           Finish(h), UNCHANGED <<store, HandlerOnly>>
    PROVE  Inv'
  BY ReturnStep, FreeStep DEF Finish

LEMMA LocalAdmittedKept == ASSUME Inv, NEW h \in Handlers, LocalAdmitted(h) PROVE Inv'
<1>1. handler[h].at = "admitting" /\ ~Holds(h) /\ Taskless(h) /\ UNCHANGED <<store, HandlerOnly>>
  BY DEF LocalAdmitted, Holds, Taskless, Local
<1>2. CASE Finish(h)
  BY <1>1, <1>2, FinishStep
<1>3. CASE Continue(h, IF Reading(h) THEN "receipting" ELSE "responding")
  BY <1>1, <1>3, FreeStep
<1> QED BY <1>2, <1>3 DEF LocalAdmitted

LEMMA ResponseSettlesKept == ASSUME Inv, NEW h \in Handlers, ResponseSettles(h) PROVE Inv'
<1>1. handler[h].at = "responding" /\ ~Holds(h) /\ Taskless(h) /\ UNCHANGED <<store, HandlerOnly>>
  BY DEF ResponseSettles, Holds, Taskless
<1>2. CASE Finish(h)
  BY <1>1, <1>2, FinishStep
<1>3. CASE Continue(h, "receipting")
  BY <1>1, <1>3, FreeStep
<1> QED BY <1>2, <1>3 DEF ResponseSettles

LEMMA LocalReceiptKept == ASSUME Inv, NEW h \in Handlers, LocalReceipt(h) PROVE Inv'
<1>1. handler[h].at = "receipting" /\ ~Holds(h) /\ Taskless(h) /\ UNCHANGED <<store, HandlerOnly>> /\ Finish(h)
  BY DEF LocalReceipt, Holds, Taskless, Local
<1> QED BY <1>1, FinishStep

LEMMA AwaitedKept == ASSUME Inv, NEW h \in Handlers, Awaited(h) PROVE Inv'
<1>1. handler[h].at = "awaiting" /\ ~Holds(h) /\ Taskless(h) /\ UNCHANGED <<store, HandlerOnly>> /\ Return(h)
  BY DEF Awaited, Holds, Taskless
<1> QED BY <1>1, ReturnStep

LEMMA HandlerStepKept == ASSUME Inv, NEW h \in Handlers, HandlerStep(h) PROVE Inv'
<1>1. CASE \E ok \in BOOLEAN : ClaimAnswered(h, ok)
  BY <1>1, ClaimAnsweredKept
<1>2. CASE ReleaseAnswered(h) \/ TextSettles(h)
  BY <1>2, ReleaseAnsweredKept, TextSettlesKept
<1>3. CASE PlainStep(h)
  BY <1>3, PrepareKept, CallStartKept, StartAnsweredKept, StartAgainKept, StartFailsKept, WithdrawKept, PlainAdmittedKept,
     PlainReceiptKept, AnswerSettlesKept DEF PlainStep
<1>4. CASE LocalStep(h)
  BY <1>4, CheckedKept, ActFailsKept, ReadDoneKept, MutationDoneKept, ReadSettlesKept, LocalAdmittedKept,
     ResponseSettlesKept, LocalReceiptKept, AwaitedKept DEF LocalStep
<1> QED BY <1>1, <1>2, <1>3, <1>4 DEF HandlerStep

-----------------------------------------------------------------------------
(* Deliveries and the lane.                                                *)

Waiting(stage, m) == [Idle EXCEPT !.at = stage, !.of = m]
Beginning(m, answer) == [Idle EXCEPT !.at = "claiming", !.of = m, !.generation = generation, !.answer = answer]

LEMMA IdleTypes == Idle \in HandlerRecords /\ Idle.at = "idle"
  BY RouterAssumption DEF Idle, HandlerRecords, Stages

LEMMA WaitingTypes ==
    ASSUME NEW stage \in {"refusing", "queued"}, NEW m \in Messages
    PROVE  Waiting(stage, m) \in HandlerRecords /\ Waiting(stage, m).at = stage /\ Waiting(stage, m).of = m
  BY IdleTypes DEF Waiting, HandlerRecords, Stages, Outbound

LEMMA BeginningTypes ==
    ASSUME GateShape, NEW m \in Messages, NEW answer \in Answers
    PROVE  /\ Beginning(m, answer) \in HandlerRecords /\ Beginning(m, answer).at = "claiming"
           /\ Beginning(m, answer).of = m /\ Beginning(m, answer).answer = answer
<1>1. generation \in 0..(2 * MaxDisposal) /\ answer \in {"none", "claimed", "duplicate", "failed", "accepted"}
  BY DEF GateShape, Answers
<1> QED BY <1>1, IdleTypes DEF Beginning, HandlerRecords, Stages

(* A message arrives.                                                      *)
LEMMA Arrived ==
    ASSUME Inv, Open, NEW x \in HandlerRecords, NEW h, h = delivered + 1, delivered' = h,
           handler' = [handler EXCEPT ![h] = x], lane' \in Lanes,
           x.at \in {"claiming", "refusing", "queued"}, x.of \in Messages, x.at = "queued" => x.of \notin Stops
    PROVE  /\ handler'[h] = x /\ Others(h) /\ HandlerShape' /\ Taskless(h) /\ ~Holds(h)
           /\ \A i \in 1..Len(lane.queue) : lane.queue[i] \in Handlers \ {h}
<1>1. h \in Handlers /\ h \in 0..MaxDelivery /\ \A k \in Handlers : k \in Nat /\ (k > h <=> k > delivered /\ k # h)
  BY RouterAssumption DEF Inv, HandlerShape, Open, Handlers
<1>2. handler[h].at = "idle"
  <2>1. h > delivered
    BY DEF Inv, HandlerShape
  <2> QED BY <1>1, <2>1 DEF Inv, HandlerShape
<1>3. handler' \in [Handlers -> HandlerRecords] /\ handler'[h] = x /\ Others(h)
  BY <1>1 DEF Inv, HandlerShape, Others
<1>4. ASSUME NEW k \in Handlers
      PROVE  /\ handler'[k].at = "idle" <=> k > delivered'
             /\ handler'[k].at \notin {"idle", "done"} => handler'[k].of \in Messages
             /\ handler'[k].at \in PlainStages => handler'[k].of \in Plain
             /\ handler'[k].at = "queued" => handler'[k].of \notin Stops
  <2>1. CASE k = h
    BY <1>1, <1>3, <2>1 DEF PlainStages
  <2>2. CASE k # h
    BY <1>1, <1>3, <2>2 DEF Inv, HandlerShape, Others
  <2> QED BY <2>1, <2>2
<1>5. HandlerShape'
  BY <1>1, <1>3, <1>4 DEF HandlerShape
<1>6. \A i \in 1..Len(lane.queue) : lane.queue[i] \in Handlers \ {h}
  <2>1. \A i \in 1..Len(lane.queue) : lane.queue[i] \in Handlers
    BY DEF Inv, HandlerShape, Lanes
  <2> QED BY <1>2, <2>1 DEF Inv, LaneSound
<1>7. Taskless(h) /\ ~Holds(h)
  BY <1>2 DEF Taskless, Holds
<1> QED BY <1>1, <1>2, <1>3, <1>5, <1>6, <1>7

LEMMA FreeLane == lane \in Lanes /\ LaneSound /\ lane.holder = 0 => \A k \in Handlers : ~Working(k)
  BY DEF LaneSound, Handlers

LEMMA DeliverKept == ASSUME Inv, NEW m \in Messages, NEW answer \in Answers, Deliver(m, answer) PROVE Inv'
<1> DEFINE x == Beginning(m, answer)
<1>0. PICK h \in Handlers : h = delivered'
  BY RouterAssumption DEF Inv, HandlerShape, Open, Handlers, Deliver
<1>1. /\ Open /\ delivered' = delivered + 1 /\ lane = [holder |-> 0, queue |-> <<>>]
      /\ lane' = [lane EXCEPT !.holder = h] /\ handler' = [handler EXCEPT ![h] = x]
      /\ Claimed(m, h, answer) /\ UNCHANGED Untouched
  BY <1>0 DEF Deliver, Begin, Beginning
<1>2. x \in HandlerRecords /\ x.at = "claiming" /\ x.of = m /\ x.answer = answer
  BY BeginningTypes DEF Inv
<1> HIDE DEF x
<1>3. lane \in Lanes /\ lane.holder = 0 /\ lane.queue = <<>>
  BY <1>1 DEF Inv, HandlerShape
<1>4. lane' \in Lanes /\ lane'.holder = h /\ lane'.queue = <<>>
  BY <1>1, <1>3 DEF Lanes
<1>5. handler'[h] = x /\ Others(h) /\ HandlerShape' /\ Taskless(h) /\ ~Holds(h)
  BY <1>0, <1>1, <1>2, <1>4, Arrived, ZenonT(60)
<1>6. ASSUME NEW k \in Handlers, Working(k)' PROVE lane'.holder = k
  <2>1. k # h => ~Working(k)'
    BY <1>3, <1>5, FreeLane DEF Inv, Others, Working
  <2> QED BY <1>4, <1>6, <2>1
<1>7. LaneSound'
  BY <1>4, <1>6 DEF LaneSound
<1>8. StoreShape' /\ ClaimSound'
  BY <1>1, <1>2, <1>3, <1>5, ClaimTaken DEF Inv, Untouched, history, record
<1>9. GateShape' /\ TaskShape' /\ CountShape' /\ TaskSound'
  BY <1>1, <1>3, <1>5, QuietTasks, CalmUntouched
<1> QED BY <1>5, <1>7, <1>8, <1>9 DEF Inv

LEMMA DeliverStopKept == ASSUME Inv, NEW m \in Messages, NEW answer \in Answers, DeliverStop(m, answer) PROVE Inv'
<1> DEFINE x == Beginning(m, answer)
<1>0. PICK h \in Handlers : h = delivered'
  BY RouterAssumption DEF Inv, HandlerShape, Open, Handlers, DeliverStop
<1>1. /\ Open /\ delivered' = delivered + 1 /\ lane' = lane /\ handler' = [handler EXCEPT ![h] = x]
      /\ Claimed(m, h, answer) /\ UNCHANGED Untouched /\ m \in Stops
  BY <1>0 DEF DeliverStop, Begin, Beginning
<1>2. x \in HandlerRecords /\ x.at = "claiming" /\ x.of = m /\ x.answer = answer
  BY BeginningTypes DEF Inv
<1> HIDE DEF x
<1>3. lane' \in Lanes
  BY <1>1 DEF Inv, HandlerShape
<1>4. /\ handler'[h] = x /\ Others(h) /\ HandlerShape' /\ Taskless(h) /\ ~Holds(h)
      /\ \A i \in 1..Len(lane.queue) : lane.queue[i] \in Handlers \ {h}
  BY <1>0, <1>1, <1>2, <1>3, Arrived
<1>5. \A k \in Handlers : Working(k)' => Working(k)
  BY <1>1, <1>2, <1>4 DEF Others, Working
<1>6. LaneSound'
  BY <1>1, <1>4, <1>5 DEF Inv, LaneSound, Others
<1>7. StoreShape' /\ ClaimSound'
  BY <1>1, <1>2, <1>4, ClaimTaken DEF Inv, Untouched, history, record
<1>8. GateShape' /\ TaskShape' /\ CountShape' /\ TaskSound'
  BY <1>1, <1>4, QuietTasks, CalmUntouched
<1> QED BY <1>4, <1>6, <1>7, <1>8 DEF Inv

LEMMA DeliverLaterKept == ASSUME Inv, NEW m \in Messages, DeliverLater(m) PROVE Inv'
<1>0. PICK h \in Handlers : h = delivered'
  BY RouterAssumption DEF Inv, HandlerShape, Open, Handlers, DeliverLater
<1>1. /\ Open /\ delivered' = delivered + 1 /\ UNCHANGED Untouched /\ UNCHANGED store /\ m \notin Stops
      /\ \/ handler' = [handler EXCEPT ![h] = Waiting("refusing", m)] /\ lane' = lane
         \/ /\ handler' = [handler EXCEPT ![h] = Waiting("queued", m)]
            /\ lane' = [lane EXCEPT !.queue = Append(lane.queue, h)]
  BY <1>0 DEF DeliverLater, Waiting
<1>2. lane \in Lanes /\ Append(lane.queue, h) \in Seq(Handlers)
  BY DEF Inv, HandlerShape, Lanes
<1>3. PICK stage \in {"refusing", "queued"} :
          /\ handler' = [handler EXCEPT ![h] = Waiting(stage, m)]
          /\ stage = "refusing" => lane' = lane
          /\ stage = "queued" => lane' = [lane EXCEPT !.queue = Append(lane.queue, h)]
  BY <1>1
<1>4. /\ lane' \in Lanes /\ lane'.holder = lane.holder
      /\ lane'.queue = lane.queue \/ (stage = "queued" /\ lane'.queue = Append(lane.queue, h))
  <2>1. CASE stage = "refusing"
    BY <1>2, <1>3, <2>1
  <2>2. CASE stage = "queued"
    BY <1>2, <1>3, <2>2 DEF Lanes
  <2> QED BY <2>1, <2>2
<1>5. Waiting(stage, m) \in HandlerRecords /\ Waiting(stage, m).at = stage /\ Waiting(stage, m).of = m
  BY WaitingTypes
<1>6. /\ handler'[h] = Waiting(stage, m) /\ Others(h) /\ HandlerShape' /\ Taskless(h) /\ ~Holds(h)
      /\ \A i \in 1..Len(lane.queue) : lane.queue[i] \in Handlers \ {h}
  <2> DEFINE x == Waiting(stage, m)
  <2>1. /\ x \in HandlerRecords /\ x.at \in {"claiming", "refusing", "queued"} /\ x.of \in Messages /\ x.of \notin Stops
        /\ handler' = [handler EXCEPT ![h] = x]
    BY <1>1, <1>3, <1>5
  <2> HIDE DEF x
  <2>2. /\ handler'[h] = x /\ Others(h) /\ HandlerShape' /\ Taskless(h) /\ ~Holds(h)
        /\ \A i \in 1..Len(lane.queue) : lane.queue[i] \in Handlers \ {h}
    BY <1>0, <1>1, <1>4, <2>1, Arrived, ZenonT(60)
  <2> QED BY <2>2 DEF x
<1>7. \A k \in Handlers : Working(k)' => Working(k)
  BY <1>5, <1>6 DEF Others, Working
<1>8. LaneSound'
  <2>1. CASE lane'.queue = lane.queue
    BY <1>4, <1>6, <1>7, <2>1 DEF Inv, LaneSound, Others
  <2>2. CASE stage = "queued" /\ lane'.queue = Append(lane.queue, h)
    <3> DEFINE n == Len(lane.queue)
    <3>0. lane.queue \in Seq(Handlers) /\ n \in Nat
      BY <1>2 DEF Lanes
    <3>1. /\ Len(lane'.queue) = n + 1 /\ lane'.queue[n + 1] = h
          /\ \A i \in 1..n : lane'.queue[i] = lane.queue[i]
      BY <1>2, <2>2, <3>0
    <3>2. \A i \in 1..(n + 1) : handler'[lane'.queue[i]].at = "queued"
      <4>1. ASSUME NEW i \in 1..n PROVE handler'[lane'.queue[i]].at = "queued"
        BY <1>6, <3>1 DEF Inv, LaneSound, Others
      <4> QED BY <1>5, <1>6, <2>2, <3>0, <3>1, <4>1
    <3>3. \A i, j \in 1..(n + 1) : lane'.queue[i] = lane'.queue[j] => i = j
      <4>1. \A i, j \in 1..n : lane.queue[i] = lane.queue[j] => i = j
        BY DEF Inv, LaneSound
      <4>2. \A i \in 1..n : lane'.queue[i] # h
        BY <1>6, <3>1
      <4> QED BY <3>0, <3>1, <4>1, <4>2
    <3> QED BY <1>4, <1>7, <3>1, <3>2, <3>3 DEF Inv, LaneSound
  <2> QED BY <1>4, <2>1, <2>2
<1>9. StoreShape' /\ ClaimSound'
  <2>1. ~Holds(h)'
    BY <1>5, <1>6 DEF Holds
  <2> QED BY <1>1, <1>2, <1>6, <2>1, ClaimsIdle DEF Inv, StoreShape, store, Untouched, history, record
<1>10. GateShape' /\ TaskShape' /\ CountShape' /\ TaskSound'
  BY <1>1, <1>2, <1>6, QuietTasks, CalmUntouched
<1> QED BY <1>6, <1>8, <1>9, <1>10 DEF Inv

LEMMA TakeKept == ASSUME Inv, NEW answer \in Answers, Take(answer) PROVE Inv'
<1> DEFINE h == Head(lane.queue)
           m == handler[h].of
           x == Beginning(m, answer)
           n == Len(lane.queue)
<1>1. /\ lane.holder = 0 /\ lane.queue # <<>> /\ lane' = [holder |-> h, queue |-> Tail(lane.queue)]
      /\ handler' = [handler EXCEPT ![h] = x] /\ Claimed(m, h, answer)
      /\ UNCHANGED Untouched /\ delivered' = delivered
  BY DEF Take, Begin, Beginning
<1>2. lane \in Lanes /\ lane.queue \in Seq(Handlers) /\ n \in Nat \ {0} /\ h = lane.queue[1] /\ h \in Handlers
  BY <1>1 DEF Inv, HandlerShape, Lanes
<1>3. handler[h].at = "queued"
  BY <1>2 DEF Inv, LaneSound
<1>4. m \in Messages /\ ~(h > delivered)
  BY <1>2, <1>3 DEF Inv, HandlerShape
<1>5. x \in HandlerRecords /\ x.at = "claiming" /\ x.of = m /\ x.answer = answer
  BY <1>4, BeginningTypes DEF Inv
<1>6. Tail(lane.queue) \in Seq(Handlers) /\ Len(Tail(lane.queue)) = n - 1
      /\ \A i \in 1..(n - 1) : Tail(lane.queue)[i] = lane.queue[i + 1]
  BY <1>1, <1>2
<1>7. lane' \in Lanes /\ lane'.holder = h /\ lane'.queue = Tail(lane.queue)
  BY <1>1, <1>2, <1>6 DEF Lanes
<1>8. \A i \in 1..(n - 1) : i + 1 \in 1..n /\ lane.queue[i + 1] \in Handlers \ {h} /\ handler[lane.queue[i + 1]].at = "queued"
  <2> SUFFICES ASSUME NEW i \in 1..(n - 1)
               PROVE  i + 1 \in 1..n /\ lane.queue[i + 1] \in Handlers \ {h} /\ handler[lane.queue[i + 1]].at = "queued"
    OBVIOUS
  <2>1. i + 1 \in 1..n /\ 1 \in 1..n /\ i + 1 # 1
    BY <1>2
  <2>2. lane.queue[i + 1] \in Handlers /\ handler[lane.queue[i + 1]].at = "queued"
    BY <1>2, <2>1 DEF Inv, LaneSound
  <2>3. lane.queue[i + 1] # lane.queue[1]
    BY <2>1 DEF Inv, LaneSound
  <2> QED BY <1>2, <2>1, <2>2, <2>3
<1> HIDE DEF x, m, h, n
<1>9. handler' \in [Handlers -> HandlerRecords] /\ handler'[h] = x /\ Others(h)
  BY <1>1, <1>2, <1>5 DEF Inv, HandlerShape, Others
<1>10. HandlerShape'
  <2>1. ASSUME NEW k \in Handlers
        PROVE  /\ handler'[k].at = "idle" <=> k > delivered'
               /\ handler'[k].at \notin {"idle", "done"} => handler'[k].of \in Messages
               /\ handler'[k].at \in PlainStages => handler'[k].of \in Plain
               /\ handler'[k].at = "queued" => handler'[k].of \notin Stops
    <3>1. CASE k = h
      BY <1>1, <1>4, <1>5, <1>9, <3>1 DEF PlainStages
    <3>2. CASE k # h
      BY <1>1, <1>9, <3>2 DEF Inv, HandlerShape, Others
    <3> QED BY <3>1, <3>2
  <2> QED BY <1>1, <1>7, <1>9, <2>1 DEF Inv, HandlerShape
<1>11. LaneSound'
  <2>1. ASSUME NEW k \in Handlers, Working(k)' PROVE lane'.holder = k
    <3>1. k # h => ~Working(k)'
      BY <1>1, <1>2, <1>9, FreeLane DEF Inv, Others, Working
    <3> QED BY <1>7, <2>1, <3>1
  <2>2. \A i \in 1..(n - 1) : handler'[lane'.queue[i]].at = "queued"
    BY <1>6, <1>7, <1>8, <1>9 DEF Others
  <2>3. \A i, j \in 1..(n - 1) : lane'.queue[i] = lane'.queue[j] => i = j
    <3> SUFFICES ASSUME NEW i \in 1..(n - 1), NEW j \in 1..(n - 1), lane'.queue[i] = lane'.queue[j] PROVE i = j
      OBVIOUS
    <3>1. lane.queue[i + 1] = lane.queue[j + 1] /\ i + 1 \in 1..n /\ j + 1 \in 1..n
      BY <1>6, <1>7, <1>8
    <3>2. i + 1 = j + 1
      BY <3>1 DEF Inv, LaneSound, n
    <3> QED BY <3>2
  <2> QED BY <1>6, <1>7, <2>1, <2>2, <2>3 DEF LaneSound
<1>12. Taskless(h) /\ ~Holds(h)
  BY <1>3 DEF Taskless, Holds
<1>13. StoreShape' /\ ClaimSound'
  BY <1>1, <1>2, <1>4, <1>5, <1>9, <1>12, ClaimTaken DEF Inv, Untouched, history, record
<1>14. GateShape' /\ TaskShape' /\ CountShape' /\ TaskSound'
  BY <1>1, <1>2, <1>9, <1>12, QuietTasks, CalmUntouched
<1> QED BY <1>10, <1>11, <1>13, <1>14 DEF Inv

-----------------------------------------------------------------------------
(* Disposal, the tasks and the crash of the service.                       *)

(* A step that changes no handler and no claim.                            *)
LEMMA Unmoved ==
    ASSUME Inv, UNCHANGED <<handler, delivered, lane, store, record, crashes>>
    PROVE  HandlerShape' /\ LaneSound' /\ StoreShape' /\ ClaimSound' /\ CountShape'
<1>1. /\ handler' = handler /\ delivered' = delivered /\ lane' = lane
      /\ acts' = acts /\ answered' = answered /\ losses' = losses /\ crashes' = crashes
  BY DEF record
<1>2. memory' = memory /\ file' = file /\ faults' = faults
  BY DEF store
<1>3. HandlerShape' /\ StoreShape' /\ CountShape'
  BY <1>1, <1>2 DEF Inv, HandlerShape, StoreShape, CountShape
<1>4. LaneSound'
  BY <1>1 DEF Inv, LaneSound, Working
<1>5. ClaimSound'
  BY <1>1, <1>2 DEF Inv, ClaimSound, Holds, Reading
<1> QED BY <1>3, <1>4, <1>5

LEMMA BeginDisposalStep ==
    ASSUME Inv, ~disposed, disposal.count < MaxDisposal, BeginDisposal, closed' \in BOOLEAN,
           UNCHANGED <<delivered, active, store, task, history, crashes>>
    PROVE  Inv'
<1>1. /\ disposal' = [at |-> "cancelling", target |-> active, count |-> disposal.count + 1]
      /\ generation' = generation + 1 /\ lane' = [lane EXCEPT !.queue = <<>>]
      /\ handler' = [h \in Handlers |-> IF handler[h].at = "queued" THEN Gone(h) ELSE handler[h]]
  BY DEF BeginDisposal, EmptyLanes
<1>2. \A h \in Handlers : \/ handler'[h] = handler[h] /\ handler[h].at # "queued"
                          \/ handler'[h] = Gone(h) /\ handler[h].at = "queued"
  BY <1>1
<1>3. \A h \in Handlers : Gone(h) \in HandlerRecords /\ Gone(h).at = "done"
  BY GoneTypes DEF Inv
<1>4. lane' \in Lanes /\ lane'.holder = lane.holder /\ lane'.queue = <<>>
  <2>1. <<>> \in Seq(Handlers)
    OBVIOUS
  <2> QED BY <1>1, <2>1 DEF Inv, HandlerShape, Lanes
<1>5. HandlerShape'
  <2>1. handler' \in [Handlers -> HandlerRecords]
    BY <1>1, <1>3 DEF Inv, HandlerShape
  <2>2. ASSUME NEW k \in Handlers
        PROVE  /\ handler'[k].at = "idle" <=> k > delivered
               /\ handler'[k].at \notin {"idle", "done"} => handler'[k].of \in Messages
               /\ handler'[k].at \in PlainStages => handler'[k].of \in Plain
               /\ handler'[k].at = "queued" => handler'[k].of \notin Stops
    BY <1>2, <1>3 DEF Inv, HandlerShape, PlainStages
  <2> QED BY <1>4, <2>1, <2>2 DEF Inv, HandlerShape
<1>6. LaneSound'
  <2>1. \A k \in Handlers : Working(k)' => Working(k)
    BY <1>2, <1>3 DEF Working
  <2> QED BY <1>4, <2>1 DEF Inv, LaneSound
<1>7. StoreShape' /\ CountShape' /\ TaskShape'
  BY DEF Inv, StoreShape, CountShape, TaskShape, store, history, record
<1>8. ClaimSound'
  <2>1. \A k \in Handlers : (Holds(k)' <=> Holds(k)) /\ (Holds(k) => handler'[k].of = handler[k].of)
    BY <1>2, <1>3 DEF Holds, Reading
  <2> QED BY <2>1 DEF Inv, ClaimSound, store, history, record
<1>9. GateShape'
  <2>1. /\ disposal'.at = "cancelling" /\ disposal'.count = disposal.count + 1 /\ disposal' \in Disposals
    BY <1>1, RouterAssumption DEF Inv, GateShape, TaskShape, Disposals
  <2>2. generation \in Nat /\ disposal.count \in Nat /\ generation <= 2 * disposal.count
    BY DEF Inv, GateShape, Disposals
  <2>3. generation' + 1 <= 2 * disposal'.count /\ generation' \in 0..(2 * MaxDisposal)
    <3>1. MaxDisposal \in Nat
      BY RouterAssumption
    <3> QED BY <1>1, <2>1, <2>2, <3>1
  <2> QED BY <2>1, <2>3 DEF GateShape, disposed
<1>10. ASSUME NEW k \in Handlers, task'[k] = "running" PROVE Attended(k)'
  <2>1. Attended(k) /\ disposal.target = 0 /\ k # 0 /\ adrift' = adrift
    BY <1>10 DEF Inv, TaskSound, GateShape, disposed, Handlers, history
  <2>2. active = k => k = disposal'.target
    BY <1>1
  <2>3. handler[k].at = "withdrawing" => handler'[k].at = "withdrawing"
    BY <1>2
  <2> QED BY <2>1, <2>2, <2>3 DEF Attended
<1> QED BY <1>5, <1>6, <1>7, <1>8, <1>9, <1>10 DEF Inv, TaskSound

LEMMA DisposeBindingKept == Inv /\ DisposeBinding => Inv'
  BY BeginDisposalStep DEF DisposeBinding, Inv, GateShape

LEMMA DisposeKept == Inv /\ Dispose => Inv'
<1> SUFFICES ASSUME Inv, Dispose PROVE Inv'
  OBVIOUS
<1>1. closed' = TRUE /\ UNCHANGED <<delivered, active, store, task, history, crashes>>
  BY DEF Dispose
<1>2. CASE ~disposed /\ disposal.count < MaxDisposal /\ BeginDisposal
  BY <1>1, <1>2, BeginDisposalStep
<1>3. CASE disposed /\ UNCHANGED <<disposal, generation, lane, handler>>
  <2>1. HandlerShape' /\ LaneSound' /\ StoreShape' /\ ClaimSound' /\ CountShape'
    BY <1>1, <1>3, Unmoved DEF history
  <2>2. GateShape' /\ TaskShape'
    BY <1>1, <1>3 DEF Inv, GateShape, TaskShape, disposed, history
  <2>3. TaskSound'
    BY <1>1, <1>3 DEF Inv, TaskSound, Attended, Current, history
  <2> QED BY <2>1, <2>2, <2>3 DEF Inv
<1> QED BY <1>2, <1>3 DEF Dispose

LEMMA DisposeCancelsKept == Inv /\ DisposeCancels => Inv'
<1> SUFFICES ASSUME Inv, DisposeCancels PROVE Inv'
  OBVIOUS
<1>1. /\ disposal.at = "cancelling" /\ disposal' = [disposal EXCEPT !.at = "sending", !.target = 0]
      /\ UNCHANGED <<handler, delivered, lane, active, store, generation, closed, record, crashes>>
  BY DEF DisposeCancels
<1>2. disposal' \in Disposals /\ disposal'.at = "sending" /\ disposal'.target = 0 /\ disposal'.count = disposal.count
  BY <1>1 DEF Inv, GateShape, Disposals
<1>3. HandlerShape' /\ LaneSound' /\ StoreShape' /\ ClaimSound' /\ CountShape'
  BY <1>1, Unmoved
<1>4. GateShape'
  BY <1>1, <1>2 DEF Inv, GateShape, disposed
<1>5. /\ TaskShape' /\ adrift \subseteq adrift'
      /\ \A k \in Handlers : task'[k] = "running" => task[k] = "running" /\ (k = disposal.target => k \in adrift')
  <2>1. CASE disposal.target = 0
    BY <1>1, <2>1 DEF DisposeCancels, Inv, TaskShape, Handlers
  <2>2. CASE disposal.target # 0
    <3>1. Cancelled(disposal.target) /\ disposal.target \in Handlers
      BY <2>2 DEF DisposeCancels, Inv, GateShape, Disposals
    <3>2. /\ task' \in [Handlers -> {"none", "running", "stopping", "over"}] /\ adrift' \subseteq Handlers
          /\ adrift \subseteq adrift' /\ \A k \in Handlers \ {disposal.target} : task'[k] = task[k]
          /\ task'[disposal.target] = "running" => disposal.target \in adrift'
      BY <3>1, CancelledTask DEF Inv
    <3>3. task'[disposal.target] = "running" => task[disposal.target] = "running"
      BY <3>1 DEF Cancelled, Inv, TaskShape
    <3> QED BY <1>1, <3>2, <3>3 DEF Inv, TaskShape
  <2> QED BY <2>1, <2>2
<1>6. ASSUME NEW k \in Handlers, task'[k] = "running" PROVE Attended(k)'
  <2>1. Attended(k) /\ ~Current(k)
    BY <1>1, <1>5, <1>6 DEF Inv, TaskSound, Current, disposed
  <2> QED BY <1>1, <1>5, <1>6, <2>1 DEF Attended
<1> QED BY <1>3, <1>4, <1>5, <1>6 DEF Inv, TaskSound

LEMMA DisposeReturnsKept == Inv /\ DisposeReturns => Inv'
<1> SUFFICES ASSUME Inv, DisposeReturns PROVE Inv'
  OBVIOUS
<1>1. /\ disposal.at = "sending" /\ disposal' = [disposal EXCEPT !.at = "returned"]
      /\ UNCHANGED <<handler, delivered, lane, active, store, task, generation, closed, history, crashes>>
  BY DEF DisposeReturns
<1>2. disposal' \in Disposals /\ disposal'.at = "returned" /\ disposal'.target = disposal.target /\ disposal'.count = disposal.count
  BY <1>1 DEF Inv, GateShape, Disposals
<1>3. HandlerShape' /\ LaneSound' /\ StoreShape' /\ ClaimSound' /\ CountShape'
  BY <1>1, Unmoved DEF history
<1>4. GateShape' /\ TaskShape'
  BY <1>1, <1>2 DEF Inv, GateShape, TaskShape, disposed, history
<1>5. TaskSound'
  BY <1>1, <1>2 DEF Inv, TaskSound, Attended, Current, disposed, history
<1> QED BY <1>3, <1>4, <1>5 DEF Inv

LEMMA ActivateBindingKept == Inv /\ ActivateBinding => Inv'
<1> SUFFICES ASSUME Inv, ActivateBinding PROVE Inv'
  OBVIOUS
<1>1. /\ disposal.at = "returned" /\ disposal' = [disposal EXCEPT !.at = "none"] /\ generation' = generation + 1
      /\ UNCHANGED <<handler, delivered, lane, active, store, task, closed, history, crashes>>
  BY DEF ActivateBinding
<1>2. disposal' \in Disposals /\ disposal'.at = "none" /\ disposal'.target = disposal.target /\ disposal'.count = disposal.count
  BY <1>1 DEF Inv, GateShape, Disposals
<1>3. HandlerShape' /\ LaneSound' /\ StoreShape' /\ ClaimSound' /\ CountShape'
  BY <1>1, Unmoved DEF history
<1>4. GateShape' /\ TaskShape'
  <2>1. generation \in Nat /\ generation + 1 <= 2 * disposal.count /\ disposal.count \in 0..MaxDisposal
    BY <1>1 DEF Inv, GateShape, Disposals, disposed
  <2>2. generation' \in 0..(2 * MaxDisposal) /\ generation' <= 2 * disposal'.count
    BY <1>1, <1>2, <2>1, RouterAssumption
  <2> QED BY <1>1, <1>2, <2>2 DEF Inv, GateShape, TaskShape, disposed, history
<1>5. TaskSound'
  BY <1>1, <1>2 DEF Inv, TaskSound, Attended, Current, disposed, history
<1> QED BY <1>3, <1>4, <1>5 DEF Inv

LEMMA TaskEndsKept == ASSUME Inv, NEW h \in Handlers, TaskEnds(h) PROVE Inv'
<1>1. /\ task' = [task EXCEPT ![h] = "over"] /\ adrift' = adrift \ {h}
      /\ UNCHANGED <<handler, delivered, lane, active, store, gate, record, crashes>>
  BY DEF TaskEnds
<1>2. HandlerShape' /\ LaneSound' /\ StoreShape' /\ ClaimSound' /\ CountShape'
  BY <1>1, Unmoved
<1>3. GateShape' /\ TaskShape' /\ \A k \in Handlers : task'[k] = "running" => task[k] = "running" /\ k # h
  BY <1>1 DEF Inv, GateShape, TaskShape, disposed, gate
<1>4. TaskSound'
  BY <1>1, <1>3 DEF Inv, TaskSound, Attended, Current, disposed, gate
<1> QED BY <1>2, <1>3, <1>4 DEF Inv

LEMMA UnderwayHolds == \A h \in Handlers : Underway(h) => Holds(h)
  BY DEF Underway, Starting, Holds

LEMMA CrashKept == Inv /\ Crash => Inv'
<1> SUFFICES ASSUME Inv, Crash PROVE Inv'
  OBVIOUS
<1>1. /\ crashes < MaxCrash /\ crashes' = crashes + 1 /\ lane' = [holder |-> 0, queue |-> <<>>] /\ active' = 0
      /\ handler' = [h \in Handlers |-> IF h <= delivered THEN [Idle EXCEPT !.at = "done"] ELSE Idle]
      /\ memory' = file /\ adrift' = adrift \cup Running
      /\ generation' = 0 /\ disposal' = [disposal EXCEPT !.at = "none", !.target = 0] /\ closed' = FALSE
      /\ UNCHANGED <<delivered, file, faults, task>>
  BY DEF Crash
<1>0. answered' = answered /\ CountShape'
  <2>1. CASE UNCHANGED record
    BY <1>1, <2>1, RouterAssumption DEF Inv, CountShape, record
  <2>2. ASSUME NEW h \in Handlers, Underway(h), Lost(h) PROVE answered' = answered /\ CountShape'
    <3>1. handler[h].of \in Messages
      BY <2>2, HeldMessage, UnderwayHolds DEF Inv
    <3>2. answered' = answered /\ acts' \in [Messages -> Nat]
      BY <2>2, <3>1 DEF Inv, CountShape, Lost, Run
    <3>3. losses' \in 0..MaxLost /\ crashes' \in 0..MaxCrash
      BY <1>1, <2>2, RouterAssumption DEF Inv, CountShape, Lost
    <3> QED BY <3>2, <3>3 DEF Inv, CountShape
  <2> QED BY <2>1, <2>2 DEF Crash
<1>2. Idle \in HandlerRecords /\ Idle.at = "idle"
  BY IdleTypes
<1>3. [Idle EXCEPT !.at = "done"] \in HandlerRecords /\ [Idle EXCEPT !.at = "done"].at = "done"
  BY <1>2 DEF HandlerRecords, Stages
<1>4. /\ handler' \in [Handlers -> HandlerRecords]
      /\ \A k \in Handlers : handler'[k].at \in {"idle", "done"} /\ (handler'[k].at = "idle" <=> k > delivered)
  <2>1. \A k \in Handlers : k \in Nat /\ delivered \in Nat
    BY DEF Inv, HandlerShape, Handlers
  <2> QED BY <1>1, <1>2, <1>3, <2>1
<1>5. lane' \in Lanes /\ lane'.holder = 0 /\ lane'.queue = <<>>
  BY <1>1 DEF Lanes
<1>6. HandlerShape'
  BY <1>1, <1>4, <1>5 DEF Inv, HandlerShape, PlainStages
<1>7. LaneSound'
  BY <1>4, <1>5 DEF LaneSound, Working
<1>8. GateShape'
  <2>1. disposal \in Disposals
    BY DEF Inv, GateShape
  <2>2. disposal' \in Disposals /\ disposal'.at = "none" /\ disposal'.target = 0 /\ disposal'.count = disposal.count
    BY <1>1, <2>1 DEF Disposals
  <2>3. disposal.count \in 0..MaxDisposal
    BY <2>1 DEF Disposals
  <2>4. 0 <= 2 * disposal'.count /\ 0 \in 0..(2 * MaxDisposal)
    BY <2>2, <2>3, RouterAssumption
  <2>5. closed' \in BOOLEAN /\ generation' = 0
    BY <1>1
  <2> QED BY <2>2, <2>4, <2>5 DEF GateShape, disposed
<1>9. StoreShape' /\ TaskShape' /\ crashes' # 0
  BY <1>1 DEF Inv, StoreShape, TaskShape, CountShape, Running
<1>10. ClaimSound'
  <2>1. \A k \in Handlers : ~Holds(k)'
    BY <1>4 DEF Holds
  <2> QED BY <1>0, <1>1, <1>9, <2>1 DEF Inv, ClaimSound
<1>11. TaskSound'
  BY <1>1 DEF TaskSound, Attended, Running
<1> QED BY <1>0, <1>6, <1>7, <1>8, <1>9, <1>10, <1>11 DEF Inv

-----------------------------------------------------------------------------
(* The invariant, and what follows from it.                                *)

LEMMA InitInv == Init => Inv
<1> SUFFICES ASSUME Init PROVE Inv
  OBVIOUS
<1>1. HandlerShape
  <2>1. lane \in Lanes /\ delivered \in 0..MaxDelivery
    BY RouterAssumption DEF Init, Lanes
  <2>2. \A h \in Handlers : handler[h] = Idle /\ h > delivered
    BY DEF Init, Handlers
  <2>3. handler \in [Handlers -> HandlerRecords]
    BY IdleTypes DEF Init
  <2> QED BY <2>1, <2>2, <2>3, IdleTypes DEF HandlerShape, PlainStages
<1>2. LaneSound
  <2>1. lane.queue = <<>> /\ \A h \in Handlers : handler[h].at = "idle"
    BY IdleTypes DEF Init
  <2> QED BY <2>1 DEF LaneSound, Working
<1>3. GateShape
  <2>1. disposal \in Disposals /\ disposal.at = "none" /\ disposal.target = 0 /\ disposal.count = 0
    BY RouterAssumption DEF Init, Disposals
  <2>2. generation = 0 /\ 0 \in 0..(2 * MaxDisposal)
    BY RouterAssumption DEF Init
  <2>3. closed \in BOOLEAN
    BY DEF Init
  <2> QED BY <2>1, <2>2, <2>3 DEF GateShape, disposed
<1>4. StoreShape /\ TaskShape /\ CountShape
  BY RouterAssumption DEF Init, StoreShape, TaskShape, CountShape, Stores, Free
<1>5. ClaimSound
  <2>1. \A h \in Handlers : handler[h].at = "idle"
    BY IdleTypes DEF Init
  <2>2. answered = {} /\ \A m \in Messages : memory[m].state = "none"
    BY DEF Init, Free
  <2> QED BY <2>1, <2>2 DEF ClaimSound, Holds
<1>6. TaskSound
  BY DEF Init, TaskSound
<1> QED BY <1>1, <1>2, <1>3, <1>4, <1>5, <1>6 DEF Inv

LEMMA StepInv == Inv /\ [Next]_vars => Inv'
<1> SUFFICES ASSUME Inv, [Next]_vars PROVE Inv'
  OBVIOUS
<1>1. CASE \E m \in Messages : DeliverLater(m) \/ \E answer \in Answers : Deliver(m, answer) \/ DeliverStop(m, answer)
  BY <1>1, DeliverLaterKept, DeliverKept, DeliverStopKept
<1>2. CASE \E answer \in Answers : Take(answer)
  BY <1>2, TakeKept
<1>3. CASE \E h \in Handlers : HandlerStep(h) \/ ConsumeEnds(h) \/ TaskEnds(h)
  BY <1>3, HandlerStepKept, ConsumeEndsKept, TaskEndsKept
<1>4. CASE DisposeBinding \/ Dispose \/ DisposalStep \/ ActivateBinding \/ Crash
  BY <1>4, DisposeBindingKept, DisposeKept, DisposeCancelsKept, DisposeReturnsKept, ActivateBindingKept, CrashKept
     DEF DisposalStep
<1>5. CASE UNCHANGED vars
  <2>1. HandlerShape' /\ LaneSound' /\ StoreShape' /\ ClaimSound' /\ CountShape'
    BY <1>5, Unmoved DEF vars, history, record
  <2>2. GateShape' /\ TaskShape' /\ TaskSound'
    BY <1>5 DEF vars, history, gate, Inv, GateShape, TaskShape, TaskSound, Attended, Current, disposed
  <2> QED BY <2>1, <2>2 DEF Inv
<1> QED BY <1>1, <1>2, <1>3, <1>4, <1>5 DEF Next

LEMMA Invariance == Spec => []Inv
  BY InitInv, StepInv, PTL DEF Spec

(* Every handler, the lane, the gate, the tasks and both copies of the     *)
(* deduplication entries keep their types; the generation of a binding     *)
(* counts its disposals and activations.                                   *)
THEOREM TypeCorrect == Spec => []TypeOK
  BY Invariance, ShapeTypes, PTL

(* A message may only be acted on by a handler that holds its claim, which *)
(* none does once a handler has learned of the act.                        *)
LEMMA RunSpares ==
    ASSUME Inv, NEW h \in Handlers, Holds(h), Run(h)
    PROVE  \A m \in answered : acts'[m] = acts[m]
<1>1. handler[h].of \in Messages /\ handler[h].of \notin answered
  BY HeldMessage DEF Inv, ClaimSound
<1> QED BY <1>1 DEF Inv, CountShape, Run

LEMMA HandlerActs ==
    ASSUME NEW h \in Handlers, HandlerStep(h) \/ ConsumeEnds(h) \/ TaskEnds(h)
    PROVE  acts' = acts \/ (Holds(h) /\ Run(h))
<1>1. CASE \/ (\E ok \in BOOLEAN : ClaimAnswered(h, ok)) \/ ReleaseAnswered(h) \/ TextSettles(h)
           \/ ConsumeEnds(h) \/ TaskEnds(h)
  BY <1>1 DEF ClaimAnswered, ReleaseAnswered, TextSettles, ConsumeEnds, TaskEnds, HandlerOnly, Untouched, history, record
<1>2. CASE PlainStep(h)
  <2>1. ASSUME NEW ok \in BOOLEAN, Prepare(h, ok) \/ CallStart(h, ok) PROVE acts' = acts
    BY <2>1 DEF Prepare, CallStart, HandlerOnly, Untouched, history, record
  <2>2. ASSUME NEW ok \in BOOLEAN, StartAnswered(h, ok) \/ StartFails(h, ok) \/ StartAgain(h)
        PROVE  acts' = acts \/ (Holds(h) /\ Run(h))
    BY <2>2 DEF StartAnswered, StartFails, StartAgain, Starting, Holds, Act, Unanswered, Lost, record
  <2>3. CASE Withdraw(h) \/ PlainAdmitted(h) \/ PlainReceipt(h) \/ AnswerSettles(h)
    BY <2>3 DEF Withdraw, PlainAdmitted, PlainReceipt, AnswerSettles, history, record
  <2> QED BY <1>2, <2>1, <2>2, <2>3 DEF PlainStep
<1>3. CASE LocalStep(h)
  <2>1. ASSUME NEW ok \in BOOLEAN, Checked(h, ok) \/ ReadDone(h, ok) PROVE acts' = acts
    BY <2>1 DEF Checked, ReadDone, HandlerOnly, Untouched, history, record
  <2>2. ASSUME NEW ok \in BOOLEAN, NEW sent \in BOOLEAN, ActFails(h, ok) \/ MutationDone(h, ok) \/ ReadSettles(h, sent, ok)
        PROVE  acts' = acts \/ (Holds(h) /\ Run(h))
    BY <2>2 DEF ActFails, MutationDone, ReadSettles, Holds, Act, Unanswered, Lost, record
  <2>3. CASE LocalAdmitted(h) \/ ResponseSettles(h) \/ LocalReceipt(h) \/ Awaited(h)
    BY <2>3 DEF LocalAdmitted, ResponseSettles, LocalReceipt, Awaited, HandlerOnly, Untouched, history, record
  <2> QED BY <1>3, <2>1, <2>2, <2>3 DEF LocalStep
<1> QED BY <1>1, <1>2, <1>3 DEF HandlerStep

LEMMA OtherActs ==
    ASSUME \/ \E m \in Messages : DeliverLater(m) \/ \E answer \in Answers : Deliver(m, answer) \/ DeliverStop(m, answer)
           \/ \E answer \in Answers : Take(answer)
           \/ DisposeBinding \/ Dispose \/ DisposalStep \/ ActivateBinding
    PROVE  acts' = acts
  BY DEF DeliverLater, Deliver, DeliverStop, Take, DisposeBinding, Dispose, DisposalStep, DisposeCancels,
         DisposeReturns, ActivateBinding, Untouched, history, record

(* A message whose handler learned that it was acted on is never acted on  *)
(* again, for every number of deliveries, disposals, crashes, failed       *)
(* writes of the state file and lost answers.  Nothing is said of a        *)
(* message whose acts all went unanswered: the code starts it again.       *)
THEOREM ActedOnceHolds == Spec => ActedOnce
<1>1. Inv /\ [Next]_vars => [\A m \in answered : acts'[m] = acts[m]]_vars
  <2> SUFFICES ASSUME Inv, Next PROVE \A m \in answered : acts'[m] = acts[m]
    OBVIOUS
  <2>1. CASE \E h \in Handlers : HandlerStep(h) \/ ConsumeEnds(h) \/ TaskEnds(h)
    BY <2>1, HandlerActs, RunSpares
  <2>2. CASE Crash
    <3>1. CASE UNCHANGED record
      BY <3>1 DEF record
    <3>2. CASE \E h \in Handlers : Underway(h) /\ Lost(h)
      BY <3>2, UnderwayHolds, RunSpares DEF Lost
    <3> QED BY <2>2, <3>1, <3>2 DEF Crash
  <2>3. CASE acts' = acts
    BY <2>3
  <2> QED BY <2>1, <2>2, <2>3, OtherActs DEF Next
<1> QED BY <1>1, Invariance, PTL DEF Spec, ActedOnce

(* Without crashes and failed writes, no claim is left behind by a handler *)
(* that did not learn of an act on its message.                            *)
THEOREM NotSwallowedHolds == Spec => []NotSwallowed
<1>1. Inv => NotSwallowed
  <2> SUFFICES ASSUME Inv, crashes = 0, faults = 0, NEW m \in Messages, memory[m].state # "none",
                      handler[memory[m].owner].at = "done"
               PROVE  m \in answered
    BY DEF NotSwallowed
  <2>1. ASSUME m \notin answered PROVE FALSE
    <3>1. PICK h \in Handlers : memory[m].owner = h /\ Holds(h)
      BY <2>1 DEF Inv, ClaimSound
    <3> QED BY <3>1 DEF Holds
  <2> QED BY <2>1
<1> QED BY <1>1, Invariance, PTL

(* Two messages of a conversation are never handled at once, whatever      *)
(* disposals, activations and crashes come between.                        *)
THEOREM OneHandlerPerLaneHolds == Spec => []OneHandlerPerLane
<1>1. Inv => OneHandlerPerLane
  <2> SUFFICES ASSUME Inv PROVE OneHandlerPerLane
    OBVIOUS
  <2> DEFINE W == {h \in Handlers : /\ handler[h].of \in Messages \ Stops
                                    /\ handler[h].at \notin {"idle", "queued", "refusing", "done"}}
  <2>1. W \subseteq {lane.holder}
    BY DEF Inv, LaneSound, Working
  <2>2. Cardinality({lane.holder}) = 1 /\ IsFiniteSet({lane.holder})
    BY FS_Singleton
  <2>3. Cardinality(W) <= 1
    BY <2>1, <2>2, FS_Subset
  <2> QED BY <2>3 DEF OneHandlerPerLane
<1> QED BY <1>1, Invariance, PTL

(* A task whose handler is gone has ended, was cancelled or is about to    *)
(* be, whichever of start, admission, disposal and /stop came first, but   *)
(* for one whose cancel failed, whose stream broke or that outlived a      *)
(* crash of the service; a start nobody answered gives no task an id.      *)
THEOREM NoStrayTaskHolds == Spec => []NoStrayTask
<1>1. Inv => NoStrayTask
  BY DEF Inv, TaskSound, Attended, NoStrayTask
<1> QED BY <1>1, Invariance, PTL

-----------------------------------------------------------------------------
(* Who waits for whom.                                                     *)

ActiveStages == {"admitting", "receipting", "consuming", "answering"}
LocalStages == {"checking", "acting", "responding"}

(* The handler of a plain message is at work, or gone.                     *)
Settles(h) == (handler[h].of \in Plain /\ Working(h)) \/ handler[h].at = "done"

(* The lane's holder works and everyone queued is in its queue; the active *)
(* handler has a task and every /stop found such a handler active; only    *)
(* #runSlash and #runStop take the steps of a local command.               *)
WaitInv ==
    /\ lane.holder # 0 => Working(lane.holder)
    /\ \A h \in Handlers : handler[h].at = "queued" => \E i \in 1..Len(lane.queue) : lane.queue[i] = h
    /\ active # 0 => handler[active].of \in Plain /\ handler[active].at \in ActiveStages
    /\ \A h \in Handlers : handler[h].target # 0 => Settles(handler[h].target)
    /\ \A h \in Handlers : handler[h].at = "awaiting" => handler[h].of \in Stops /\ handler[h].target # 0
    /\ \A h \in Handlers : handler[h].at \in LocalStages => handler[h].of \notin Plain

LEMMA PlainIsNoStop == Plain \subseteq Messages \ Stops
  BY RouterAssumption DEF Messages

(* A handler that takes a step goes on with its work, or is gone.          *)
LEMMA SettlesKept ==
    ASSUME HandlerShape, NEW h \in Handlers, Others(h), StepOf(h), NEW k \in Handlers, Settles(k)
    PROVE  Settles(k)'
<1>1. CASE k # h
  BY <1>1 DEF Others, Settles, Working
<1>2. CASE k = h
  BY <1>2 DEF Settles, Working, StepOf, Leaves, Moves
<1> QED BY <1>1, <1>2

(* What a step of a handler must respect.                                  *)
LEMMA WaitStep ==
    ASSUME Inv, WaitInv, NEW h \in Handlers, StepOf(h),
           active' \in {0, active, h},
           active' = h => handler'[h].of \in Plain /\ handler'[h].at \in ActiveStages,
           handler'[h].target \in {0, handler[h].target, active},
           handler'[h].at = "awaiting" => handler'[h].of \in Stops /\ handler'[h].target # 0,
           handler'[h].at \in LocalStages => handler'[h].of \notin Plain
    PROVE  WaitInv'
<1>1. HandlerShape /\ HandlerShape' /\ Others(h) /\ active \in Handlers \cup {0} /\ 0 \notin Handlers
  BY StepShape DEF Inv, TaskShape, Handlers
<1>2. \A k \in Handlers : Settles(k) => Settles(k)'
  BY <1>1, SettlesKept
<1>3. /\ handler[h].at \notin {"idle", "queued", "done"} /\ handler'[h].at # "queued"
      /\ lane'.queue = lane.queue /\ lane'.holder \in {0, lane.holder}
      /\ lane'.holder = h => handler'[h].at \notin {"idle", "queued", "refusing", "done"} /\ handler'[h].of = handler[h].of
  <2>1. CASE Leaves(h)
    BY <1>1, <2>1, LaneLeft DEF HandlerShape, StepOf, Leaves
  <2>2. CASE Moves(h)
    BY <2>2 DEF StepOf, Moves
  <2> QED BY <2>1, <2>2 DEF StepOf
<1>4. (lane.holder # 0 => Working(lane.holder))'
  <2>1. lane.holder \in Handlers \cup {0}
    BY <1>1 DEF HandlerShape, Lanes
  <2>2. CASE lane'.holder = h
    BY <1>1, <1>3, <2>1, <2>2 DEF WaitInv, Working
  <2>3. CASE lane'.holder # h /\ lane'.holder # 0
    BY <1>1, <1>3, <2>1, <2>3 DEF WaitInv, Working, Others
  <2> QED BY <2>2, <2>3
<1>5. ASSUME NEW k \in Handlers, handler'[k].at = "queued" PROVE \E i \in 1..Len(lane'.queue) : lane'.queue[i] = k
  BY <1>1, <1>3, <1>5 DEF WaitInv, Others
<1>6. active' # 0 => handler'[active'].of \in Plain /\ handler'[active'].at \in ActiveStages
  BY <1>1 DEF WaitInv, Others
<1>7. ASSUME NEW k \in Handlers, handler'[k].target # 0 PROVE Settles(handler[k].target)'
  <2>1. handler'[k].target \in Handlers
    BY <1>1, <1>7 DEF HandlerShape, HandlerRecords
  <2>2. active # 0 => Settles(active)
    BY <1>1, PlainIsNoStop DEF WaitInv, Settles, Working, ActiveStages
  <2>3. handler'[k].target = handler[k].target \/ handler'[k].target = active
    BY <1>1, <1>7 DEF Others
  <2>4. ASSUME NEW t \in Handlers, t = handler'[k].target PROVE Settles(handler[k].target)'
    <3>1. Settles(t)
      BY <1>7, <2>2, <2>3, <2>4 DEF WaitInv
    <3>2. Settles(t)'
      BY <1>2, <3>1
    <3> QED BY <2>4, <3>2 DEF Settles, Working
  <2> QED BY <2>1, <2>4
<1>8. ASSUME NEW k \in Handlers, handler'[k].at = "awaiting" PROVE handler'[k].of \in Stops /\ handler'[k].target # 0
  BY <1>1, <1>8 DEF WaitInv, Others
<1>9. \A k \in Handlers : handler'[k].at \in LocalStages => handler'[k].of \notin Plain
  BY <1>1 DEF WaitInv, Others
<1> QED BY <1>4, <1>5, <1>6, <1>7, <1>8, <1>9 DEF WaitInv

LEMMA GoneTarget == \A h : Gone(h).target = 0
  BY DEF Gone, Idle

(* A handler goes on, or returns.                                          *)
LEMMA WaitContinue ==
    ASSUME Inv, WaitInv, NEW h \in Handlers, NEW stage \in Stages \ {"idle", "queued", "refusing", "done"},
           handler[h].at \notin {"idle", "queued", "refusing", "done"},
           stage \in PlainStages => handler[h].of \in Plain,
           stage = "awaiting" => handler[h].of \in Stops /\ handler[h].target # 0,
           stage \in LocalStages => handler[h].of \notin Plain,
           Continue(h, stage), delivered' = delivered, active' \in {0, active, h},
           active' = h => handler[h].of \in Plain /\ stage \in ActiveStages
    PROVE  WaitInv'
<1>1. StepOf(h) /\ handler'[h].at = stage /\ handler'[h].of = handler[h].of /\ handler'[h].target = handler[h].target
  BY Continued DEF Inv
<1> QED BY <1>1, WaitStep

LEMMA WaitReturn ==
    ASSUME Inv, WaitInv, NEW h \in Handlers, handler[h].at \notin {"idle", "queued", "done"},
           Return(h), delivered' = delivered, active' \in {0, active}, active' # h
    PROVE  WaitInv'
<1>1. StepOf(h) /\ handler'[h].at = "done"
  BY Returned DEF Inv
<1>2. handler'[h].target = 0
  BY GoneTarget DEF Return, Inv, HandlerShape
<1> QED BY <1>1, <1>2, WaitStep DEF LocalStages

LEMMA Quiet == UNCHANGED HandlerOnly => delivered' = delivered /\ active' = active
  BY DEF HandlerOnly, Untouched

(* The active handler works on a plain message, in one of four stages.     *)
LEMMA NotActive ==
    ASSUME WaitInv, NEW h \in Handlers, handler[h].of \notin Plain \/ handler[h].at \notin ActiveStages
    PROVE  active # h
<1>1. h # 0
  BY DEF Handlers
<1> QED BY <1>1 DEF WaitInv

LEMMA WaitRelease ==
    ASSUME Inv, WaitInv, NEW h \in Handlers, Holds(h), NEW stage \in {"releasing", "retracting"},
           Continue(h, stage), delivered' = delivered, active' = active
    PROVE  WaitInv'
<1>1. handler[h].at \notin {"idle", "queued", "refusing", "done"} \cup ActiveStages
  BY DEF Holds, ActiveStages
<1>2. active # h
  BY <1>1, NotActive
<1> QED BY <1>1, <1>2, WaitContinue DEF Stages, PlainStages, LocalStages

LEMMA WaitClaimAnswered == ASSUME Inv, WaitInv, NEW h \in Handlers, NEW ok \in BOOLEAN, ClaimAnswered(h, ok) PROVE WaitInv'
<1>1. handler[h].at = "claiming" /\ active' = active /\ delivered' = delivered /\ active # h
  BY Quiet, NotActive DEF ClaimAnswered, ActiveStages
<1>2. \/ Continue(h, "releasing") \/ Continue(h, "texting") \/ Return(h)
      \/ \E stage \in {"preparing", "checking"} : Continue(h, stage) /\ (stage = "preparing" <=> handler[h].of \in Plain)
  BY DEF ClaimAnswered, Release
<1>3. CASE Return(h)
  BY <1>1, <1>3, WaitReturn
<1>4. ASSUME NEW stage \in {"releasing", "texting", "preparing", "checking"}, Continue(h, stage),
             stage = "preparing" => handler[h].of \in Plain, stage = "checking" => handler[h].of \notin Plain
      PROVE  WaitInv'
  BY <1>1, <1>4, WaitContinue DEF Stages, Outbound, PlainStages, LocalStages
<1> QED BY <1>2, <1>3, <1>4

LEMMA WaitReleaseAnswered == ASSUME Inv, WaitInv, NEW h \in Handlers, ReleaseAnswered(h) PROVE WaitInv'
<1>1. handler[h].at \in {"releasing", "retracting"} /\ active' = active /\ delivered' = delivered /\ active # h
  BY Quiet, NotActive DEF ReleaseAnswered, ActiveStages
<1>2. CASE Continue(h, "texting")
  BY <1>1, <1>2, WaitContinue DEF Stages, Outbound, PlainStages, LocalStages
<1>3. CASE Return(h)
  BY <1>1, <1>3, WaitReturn
<1> QED BY <1>2, <1>3 DEF ReleaseAnswered

LEMMA WaitTextSettles == ASSUME Inv, WaitInv, NEW h \in Handlers, TextSettles(h) PROVE WaitInv'
<1>1. handler[h].at \in {"texting", "refusing"} /\ active' = active /\ delivered' = delivered /\ active # h /\ Return(h)
  BY Quiet, NotActive DEF TextSettles, ActiveStages
<1> QED BY <1>1, WaitReturn

LEMMA WaitPrepare == ASSUME Inv, WaitInv, NEW h \in Handlers, NEW ok \in BOOLEAN, Prepare(h, ok) PROVE WaitInv'
<1>1. /\ handler[h].at = "preparing" /\ UNCHANGED HandlerOnly /\ Holds(h) /\ handler[h].of \in Plain
      /\ active' = active /\ delivered' = delivered /\ active # h
  BY Quiet, NotActive DEF Prepare, Holds, Inv, HandlerShape, PlainStages, ActiveStages
<1>2. CASE Continue(h, "checked")
  BY <1>1, <1>2, WaitContinue DEF Stages, LocalStages
<1>3. CASE Release(h, ok)
  BY <1>1, <1>3, WaitRelease DEF Release
<1> QED BY <1>2, <1>3 DEF Prepare

LEMMA WaitCallStart == ASSUME Inv, WaitInv, NEW h \in Handlers, NEW ok \in BOOLEAN, CallStart(h, ok) PROVE WaitInv'
<1>1. /\ handler[h].at = "checked" /\ UNCHANGED HandlerOnly /\ Holds(h) /\ handler[h].of \in Plain
      /\ active' = active /\ delivered' = delivered /\ active # h
  BY Quiet, NotActive DEF CallStart, Holds, Inv, HandlerShape, PlainStages, ActiveStages
<1>2. CASE Continue(h, "starting")
  BY <1>1, <1>2, WaitContinue DEF Stages, LocalStages
<1>3. CASE Release(h, ok)
  BY <1>1, <1>3, WaitRelease DEF Release
<1> QED BY <1>2, <1>3 DEF CallStart

LEMMA WaitStartAgain == ASSUME Inv, WaitInv, NEW h \in Handlers, StartAgain(h) PROVE WaitInv'
<1>1. /\ handler[h].at = "starting" /\ handler[h].of \in Plain /\ Continue(h, "restarting")
      /\ active' = active /\ delivered' = delivered /\ active # h
  BY NotActive DEF StartAgain, Inv, HandlerShape, PlainStages, ActiveStages
<1> QED BY <1>1, WaitContinue DEF Stages, LocalStages

LEMMA WaitStartFails == ASSUME Inv, WaitInv, NEW h \in Handlers, NEW ok \in BOOLEAN, StartFails(h, ok) PROVE WaitInv'
  BY WaitRelease DEF StartFails, Starting, Holds, Release

LEMMA WaitStartAnswered == ASSUME Inv, WaitInv, NEW h \in Handlers, NEW ok \in BOOLEAN, StartAnswered(h, ok) PROVE WaitInv'
<1>1. handler[h].at \in {"starting", "restarting"} /\ delivered' = delivered /\ handler[h].of \in Plain /\ handler[h].of \in Messages
  BY DEF StartAnswered, Starting, Inv, HandlerShape, PlainStages
<1>2. CASE Admit(h, ok) /\ active' = h
  <2>1. /\ StepOf(h) /\ handler'[h].at = "admitting" /\ handler'[h].of = handler[h].of
        /\ handler'[h].target = handler[h].target
    BY <1>1, <1>2, AdmitStep DEF Inv
  <2> QED BY <1>1, <1>2, <2>1, WaitStep DEF ActiveStages, LocalStages
<1>3. CASE Continue(h, "withdrawing") /\ active' = active
  <2>1. active # h
    BY <1>1, NotActive DEF ActiveStages
  <2> QED BY <1>1, <1>3, <2>1, WaitContinue DEF Stages, LocalStages
<1> QED BY <1>2, <1>3 DEF StartAnswered

LEMMA WaitWithdraw == ASSUME Inv, WaitInv, NEW h \in Handlers, Withdraw(h) PROVE WaitInv'
<1>1. handler[h].at = "withdrawing" /\ active' = active /\ delivered' = delivered /\ active # h /\ Return(h)
  BY NotActive DEF Withdraw, ActiveStages
<1> QED BY <1>1, WaitReturn

(* The handler of a plain message that has a task, and forgets it when it  *)
(* returns.                                                                *)
LEMMA WaitPlain ==
    ASSUME Inv, WaitInv, NEW h \in Handlers, handler[h].of \in Plain, handler[h].at \in ActiveStages,
           delivered' = delivered,
           \/ active' = 0 /\ Continue(h, "withdrawing")
           \/ active' = active /\ \E stage \in ActiveStages : Continue(h, stage)
           \/ active' \in {0, active} /\ active' # h /\ Return(h)
    PROVE  WaitInv'
<1>1. handler[h].at \notin {"idle", "queued", "refusing", "done"} /\ h # 0
  BY DEF ActiveStages, Handlers
<1>2. CASE active' = 0 /\ Continue(h, "withdrawing")
  BY <1>1, <1>2, WaitContinue DEF Stages, LocalStages
<1>3. ASSUME NEW stage \in ActiveStages, active' = active, Continue(h, stage) PROVE WaitInv'
  <2>1. stage \in Stages \ {"idle", "queued", "refusing", "done"} /\ stage \notin {"awaiting"} \cup LocalStages
    BY DEF ActiveStages, Stages, Outbound, LocalStages
  <2> QED BY <1>1, <1>3, <2>1, WaitContinue
<1>4. CASE active' \in {0, active} /\ active' # h /\ Return(h)
  BY <1>1, <1>4, WaitReturn
<1> QED BY <1>2, <1>3, <1>4

LEMMA WaitPlainStages ==
    ASSUME Inv, WaitInv, NEW h \in Handlers,
           PlainAdmitted(h) \/ PlainReceipt(h) \/ ConsumeEnds(h) \/ AnswerSettles(h)
    PROVE  WaitInv'
<1>0. h # 0
  BY DEF Handlers
<1>1. handler[h].of \in Plain /\ handler[h].at \in ActiveStages /\ delivered' = delivered
  BY DEF PlainAdmitted, PlainReceipt, ConsumeEnds, AnswerSettles, ActiveStages, Inv, HandlerShape, PlainStages
<1>2. CASE PlainAdmitted(h) \/ PlainReceipt(h)
  BY <1>0, <1>1, <1>2, WaitPlain DEF PlainAdmitted, PlainReceipt, ActiveStages
<1>3. CASE ConsumeEnds(h) \/ AnswerSettles(h)
  BY <1>0, <1>1, <1>3, WaitPlain DEF ConsumeEnds, AnswerSettles, Forget, ActiveStages
<1> QED BY <1>2, <1>3

LEMMA WaitChecked == ASSUME Inv, WaitInv, NEW h \in Handlers, NEW ok \in BOOLEAN, Checked(h, ok) PROVE WaitInv'
<1>1. /\ handler[h].at = "checking" /\ UNCHANGED HandlerOnly /\ Holds(h)
      /\ active' = active /\ delivered' = delivered /\ active # h
  BY Quiet, NotActive DEF Checked, Holds, ActiveStages
<1>2. CASE Release(h, ok)
  BY <1>1, <1>2, WaitRelease DEF Release
<1>3. CASE /\ handler' = [handler EXCEPT ![h].at = IF handler[h].of \in Stops /\ active = 0
                                                   THEN "responding" ELSE "acting",
                                         ![h].target = IF handler[h].of \in Stops THEN active ELSE 0]
           /\ lane' = lane
  <2> DEFINE stage == IF handler[h].of \in Stops /\ active = 0 THEN "responding" ELSE "acting"
             target == IF handler[h].of \in Stops THEN active ELSE 0
             x == [handler[h] EXCEPT !.at = stage, !.target = target]
  <2>1. /\ handler[h] \in HandlerRecords /\ stage \in {"responding", "acting"} /\ target \in Handlers \cup {0}
        /\ target \in {0, active}
    BY DEF Inv, HandlerShape, TaskShape
  <2>2. handler' = [handler EXCEPT ![h] = x]
    BY <1>3, <2>1 DEF Inv, HandlerShape, HandlerRecords
  <2> HIDE DEF stage, target
  <2>3. x \in HandlerRecords /\ x.at = stage /\ x.of = handler[h].of /\ x.generation = handler[h].generation /\ x.target = target
    BY <2>1 DEF HandlerRecords, Stages, Outbound
  <2> HIDE DEF x
  <2>4. handler'[h] = x
    BY <2>2 DEF Inv, HandlerShape
  <2>5. StepOf(h)
    BY <1>1, <1>3, <2>1, <2>2, <2>3, <2>4 DEF StepOf, Moves, PlainStages
  <2>6. handler[h].of \notin Plain
    BY <1>1 DEF WaitInv, LocalStages
  <2> QED BY <1>1, <2>1, <2>3, <2>4, <2>5, <2>6, WaitStep
<1> QED BY <1>2, <1>3 DEF Checked

LEMMA WaitActFails == ASSUME Inv, WaitInv, NEW h \in Handlers, NEW ok \in BOOLEAN, ActFails(h, ok) PROVE WaitInv'
  BY WaitRelease DEF ActFails, Holds, Release

LEMMA WaitReadDone == ASSUME Inv, WaitInv, NEW h \in Handlers, NEW ok \in BOOLEAN, ReadDone(h, ok) PROVE WaitInv'
<1>1. /\ handler[h].at = "acting" /\ UNCHANGED HandlerOnly /\ Holds(h)
      /\ active' = active /\ delivered' = delivered /\ active # h /\ handler[h].of \notin Plain
  BY Quiet, NotActive DEF ReadDone, Holds, ActiveStages, WaitInv, LocalStages
<1>2. CASE Continue(h, "responding")
  BY <1>1, <1>2, WaitContinue DEF Stages, Outbound, PlainStages
<1>3. CASE Continue(h, "retracting")
  BY <1>1, <1>3, WaitRelease
<1> QED BY <1>2, <1>3 DEF ReadDone

(* A local command is admitted.                                            *)
LEMMA WaitAdmit ==
    ASSUME Inv, WaitInv, NEW h \in Handlers, handler[h].at \in {"acting", "responding"}, NEW ok \in BOOLEAN,
           Admit(h, ok), delivered' = delivered, active' = active
    PROVE  WaitInv'
<1>1. /\ StepOf(h) /\ handler'[h].at = "admitting" /\ handler'[h].of = handler[h].of
      /\ handler'[h].target = handler[h].target
  BY AdmitStep DEF Inv
<1>2. active # h
  BY NotActive DEF ActiveStages
<1> QED BY <1>1, <1>2, WaitStep DEF LocalStages

LEMMA WaitMutationDone == ASSUME Inv, WaitInv, NEW h \in Handlers, NEW ok \in BOOLEAN, MutationDone(h, ok) PROVE WaitInv'
  BY WaitAdmit DEF MutationDone

LEMMA WaitReadSettles ==
    ASSUME Inv, WaitInv, NEW h \in Handlers, NEW sent \in BOOLEAN, NEW ok \in BOOLEAN, ReadSettles(h, sent, ok)
    PROVE  WaitInv'
<1>1. handler[h].at = "responding" /\ delivered' = delivered /\ active' = active /\ active # h
  BY NotActive DEF ReadSettles, ActiveStages
<1>2. CASE Admit(h, ok)
  BY <1>1, <1>2, WaitAdmit
<1>3. CASE Continue(h, "retracting")
  BY <1>1, <1>3, WaitContinue DEF Stages, PlainStages, LocalStages
<1> QED BY <1>2, <1>3 DEF ReadSettles

(* Only a /stop that found a task awaits.                                  *)
LEMMA WaitFinish ==
    ASSUME Inv, WaitInv, NEW h \in Handlers, handler[h].at \in {"admitting", "responding", "receipting"},
           Local(h) \/ handler[h].at = "responding", Finish(h), delivered' = delivered, active' = active, active # h
    PROVE  WaitInv'
<1>1. CASE Return(h)
  BY <1>1, WaitReturn
<1>2. CASE ~Reading(h) /\ handler[h].of \notin Mutations /\ Continue(h, "awaiting")
  <2>1. handler[h].of \in Stops /\ handler[h].target # 0
    BY <1>2 DEF Inv, HandlerShape, Messages, Reading, Local, WaitInv, LocalStages
  <2> QED BY <1>2, <2>1, WaitContinue DEF Stages, PlainStages, LocalStages
<1> QED BY <1>1, <1>2 DEF Finish

LEMMA WaitLocal ==
    ASSUME Inv, WaitInv, NEW h \in Handlers, LocalAdmitted(h) \/ ResponseSettles(h) \/ LocalReceipt(h)
    PROVE  WaitInv'
<1>1. /\ handler[h].at \in {"admitting", "responding", "receipting"} /\ handler[h].of \notin Plain
      /\ active' = active /\ delivered' = delivered /\ active # h
  BY Quiet, NotActive DEF LocalAdmitted, ResponseSettles, LocalReceipt, Local, WaitInv, LocalStages
<1>2. CASE Finish(h)
  BY <1>1, <1>2, WaitFinish DEF Local
<1>3. ASSUME NEW stage \in {"receipting", "responding"}, Continue(h, stage) PROVE WaitInv'
  BY <1>1, <1>3, WaitContinue DEF Stages, Outbound, PlainStages
<1> QED BY <1>2, <1>3 DEF LocalAdmitted, ResponseSettles, LocalReceipt

LEMMA WaitAwaited == ASSUME Inv, WaitInv, NEW h \in Handlers, Awaited(h) PROVE WaitInv'
<1>1. handler[h].at = "awaiting" /\ active' = active /\ delivered' = delivered /\ active # h /\ Return(h)
  BY Quiet, NotActive DEF Awaited, ActiveStages
<1> QED BY <1>1, WaitReturn

LEMMA WaitHandlerStep == ASSUME Inv, WaitInv, NEW h \in Handlers, HandlerStep(h) \/ ConsumeEnds(h) PROVE WaitInv'
<1>1. CASE (\E ok \in BOOLEAN : ClaimAnswered(h, ok)) \/ ReleaseAnswered(h) \/ TextSettles(h)
  BY <1>1, WaitClaimAnswered, WaitReleaseAnswered, WaitTextSettles
<1>2. CASE PlainStep(h) \/ ConsumeEnds(h)
  BY <1>2, WaitPrepare, WaitCallStart, WaitStartAnswered, WaitStartAgain, WaitStartFails, WaitWithdraw, WaitPlainStages DEF PlainStep
<1>3. CASE LocalStep(h)
  BY <1>3, WaitChecked, WaitActFails, WaitReadDone, WaitMutationDone, WaitReadSettles, WaitLocal, WaitAwaited DEF LocalStep
<1> QED BY <1>1, <1>2, <1>3 DEF HandlerStep

(* A handler that begins, waits or is refused; nobody counted on it.       *)
LEMMA WaitArrival ==
    ASSUME Inv, WaitInv, NEW h \in Handlers, handler[h].at \in {"idle", "queued"}, Others(h), active' = active,
           handler'[h].target = 0, handler'[h].at \in {"claiming", "refusing", "queued"},
           (lane.holder # 0 => Working(lane.holder))',
           \A k \in Handlers : handler'[k].at = "queued" => \E i \in 1..Len(lane'.queue) : lane'.queue[i] = k
    PROVE  WaitInv'
<1>1. HandlerShape /\ active \in Handlers \cup {0} /\ 0 \notin Handlers /\ active # h /\ ~Settles(h)
  BY DEF Inv, TaskShape, Handlers, WaitInv, ActiveStages, Settles, Working
<1>2. active' # 0 => handler'[active'].of \in Plain /\ handler'[active'].at \in ActiveStages
  BY <1>1 DEF WaitInv, Others
<1>3. ASSUME NEW k \in Handlers, handler'[k].target # 0 PROVE Settles(handler[k].target)'
  <2>1. k # h /\ handler'[k] = handler[k]
    BY <1>3 DEF Others
  <2>2. handler[k].target \in Handlers /\ Settles(handler[k].target)
    BY <1>1, <1>3, <2>1 DEF HandlerShape, HandlerRecords, WaitInv
  <2>3. handler'[handler[k].target] = handler[handler[k].target]
    BY <1>1, <2>2 DEF Others
  <2> QED BY <2>1, <2>2, <2>3 DEF Settles, Working
<1>4. ASSUME NEW k \in Handlers PROVE handler'[k].at = "awaiting" => handler'[k].of \in Stops /\ handler'[k].target # 0
  BY DEF WaitInv, Others
<1>5. ASSUME NEW k \in Handlers PROVE handler'[k].at \in LocalStages => handler'[k].of \notin Plain
  BY DEF WaitInv, Others, LocalStages
<1> QED BY <1>2, <1>3, <1>4, <1>5 DEF WaitInv

LEMMA FirstTarget ==
    ASSUME NEW m, NEW answer, NEW stage PROVE Beginning(m, answer).target = 0 /\ Waiting(stage, m).target = 0
  BY DEF Beginning, Waiting, Idle

LEMMA WaitDeliver == ASSUME Inv, WaitInv, NEW m \in Messages, NEW answer \in Answers, Deliver(m, answer) PROVE WaitInv'
<1> DEFINE x == Beginning(m, answer)
<1>0. PICK h \in Handlers : h = delivered'
  BY RouterAssumption DEF Inv, HandlerShape, Open, Handlers, Deliver
<1>1. /\ Open /\ delivered' = delivered + 1 /\ lane = [holder |-> 0, queue |-> <<>>] /\ m \notin Stops
      /\ lane' = [lane EXCEPT !.holder = h] /\ handler' = [handler EXCEPT ![h] = x] /\ active' = active
  BY <1>0 DEF Deliver, Begin, Beginning, Untouched
<1>2. x \in HandlerRecords /\ x.at = "claiming" /\ x.of = m /\ x.target = 0
  BY BeginningTypes, FirstTarget DEF Inv
<1> HIDE DEF x
<1>3. lane \in Lanes /\ lane' \in Lanes /\ lane'.holder = h /\ lane.queue = <<>>
  BY <1>1 DEF Inv, HandlerShape, Lanes
<1>4. handler'[h] = x /\ Others(h) /\ handler[h].at = "idle"
  <2>0. /\ h = delivered + 1 /\ delivered' = h /\ lane' \in Lanes /\ Open /\ handler' = [handler EXCEPT ![h] = x]
        /\ x.at \in {"claiming", "refusing", "queued"} /\ x.of \in Messages /\ (x.at = "queued" => x.of \notin Stops)
    BY <1>0, <1>1, <1>2, <1>3
  <2>1. handler'[h] = x /\ Others(h)
    BY <1>2, <2>0, Arrived
  <2>2. h > delivered
    BY <1>0, <1>1 DEF Inv, HandlerShape
  <2> QED BY <2>1, <2>2 DEF Inv, HandlerShape
<1>5. (lane.holder # 0 => Working(lane.holder))'
  BY <1>1, <1>2, <1>3, <1>4 DEF Working
<1>6. \A k \in Handlers : handler'[k].at # "queued"
  BY <1>2, <1>3, <1>4 DEF WaitInv, Others
<1> QED BY <1>1, <1>2, <1>4, <1>5, <1>6, WaitArrival

LEMMA WaitDeliverStop ==
    ASSUME Inv, WaitInv, NEW m \in Messages, NEW answer \in Answers, DeliverStop(m, answer) PROVE WaitInv'
<1> DEFINE x == Beginning(m, answer)
<1>0. PICK h \in Handlers : h = delivered'
  BY RouterAssumption DEF Inv, HandlerShape, Open, Handlers, DeliverStop
<1>1. /\ Open /\ delivered' = delivered + 1 /\ lane' = lane
      /\ handler' = [handler EXCEPT ![h] = x] /\ active' = active
  BY <1>0 DEF DeliverStop, Begin, Beginning, Untouched
<1>2. x \in HandlerRecords /\ x.at = "claiming" /\ x.of = m /\ x.target = 0
  BY BeginningTypes, FirstTarget DEF Inv
<1> HIDE DEF x
<1>3. lane \in Lanes /\ lane.holder \in Handlers \cup {0}
  BY DEF Inv, HandlerShape, Lanes
<1>4. handler'[h] = x /\ Others(h) /\ handler[h].at = "idle"
  <2>1. handler'[h] = x /\ Others(h)
    BY <1>0, <1>1, <1>2, <1>3, Arrived, ZenonT(60)
  <2>2. h > delivered
    BY <1>0, <1>1 DEF Inv, HandlerShape
  <2> QED BY <2>1, <2>2 DEF Inv, HandlerShape
<1>5. (lane.holder # 0 => Working(lane.holder))'
  BY <1>1, <1>3, <1>4 DEF Working, WaitInv, Others
<1>6. \A k \in Handlers : handler'[k].at = "queued" => \E i \in 1..Len(lane'.queue) : lane'.queue[i] = k
  BY <1>1, <1>2, <1>4 DEF WaitInv, Others
<1> QED BY <1>1, <1>2, <1>4, <1>5, <1>6, WaitArrival

LEMMA WaitDeliverLater == ASSUME Inv, WaitInv, NEW m \in Messages, DeliverLater(m) PROVE WaitInv'
<1>0. PICK h \in Handlers : h = delivered'
  BY RouterAssumption DEF Inv, HandlerShape, Open, Handlers, DeliverLater
<1>1. /\ Open /\ delivered' = delivered + 1 /\ active' = active /\ m \notin Stops
      /\ \/ handler' = [handler EXCEPT ![h] = Waiting("refusing", m)] /\ lane' = lane
         \/ /\ handler' = [handler EXCEPT ![h] = Waiting("queued", m)]
            /\ lane' = [lane EXCEPT !.queue = Append(lane.queue, h)]
  BY <1>0 DEF DeliverLater, Waiting, Untouched
<1>2. lane \in Lanes /\ Append(lane.queue, h) \in Seq(Handlers) /\ lane.holder \in Handlers \cup {0}
  BY DEF Inv, HandlerShape, Lanes
<1>3. PICK stage \in {"refusing", "queued"} :
          /\ handler' = [handler EXCEPT ![h] = Waiting(stage, m)]
          /\ stage = "refusing" => lane' = lane
          /\ stage = "queued" => lane' = [lane EXCEPT !.queue = Append(lane.queue, h)]
  BY <1>1
<1>4. /\ lane' \in Lanes /\ lane'.holder = lane.holder
      /\ \/ stage = "refusing" /\ lane'.queue = lane.queue
         \/ stage = "queued" /\ lane'.queue = Append(lane.queue, h)
  <2>1. CASE stage = "refusing"
    BY <1>2, <1>3, <2>1
  <2>2. CASE stage = "queued"
    BY <1>2, <1>3, <2>2 DEF Lanes
  <2> QED BY <2>1, <2>2
<1> DEFINE x == Waiting(stage, m)
<1>5. x \in HandlerRecords /\ x.at = stage /\ x.of = m /\ x.target = 0 /\ handler' = [handler EXCEPT ![h] = x]
  BY <1>3, WaitingTypes, FirstTarget
<1> HIDE DEF x
<1>6. handler'[h] = x /\ Others(h) /\ handler[h].at = "idle"
  <2>0. /\ h = delivered + 1 /\ delivered' = h /\ lane' \in Lanes /\ Open /\ handler' = [handler EXCEPT ![h] = x]
        /\ x.at \in {"claiming", "refusing", "queued"} /\ x.of \in Messages /\ (x.at = "queued" => x.of \notin Stops)
    BY <1>0, <1>1, <1>4, <1>5
  <2>1. handler'[h] = x /\ Others(h)
    BY <1>5, <2>0, Arrived
  <2>2. h > delivered
    BY <1>0, <1>1 DEF Inv, HandlerShape
  <2> QED BY <2>1, <2>2 DEF Inv, HandlerShape
<1>7. (lane.holder # 0 => Working(lane.holder))'
  BY <1>2, <1>4, <1>6 DEF Working, WaitInv, Others
<1>8. ASSUME NEW k \in Handlers, handler'[k].at = "queued" PROVE \E i \in 1..Len(lane'.queue) : lane'.queue[i] = k
  <2>1. CASE stage = "refusing"
    BY <1>4, <1>5, <1>6, <1>8, <2>1 DEF WaitInv, Others
  <2>2. CASE stage = "queued"
    <3>1. /\ lane.queue \in Seq(Handlers) /\ Len(lane'.queue) = Len(lane.queue) + 1 /\ lane'.queue[Len(lane.queue) + 1] = h
          /\ \A i \in 1..Len(lane.queue) : i \in 1..Len(lane'.queue) /\ lane'.queue[i] = lane.queue[i]
          /\ Len(lane.queue) + 1 \in 1..Len(lane'.queue)
      BY <1>2, <1>4, <2>2 DEF Lanes
    <3>2. CASE k = h
      BY <3>1, <3>2
    <3>3. CASE k # h
      BY <1>6, <1>8, <3>1, <3>3 DEF WaitInv, Others
    <3> QED BY <3>2, <3>3
  <2> QED BY <2>1, <2>2
<1> QED BY <1>1, <1>5, <1>6, <1>7, <1>8, WaitArrival

LEMMA WaitTake == ASSUME Inv, WaitInv, NEW answer \in Answers, Take(answer) PROVE WaitInv'
<1> DEFINE h == Head(lane.queue)
           m == handler[h].of
           x == Beginning(m, answer)
<1>1. /\ lane.queue # <<>> /\ lane' = [holder |-> h, queue |-> Tail(lane.queue)]
      /\ handler' = [handler EXCEPT ![h] = x] /\ active' = active
  BY DEF Take, Begin, Beginning, Untouched
<1>2. /\ lane.queue \in Seq(Handlers) /\ Len(lane.queue) \in Nat \ {0} /\ h = lane.queue[1] /\ h \in Handlers
  BY <1>1 DEF Inv, HandlerShape, Lanes
<1>3. handler[h].at = "queued" /\ m \in Messages /\ m \notin Stops
  BY <1>2 DEF Inv, LaneSound, HandlerShape
<1>4. x.at = "claiming" /\ x.of = m /\ x.target = 0
  BY <1>3, BeginningTypes, FirstTarget DEF Inv
<1>5. /\ Len(Tail(lane.queue)) = Len(lane.queue) - 1 /\ lane'.holder = h /\ lane'.queue = Tail(lane.queue)
      /\ \A i \in 1..(Len(lane.queue) - 1) : Tail(lane.queue)[i] = lane.queue[i + 1]
  BY <1>1, <1>2
<1> HIDE DEF x, m, h
<1>6. handler'[h] = x /\ Others(h)
  BY <1>1, <1>2 DEF Inv, HandlerShape, Others
<1>7. (lane.holder # 0 => Working(lane.holder))'
  BY <1>3, <1>4, <1>5, <1>6 DEF Working
<1>8. ASSUME NEW k \in Handlers, handler'[k].at = "queued" PROVE \E i \in 1..Len(lane'.queue) : lane'.queue[i] = k
  <2>1. k # h /\ handler[k].at = "queued"
    BY <1>4, <1>6, <1>8 DEF Others
  <2>2. PICK i \in 1..Len(lane.queue) : lane.queue[i] = k
    BY <2>1 DEF WaitInv
  <2>3. i # 1 /\ i - 1 \in 1..(Len(lane.queue) - 1) /\ (i - 1) + 1 = i
    BY <1>2, <2>1, <2>2
  <2>4. lane'.queue[i - 1] = k
    BY <1>5, <2>2, <2>3
  <2> QED BY <1>5, <2>3, <2>4
<1> QED BY <1>1, <1>2, <1>3, <1>4, <1>6, <1>7, <1>8, WaitArrival

LEMMA WaitBeginDisposal == ASSUME Inv, WaitInv, BeginDisposal, active' = active PROVE WaitInv'
<1>1. /\ lane' = [lane EXCEPT !.queue = <<>>]
      /\ handler' = [h \in Handlers |-> IF handler[h].at = "queued" THEN Gone(h) ELSE handler[h]]
  BY DEF BeginDisposal, EmptyLanes
<1>2. \A h \in Handlers : \/ handler'[h] = handler[h] /\ handler[h].at # "queued"
                          \/ handler'[h] = Gone(h) /\ handler[h].at = "queued"
  BY <1>1
<1>3. \A h \in Handlers : Gone(h).at = "done" /\ Gone(h).target = 0
  BY GoneTypes, GoneTarget DEF Inv
<1>4. lane'.holder = lane.holder /\ lane.holder \in Handlers \cup {0} /\ active \in Handlers \cup {0} /\ HandlerShape
  BY <1>1 DEF Inv, HandlerShape, Lanes, TaskShape
<1>5. (lane.holder # 0 => Working(lane.holder))'
  BY <1>2, <1>4 DEF WaitInv, Working
<1>6. \A k \in Handlers : handler'[k].at # "queued"
  BY <1>2, <1>3
<1>7. active' # 0 => handler'[active'].of \in Plain /\ handler'[active'].at \in ActiveStages
  BY <1>2, <1>4 DEF WaitInv, ActiveStages
<1>8. ASSUME NEW k \in Handlers, handler'[k].target # 0 PROVE Settles(handler[k].target)'
  <2>1. handler'[k] = handler[k]
    BY <1>2, <1>3, <1>8
  <2>2. handler[k].target \in Handlers /\ Settles(handler[k].target)
    BY <1>4, <1>8, <2>1 DEF HandlerShape, HandlerRecords, WaitInv
  <2>3. handler'[handler[k].target] = handler[handler[k].target]
    BY <1>2, <2>2 DEF Settles, Working
  <2> QED BY <2>1, <2>2, <2>3 DEF Settles, Working
<1>9. \A k \in Handlers : /\ handler'[k].at = "awaiting" => handler'[k].of \in Stops /\ handler'[k].target # 0
                          /\ handler'[k].at \in LocalStages => handler'[k].of \notin Plain
  BY <1>2, <1>3 DEF WaitInv, LocalStages
<1> QED BY <1>5, <1>6, <1>7, <1>8, <1>9 DEF WaitInv

LEMMA WaitUnmoved == WaitInv /\ UNCHANGED <<handler, lane, active>> => WaitInv'
  BY DEF WaitInv, Settles, Working

LEMMA WaitOutside ==
    ASSUME Inv, WaitInv,
           \/ DisposeBinding \/ Dispose \/ DisposalStep \/ ActivateBinding
           \/ (\E h \in Handlers : TaskEnds(h)) \/ UNCHANGED vars
    PROVE  WaitInv'
<1>1. CASE BeginDisposal /\ active' = active
  BY <1>1, WaitBeginDisposal
<1>2. CASE UNCHANGED <<handler, lane, active>>
  BY <1>2, WaitUnmoved
<1> QED BY <1>1, <1>2
    DEF DisposeBinding, Dispose, DisposalStep, DisposeCancels, DisposeReturns, ActivateBinding, TaskEnds, vars

LEMMA WaitCrash == Inv /\ Crash => WaitInv'
<1> SUFFICES ASSUME Inv, Crash PROVE WaitInv'
  OBVIOUS
<1>1. /\ handler' = [h \in Handlers |-> IF h <= delivered THEN [Idle EXCEPT !.at = "done"] ELSE Idle]
      /\ lane' = [holder |-> 0, queue |-> <<>>] /\ active' = 0
  BY DEF Crash
<1>2. \A h \in Handlers : handler'[h].at \in {"idle", "done"} /\ handler'[h].target = 0
  BY <1>1 DEF Idle
<1>3. lane'.holder = 0
  BY <1>1
<1> QED BY <1>1, <1>2, <1>3 DEF WaitInv, LocalStages

LEMMA WaitInit == Init => WaitInv
<1> SUFFICES ASSUME Init PROVE WaitInv
  OBVIOUS
<1>1. \A h \in Handlers : handler[h].at = "idle" /\ handler[h].target = 0
  BY DEF Init, Idle
<1> QED BY <1>1 DEF Init, WaitInv, LocalStages

LEMMA WaitNext == Inv /\ WaitInv /\ [Next]_vars => WaitInv'
<1> SUFFICES ASSUME Inv, WaitInv, [Next]_vars PROVE WaitInv'
  OBVIOUS
<1>1. CASE \E m \in Messages : DeliverLater(m) \/ \E answer \in Answers : Deliver(m, answer) \/ DeliverStop(m, answer)
  BY <1>1, WaitDeliverLater, WaitDeliver, WaitDeliverStop
<1>2. CASE \E answer \in Answers : Take(answer)
  BY <1>2, WaitTake
<1>3. CASE \E h \in Handlers : HandlerStep(h) \/ ConsumeEnds(h) \/ TaskEnds(h)
  BY <1>3, WaitHandlerStep, WaitOutside
<1>4. CASE DisposeBinding \/ Dispose \/ DisposalStep \/ ActivateBinding \/ UNCHANGED vars
  BY <1>4, WaitOutside
<1>5. CASE Crash
  BY <1>5, WaitCrash
<1> QED BY <1>1, <1>2, <1>3, <1>4, <1>5 DEF Next

(* Whoever waits, waits for a handler that goes on or is gone: the lane is *)
(* held by a handler at work, everyone who waits for it is in its queue,   *)
(* and a /stop awaits a task whose handler works or has ended, whatever    *)
(* disposals, refusals, failed writes and crashes come between.            *)
THEOREM WaitsEndInWorkHolds == Spec => []WaitsEndInWork
<1>1. Inv /\ WaitInv => WaitsEndInWork
  <2> SUFFICES ASSUME Inv, WaitInv PROVE WaitsEndInWork
    OBVIOUS
  <2>1. lane.holder \in Handlers \cup {0} /\ \A h \in Handlers : handler[h].target \in Handlers \cup {0}
    BY DEF Inv, HandlerShape, Lanes, HandlerRecords
  <2>2. \A h \in Handlers : Working(h) => Busy(h)
    BY DEF WaitInv, Working, Busy
  <2>3. \A h \in Handlers : Settles(h) => Busy(h) \/ handler[h].at = "done"
    BY <2>2 DEF Settles
  <2> QED BY <2>1, <2>2, <2>3 DEF WaitInv, WaitsEndInWork
<1> QED BY <1>1, WaitInit, WaitNext, Invariance, PTL DEF Spec

===============================================================================
