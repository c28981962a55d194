----------------------- MODULE BridgeSupervisorProofs -----------------------
(***************************************************************************)
(* What BridgeSupervisor guarantees, for any number of bridge processes    *)
(* and queued calls, for every failure of the file system and every        *)
(* restart of the service.                                                 *)
(***************************************************************************)
EXTENDS BridgeSupervisor, SequenceTheorems, TLAPS

-----------------------------------------------------------------------------
(* The inductive invariant.                                                *)

(* The labels of ensureStarted and of stop.                                *)
EnsureLabels == {"scan", "relink", "unlink", "get", "check", "drop", "fresh", "undo"} \cup Starting
StopLabels == {"verify", "shutdown", "wait"}

(* removeIfMatches between its claim and its end.                          *)
Claiming == {"compare", "restore", "discard"}

(* The disk names p.                                                       *)
Names(p) == file = p \/ claims[p] > 0

(* No tombstone but, perhaps, one that names p.                            *)
OneClaim(p) == claims[p] = 1 /\ \A q \in Proc : q # p => claims[q] = 0

(* What an operation under way has in hand.                                *)
ControlInv ==
    /\ pc # "idle" => queue # <<>>
    /\ step # "none" <=> pc \in Removing
    /\ pc \in Removing \cup Starting \cup StopLabels \cup {"check"} => cur \in Proc
    /\ pc \in {"relink", "unlink"} \/ step \in Claiming => tomb \in Proc /\ claims[tomb] > 0

(* The handles of the children, and what was observed of them.  A process  *)
(* that is known exists, or did.                                           *)
HandlesInv ==
    /\ exited \subseteq children /\ durable \subseteq children
    /\ pc \in Starting => cur \in children
    /\ \A p \in exited : proc[p] = "dead"
    /\ \A p \in Proc : p \in children \/ Names(p) \/ running = p => proc[p] # "unborn"

(* A cleanup is queued for children that exited, and by no other operation.*)
QueueInv ==
    /\ \A p \in Proc : Pending(p) => p \in exited
    /\ pc = "cleanup" => Head(queue) = Cleanup(cur)
    /\ pc \notin {"idle", "cleanup"} => Head(queue).kind # "cleanup"

(* No bridge runs while ensureStarted looks for one; only an exit takes    *)
(* the bridge away that stop is stopping.                                  *)
RunningInv ==
    /\ pc \in EnsureLabels \cup {"forget"} => running = None
    /\ pc \in StopLabels => running = cur \/ (running = None /\ cur \in exited)

(* All copies on disk name one bridge.  A start finds the disk empty and   *)
(* leaves at most its own identity there.                                  *)
DiskInv ==
    /\ \A p, q \in Proc : Names(p) /\ Names(q) => p = q
    /\ pc \in Unpublished \cup {"fresh"} => file = None /\ NoClaims
    /\ pc = "check" \/ (pc = "drop" /\ step = "rename") => file = cur /\ NoClaims
    /\ pc = "drop" /\ step = "compare" => tomb = cur /\ OneClaim(cur)
    /\ pc \in {"written", "recheck", "reap", "undo"} =>
          \A p \in Proc : Names(p) => p = cur
    /\ pc = "written" => file = cur
    /\ step \in {"compare", "restore"} => file = None
    /\ pc = "unlink" \/ step = "discard" => file = tomb

(* Unless an operation on the files failed, a service that has read the    *)
(* file leaves no tombstone but the one its removal is handling.           *)
ClaimsInv ==
    ~ioFailed =>
        /\ ~ManyClaims
        /\ step = "rename" \/ (step = "none" /\ (children # {} \/ running # None)) => NoClaims
        /\ step \in Claiming => OneClaim(tomb)
        /\ step \in {"restore", "discard"} => tomb # cur

(* An identity is removed when its process is gone, or given up.           *)
GoneInv ==
    /\ pc \in {"drop", "undo", "forget"} => proc[cur] = "dead" \/ cur \in lost
    /\ pc = "cleanup" => proc[cur] = "dead"

(* A live bridge is on disk, given up, or being started.                   *)
LiveInv ==
    \A p \in Proc : proc[p] = "alive" =>
        Names(p) \/ p \in lost \/ (pc \in Starting /\ cur = p)

(* The bridge in use is on disk while it lives.                            *)
NamedInv == \A p \in Proc : running = p /\ proc[p] = "alive" => Names(p)

(* The exit of a child whose identity is on disk will queue a cleanup.     *)
DurableInv ==
    \A p \in children : Names(p) => p \in durable \/ ioFailed \/ (pc = "written" /\ cur = p)

(* ... and has queued it.                                                  *)
ForgottenInv ==
    \A p \in exited : Names(p) =>
        ioFailed \/ (pc \in {"written", "recheck"} /\ cur = p) \/ Pending(p)

Inv ==
    /\ TypeOK /\ ControlInv /\ HandlesInv /\ QueueInv /\ RunningInv
    /\ DiskInv /\ ClaimsInv
    /\ GoneInv /\ LiveInv /\ NamedInv /\ DurableInv /\ ForgottenInv

-----------------------------------------------------------------------------
(* The queue.                                                              *)

LEMMA QueueSame ==
    ASSUME UNCHANGED queue
    PROVE  \A p \in Proc : Pending(p)' <=> Pending(p)
BY DEF Pending

(* An operation settles: the rest of the queue stays.                      *)
LEMMA QueueSettles ==
    ASSUME TypeOK, queue # <<>>, queue' = Tail(queue)
    PROVE  /\ queue' \in Seq(Operation)
           /\ \A p \in Proc : Pending(p)' => Pending(p)
           /\ \A p \in Proc : Pending(p) /\ Head(queue) # Cleanup(p) => Pending(p)'
<1>1. queue \in Seq(Operation)
  BY DEF TypeOK
<1>2. /\ Tail(queue) \in Seq(Operation)
      /\ Len(Tail(queue)) = Len(queue) - 1
      /\ \A i \in 1..Len(Tail(queue)) : Tail(queue)[i] = queue[i + 1]
      /\ Len(queue) \in Nat /\ Len(queue) >= 1
      /\ Head(queue) = queue[1]
  BY <1>1, HeadTailProperties, EmptySeq, LenProperties
<1>3. \A p \in Proc : Pending(p)' => Pending(p)
  <2>. SUFFICES ASSUME NEW p \in Proc, Pending(p)' PROVE Pending(p)
    OBVIOUS
  <2>1. PICK i \in 1..Len(Tail(queue)) : Tail(queue)[i] = Cleanup(p)
    BY DEF Pending, Cleanup
  <2>2. i + 1 \in 1..Len(queue) /\ queue[i + 1] = Cleanup(p)
    BY <1>2, <2>1
  <2>. QED  BY <2>2 DEF Pending
<1>4. ASSUME NEW p \in Proc, Pending(p), Head(queue) # Cleanup(p) PROVE Pending(p)'
  <2>1. PICK i \in 1..Len(queue) : queue[i] = Cleanup(p)
    BY <1>4 DEF Pending
  <2>2. i # 1
    BY <1>2, <1>4, <2>1
  <2>3. i - 1 \in 1..Len(Tail(queue)) /\ Tail(queue)[i - 1] = Cleanup(p)
    BY <1>2, <2>1, <2>2
  <2>. QED  BY <2>3 DEF Pending, Cleanup
<1>. QED  BY <1>2, <1>3, <1>4

(* An operation is queued behind the others.                               *)
LEMMA QueueGrows ==
    ASSUME TypeOK, NEW e \in Operation, queue' = Append(queue, e)
    PROVE  /\ queue' \in Seq(Operation) /\ queue' # <<>>
           /\ queue # <<>> => Head(queue') = Head(queue)
           /\ \A p \in Proc : Pending(p) => Pending(p)'
           /\ \A p \in Proc : Pending(p)' => Pending(p) \/ e = Cleanup(p)
           /\ \A p \in Proc : e = Cleanup(p) => Pending(p)'
<1>1. queue \in Seq(Operation)
  BY DEF TypeOK
<1>2. /\ queue' \in Seq(Operation) /\ Len(queue') = Len(queue) + 1
      /\ \A i \in 1..Len(queue) : queue'[i] = queue[i]
      /\ queue'[Len(queue) + 1] = e
      /\ Len(queue) \in Nat
  BY <1>1, AppendProperties, LenProperties
<1>3. queue' # <<>>
  BY <1>2, EmptySeq
<1>4. queue # <<>> => Len(queue) >= 1
  BY <1>1, EmptySeq, LenProperties
<1>5. queue # <<>> => Head(queue') = Head(queue)
  BY <1>1, <1>2, <1>3, <1>4, HeadTailProperties
<1>6. \A p \in Proc : Pending(p) => Pending(p)'
  BY <1>2 DEF Pending, Cleanup
<1>7. \A p \in Proc : Pending(p)' => Pending(p) \/ e = Cleanup(p)
  BY <1>2 DEF Pending, Cleanup
<1>8. Len(queue) + 1 \in 1..Len(queue')
  BY <1>2
<1>9. \A p \in Proc : e = Cleanup(p) => Pending(p)'
  BY <1>2, <1>8 DEF Pending, Cleanup
<1>. QED  BY <1>2, <1>3, <1>5, <1>6, <1>7, <1>9

-----------------------------------------------------------------------------
(* Every step keeps the invariant.                                         *)

USE BridgeAssumption
USE DEF Removing, Unpublished, Starting, Labels, EnsureLabels, StopLabels, Claiming,
        processes, disk, control, managed, handles, Names, NoClaims, OneClaim

(* What a step of the head may do to the queue.                            *)
LEMMA QueueMoves ==
    ASSUME Inv, queue # <<>>, queue' = Tail(queue) \/ queue' = queue
    PROVE  /\ queue' \in Seq(Operation)
           /\ \A p \in Proc : Pending(p)' => Pending(p)
           /\ queue' = queue => \A p \in Proc : Pending(p) => Pending(p)'
           /\ pc \notin {"idle", "cleanup"} \/ Head(queue).kind # "cleanup" =>
                  \A p \in Proc : Pending(p) => Pending(p)'
           /\ pc = "cleanup" => \A p \in Proc : Pending(p) /\ p # cur => Pending(p)'
<1>1. TypeOK /\ QueueInv
  BY DEF Inv
<1>2. queue \in Seq(Operation)
  BY <1>1 DEF TypeOK
<1>3. CASE queue' = queue
  BY <1>2, <1>3, QueueSame
<1>4. CASE queue' = Tail(queue)
  <2>1. /\ queue' \in Seq(Operation)
        /\ \A p \in Proc : Pending(p)' => Pending(p)
        /\ \A p \in Proc : Pending(p) /\ Head(queue) # Cleanup(p) => Pending(p)'
    BY <1>1, <1>4, QueueSettles
  <2>2. pc \notin {"idle", "cleanup"} \/ Head(queue).kind # "cleanup" =>
           \A p \in Proc : Head(queue) # Cleanup(p)
    BY <1>1 DEF QueueInv, Cleanup
  <2>3. pc = "cleanup" => \A p \in Proc : p # cur => Head(queue) # Cleanup(p)
    BY <1>1 DEF QueueInv, Cleanup
  <2>4. queue' = queue => \A p \in Proc : Pending(p) => Pending(p)'
    BY QueueSame
  <2>. QED  BY <2>1, <2>2, <2>3, <2>4
<1>. QED  BY <1>3, <1>4

(* The cleanup at the head is of a child that exited.                      *)
LEMMA HeadCleanup ==
    ASSUME Inv, queue # <<>>, Head(queue).kind = "cleanup"
    PROVE  /\ Head(queue).id \in Proc /\ Head(queue) = Cleanup(Head(queue).id)
           /\ Head(queue).id \in exited /\ Head(queue).id \in children
           /\ proc[Head(queue).id] = "dead"
<1>1. TypeOK /\ QueueInv /\ HandlesInv /\ queue \in Seq(Operation)
  BY DEF Inv, TypeOK
<1>2. 1 \in 1..Len(queue) /\ Head(queue) = queue[1] /\ Head(queue) \in Operation
  BY <1>1, EmptySeq, LenProperties, HeadTailProperties
<1>3. Head(queue).id \in Proc /\ Head(queue) = Cleanup(Head(queue).id)
  BY <1>2 DEF Operation, Cleanup
<1>4. Pending(Head(queue).id)
  BY <1>2, <1>3 DEF Pending
<1>. QED  BY <1>1, <1>3, <1>4 DEF QueueInv, HandlesInv

LEMMA BeginEnsureKeeps ==
    ASSUME Inv, BeginEnsure
    PROVE  Inv'
<1>1. /\ TypeOK /\ ControlInv /\ HandlesInv /\ QueueInv /\ RunningInv /\ DiskInv
      /\ ClaimsInv /\ GoneInv /\ LiveInv /\ NamedInv /\ DurableInv /\ ForgottenInv
  BY DEF Inv
<1>2. queue # <<>> /\ (queue' = Tail(queue) \/ queue' = queue)
  BY <1>1 DEF BeginEnsure, Begins, Settle, GoTo, ControlInv
<1>3. /\ queue' \in Seq(Operation)
      /\ \A p \in Proc : Pending(p)' => Pending(p)
      /\ queue' = queue => \A p \in Proc : Pending(p) => Pending(p)'
      /\ pc \notin {"idle", "cleanup"} \/ Head(queue).kind # "cleanup" =>
            \A p \in Proc : Pending(p) => Pending(p)'
      /\ pc = "cleanup" => \A p \in Proc : Pending(p) /\ p # cur => Pending(p)'
  BY <1>2, QueueMoves
<1>4. TypeOK'
  BY <1>1, <1>3 DEF BeginEnsure, Begins, Settle, GoTo, TypeOK
<1>5. ControlInv'
  BY <1>1 DEF BeginEnsure, Begins, Settle, GoTo, ControlInv
<1>6. HandlesInv'
  BY <1>1 DEF BeginEnsure, Begins, Settle, GoTo, HandlesInv
<1>7. QueueInv'
  BY <1>1, <1>3 DEF BeginEnsure, Begins, Settle, GoTo, QueueInv
<1>8. RunningInv'
  BY <1>1 DEF BeginEnsure, Begins, Settle, GoTo, RunningInv
<1>9. DiskInv'
  BY <1>1 DEF BeginEnsure, Begins, Settle, GoTo, DiskInv
<1>10. ClaimsInv'
  BY <1>1 DEF BeginEnsure, Begins, Settle, GoTo, ClaimsInv, ControlInv, ManyClaims
<1>11. GoneInv'
  BY <1>1 DEF BeginEnsure, Begins, Settle, GoTo, GoneInv
<1>12. LiveInv'
  BY <1>1 DEF BeginEnsure, Begins, Settle, GoTo, LiveInv
<1>13. NamedInv'
  BY <1>1 DEF BeginEnsure, Begins, Settle, GoTo, NamedInv
<1>14. DurableInv'
  BY <1>1 DEF BeginEnsure, Begins, Settle, GoTo, DurableInv
<1>15. ForgottenInv'
  BY <1>1, <1>3 DEF BeginEnsure, Begins, Settle, GoTo, ForgottenInv, TypeOK
<1>. QED  BY <1>4, <1>5, <1>6, <1>7, <1>8, <1>9, <1>10, <1>11, <1>12, <1>13, <1>14, <1>15 DEF Inv

LEMMA BeginStopKeeps ==
    ASSUME Inv, BeginStop
    PROVE  Inv'
<1>1. /\ TypeOK /\ ControlInv /\ HandlesInv /\ QueueInv /\ RunningInv /\ DiskInv
      /\ ClaimsInv /\ GoneInv /\ LiveInv /\ NamedInv /\ DurableInv /\ ForgottenInv
  BY DEF Inv
<1>2. queue # <<>> /\ (queue' = Tail(queue) \/ queue' = queue)
  BY <1>1 DEF BeginStop, Begins, Settle, ControlInv
<1>3. /\ queue' \in Seq(Operation)
      /\ \A p \in Proc : Pending(p)' => Pending(p)
      /\ queue' = queue => \A p \in Proc : Pending(p) => Pending(p)'
      /\ pc \notin {"idle", "cleanup"} \/ Head(queue).kind # "cleanup" =>
            \A p \in Proc : Pending(p) => Pending(p)'
      /\ pc = "cleanup" => \A p \in Proc : Pending(p) /\ p # cur => Pending(p)'
  BY <1>2, QueueMoves
<1>4. TypeOK'
  BY <1>1, <1>3 DEF BeginStop, Begins, Settle, TypeOK
<1>5. ControlInv'
  BY <1>1 DEF BeginStop, Begins, Settle, ControlInv, TypeOK
<1>6. HandlesInv'
  BY <1>1 DEF BeginStop, Begins, Settle, HandlesInv
<1>7. QueueInv'
  BY <1>1, <1>3 DEF BeginStop, Begins, Settle, QueueInv
<1>8. RunningInv'
  BY <1>1 DEF BeginStop, Begins, Settle, RunningInv
<1>9. DiskInv'
  BY <1>1 DEF BeginStop, Begins, Settle, DiskInv
<1>10. ClaimsInv'
  BY <1>1 DEF BeginStop, Begins, Settle, ClaimsInv, ControlInv, ManyClaims
<1>11. GoneInv'
  BY <1>1 DEF BeginStop, Begins, Settle, GoneInv
<1>12. LiveInv'
  BY <1>1 DEF BeginStop, Begins, Settle, LiveInv
<1>13. NamedInv'
  BY <1>1 DEF BeginStop, Begins, Settle, NamedInv
<1>14. DurableInv'
  BY <1>1 DEF BeginStop, Begins, Settle, DurableInv
<1>15. ForgottenInv'
  BY <1>1, <1>3 DEF BeginStop, Begins, Settle, ForgottenInv, TypeOK
<1>. QED  BY <1>4, <1>5, <1>6, <1>7, <1>8, <1>9, <1>10, <1>11, <1>12, <1>13, <1>14, <1>15 DEF Inv

LEMMA BeginCleanupKeeps ==
    ASSUME Inv, BeginCleanup
    PROVE  Inv'
<1>1. /\ TypeOK /\ ControlInv /\ HandlesInv /\ QueueInv /\ RunningInv /\ DiskInv
      /\ ClaimsInv /\ GoneInv /\ LiveInv /\ NamedInv /\ DurableInv /\ ForgottenInv
  BY DEF Inv
<1>2. queue # <<>> /\ (queue' = Tail(queue) \/ queue' = queue)
  BY <1>1 DEF BeginCleanup, Begins, CallRemove, ControlInv
<1>3. /\ queue' \in Seq(Operation)
      /\ \A p \in Proc : Pending(p)' => Pending(p)
      /\ queue' = queue => \A p \in Proc : Pending(p) => Pending(p)'
      /\ pc \notin {"idle", "cleanup"} \/ Head(queue).kind # "cleanup" =>
            \A p \in Proc : Pending(p) => Pending(p)'
      /\ pc = "cleanup" => \A p \in Proc : Pending(p) /\ p # cur => Pending(p)'
  BY <1>2, QueueMoves
<1>4. TypeOK'
  BY <1>1, HeadCleanup DEF BeginCleanup, Begins, CallRemove, TypeOK
<1>5. ControlInv'
  BY <1>1, HeadCleanup DEF BeginCleanup, Begins, CallRemove, ControlInv
<1>6. HandlesInv'
  BY <1>1 DEF BeginCleanup, Begins, CallRemove, HandlesInv
<1>7. QueueInv'
  BY <1>1, <1>3, HeadCleanup DEF BeginCleanup, Begins, CallRemove, QueueInv
<1>8. RunningInv'
  BY <1>1 DEF BeginCleanup, Begins, CallRemove, RunningInv
<1>9. DiskInv'
  BY <1>1 DEF BeginCleanup, Begins, CallRemove, DiskInv
<1>10. ClaimsInv'
  BY <1>1, HeadCleanup DEF BeginCleanup, Begins, CallRemove, ClaimsInv, ControlInv, ManyClaims
<1>11. GoneInv'
  BY <1>1, HeadCleanup DEF BeginCleanup, Begins, CallRemove, GoneInv
<1>12. LiveInv'
  BY <1>1 DEF BeginCleanup, Begins, CallRemove, LiveInv
<1>13. NamedInv'
  BY <1>1 DEF BeginCleanup, Begins, CallRemove, NamedInv
<1>14. DurableInv'
  BY <1>1 DEF BeginCleanup, Begins, CallRemove, DurableInv
<1>15. ForgottenInv'
  BY <1>1, <1>3 DEF BeginCleanup, Begins, CallRemove, ForgottenInv, TypeOK
<1>. QED  BY <1>4, <1>5, <1>6, <1>7, <1>8, <1>9, <1>10, <1>11, <1>12, <1>13, <1>14, <1>15 DEF Inv

LEMMA ScanKeeps ==
    ASSUME Inv, Scan
    PROVE  Inv'
<1>1. /\ TypeOK /\ ControlInv /\ HandlesInv /\ QueueInv /\ RunningInv /\ DiskInv
      /\ ClaimsInv /\ GoneInv /\ LiveInv /\ NamedInv /\ DurableInv /\ ForgottenInv
  BY DEF Inv
<1>2. queue # <<>> /\ (queue' = Tail(queue) \/ queue' = queue)
  BY <1>1 DEF Scan, Settle, GoTo, ControlInv
<1>3. /\ queue' \in Seq(Operation)
      /\ \A p \in Proc : Pending(p)' => Pending(p)
      /\ queue' = queue => \A p \in Proc : Pending(p) => Pending(p)'
      /\ pc \notin {"idle", "cleanup"} \/ Head(queue).kind # "cleanup" =>
            \A p \in Proc : Pending(p) => Pending(p)'
      /\ pc = "cleanup" => \A p \in Proc : Pending(p) /\ p # cur => Pending(p)'
  BY <1>2, QueueMoves
<1>4. TypeOK'
  BY <1>1, <1>3 DEF Scan, Settle, GoTo, TypeOK
<1>5. ControlInv'
  BY <1>1 DEF Scan, Settle, GoTo, ControlInv
<1>6. HandlesInv'
  BY <1>1 DEF Scan, Settle, GoTo, HandlesInv
<1>7. QueueInv'
  BY <1>1, <1>3 DEF Scan, Settle, GoTo, QueueInv
<1>8. RunningInv'
  BY <1>1 DEF Scan, Settle, GoTo, RunningInv
<1>9. DiskInv'
  BY <1>1 DEF Scan, Settle, GoTo, DiskInv, ControlInv
<1>10. ClaimsInv'
  BY <1>1 DEF Scan, Settle, GoTo, ClaimsInv, ControlInv, ManyClaims
<1>11. GoneInv'
  BY <1>1 DEF Scan, Settle, GoTo, GoneInv
<1>12. LiveInv'
  BY <1>1 DEF Scan, Settle, GoTo, LiveInv
<1>13. NamedInv'
  BY <1>1 DEF Scan, Settle, GoTo, NamedInv
<1>14. DurableInv'
  BY <1>1 DEF Scan, Settle, GoTo, DurableInv
<1>15. ForgottenInv'
  BY <1>1, <1>3 DEF Scan, Settle, GoTo, ForgottenInv, TypeOK
<1>. QED  BY <1>4, <1>5, <1>6, <1>7, <1>8, <1>9, <1>10, <1>11, <1>12, <1>13, <1>14, <1>15 DEF Inv

LEMMA RelinkKeeps ==
    ASSUME Inv, Relink
    PROVE  Inv'
<1>1. /\ TypeOK /\ ControlInv /\ HandlesInv /\ QueueInv /\ RunningInv /\ DiskInv
      /\ ClaimsInv /\ GoneInv /\ LiveInv /\ NamedInv /\ DurableInv /\ ForgottenInv
  BY DEF Inv
<1>2. queue # <<>> /\ (queue' = Tail(queue) \/ queue' = queue)
  BY <1>1 DEF Relink, Settle, GoTo, ControlInv
<1>3. /\ queue' \in Seq(Operation)
      /\ \A p \in Proc : Pending(p)' => Pending(p)
      /\ queue' = queue => \A p \in Proc : Pending(p) => Pending(p)'
      /\ pc \notin {"idle", "cleanup"} \/ Head(queue).kind # "cleanup" =>
            \A p \in Proc : Pending(p) => Pending(p)'
      /\ pc = "cleanup" => \A p \in Proc : Pending(p) /\ p # cur => Pending(p)'
  BY <1>2, QueueMoves
<1>4. TypeOK'
  BY <1>1, <1>3 DEF Relink, Settle, GoTo, TypeOK
<1>5. ControlInv'
  BY <1>1 DEF Relink, Settle, GoTo, ControlInv
<1>6. HandlesInv'
  BY <1>1 DEF Relink, Settle, GoTo, HandlesInv, ControlInv
<1>7. QueueInv'
  BY <1>1, <1>3 DEF Relink, Settle, GoTo, QueueInv
<1>8. RunningInv'
  BY <1>1 DEF Relink, Settle, GoTo, RunningInv
<1>9. DiskInv'
  BY <1>1 DEF Relink, Settle, GoTo, DiskInv, TypeOK, ControlInv
<1>10. ClaimsInv'
  BY <1>1 DEF Relink, Settle, GoTo, ClaimsInv, ManyClaims
<1>11. GoneInv'
  BY <1>1 DEF Relink, Settle, GoTo, GoneInv
<1>12. LiveInv'
  BY <1>1 DEF Relink, Settle, GoTo, LiveInv
<1>13. NamedInv'
  BY <1>1 DEF Relink, Settle, GoTo, NamedInv
<1>14. DurableInv'
  BY <1>1 DEF Relink, Settle, GoTo, DurableInv, ControlInv
<1>15. ForgottenInv'
  BY <1>1 DEF Relink, Settle, GoTo, ForgottenInv, ControlInv, ClaimsInv, HandlesInv
<1>. QED  BY <1>4, <1>5, <1>6, <1>7, <1>8, <1>9, <1>10, <1>11, <1>12, <1>13, <1>14, <1>15 DEF Inv

LEMMA UnlinkKeeps ==
    ASSUME Inv, Unlink
    PROVE  Inv'
<1>1. /\ TypeOK /\ ControlInv /\ HandlesInv /\ QueueInv /\ RunningInv /\ DiskInv
      /\ ClaimsInv /\ GoneInv /\ LiveInv /\ NamedInv /\ DurableInv /\ ForgottenInv
  BY DEF Inv
<1>2. queue # <<>> /\ (queue' = Tail(queue) \/ queue' = queue)
  BY <1>1 DEF Unlink, Settle, ControlInv
<1>3. /\ queue' \in Seq(Operation)
      /\ \A p \in Proc : Pending(p)' => Pending(p)
      /\ queue' = queue => \A p \in Proc : Pending(p) => Pending(p)'
      /\ pc \notin {"idle", "cleanup"} \/ Head(queue).kind # "cleanup" =>
            \A p \in Proc : Pending(p) => Pending(p)'
      /\ pc = "cleanup" => \A p \in Proc : Pending(p) /\ p # cur => Pending(p)'
  BY <1>2, QueueMoves
<1>4. /\ claims' \in [Proc -> Nat]
      /\ \A q \in Proc : q # tomb => claims'[q] = claims[q]
      /\ claims'[tomb] = claims[tomb] \/ (claims'[tomb] = claims[tomb] - 1)
  BY <1>1, <1>2, <1>3 DEF Unlink, Settle, TypeOK, ControlInv
<1>5. TypeOK'
  BY <1>1, <1>3, <1>4 DEF Unlink, Settle, TypeOK
<1>6. ControlInv'
  BY <1>1 DEF Unlink, Settle, ControlInv
<1>7. HandlesInv'
  BY <1>1, <1>4 DEF Unlink, Settle, HandlesInv, ControlInv
<1>8. QueueInv'
  BY <1>1, <1>3 DEF Unlink, Settle, QueueInv
<1>9. RunningInv'
  BY <1>1 DEF Unlink, Settle, RunningInv
<1>10. DiskInv'
  BY <1>1, <1>4 DEF Unlink, Settle, DiskInv, ControlInv
<1>11. ClaimsInv'
  BY <1>1, <1>3 DEF Unlink, Settle, ClaimsInv, TypeOK, ControlInv, DiskInv, ManyClaims
<1>12. GoneInv'
  BY <1>1 DEF Unlink, Settle, GoneInv
<1>13. LiveInv'
  BY <1>1, <1>4 DEF Unlink, Settle, LiveInv, DiskInv
<1>14. NamedInv'
  BY <1>1, <1>4 DEF Unlink, Settle, NamedInv, DiskInv
<1>15. DurableInv'
  BY <1>1 DEF Unlink, Settle, DurableInv, ControlInv, ClaimsInv
<1>16. ForgottenInv'
  BY <1>1 DEF Unlink, Settle, ForgottenInv, ControlInv, ClaimsInv, HandlesInv
<1>. QED  BY <1>5, <1>6, <1>7, <1>8, <1>9, <1>10, <1>11, <1>12, <1>13, <1>14, <1>15, <1>16 DEF Inv

LEMMA GetKeeps ==
    ASSUME Inv, Get
    PROVE  Inv'
<1>1. /\ TypeOK /\ ControlInv /\ HandlesInv /\ QueueInv /\ RunningInv /\ DiskInv
      /\ ClaimsInv /\ GoneInv /\ LiveInv /\ NamedInv /\ DurableInv /\ ForgottenInv
  BY DEF Inv
<1>2. queue # <<>> /\ (queue' = Tail(queue) \/ queue' = queue)
  BY <1>1 DEF Get, Settle, GoTo, ControlInv
<1>3. /\ queue' \in Seq(Operation)
      /\ \A p \in Proc : Pending(p)' => Pending(p)
      /\ queue' = queue => \A p \in Proc : Pending(p) => Pending(p)'
      /\ pc \notin {"idle", "cleanup"} \/ Head(queue).kind # "cleanup" =>
            \A p \in Proc : Pending(p) => Pending(p)'
      /\ pc = "cleanup" => \A p \in Proc : Pending(p) /\ p # cur => Pending(p)'
  BY <1>2, QueueMoves
<1>4. TypeOK'
  BY <1>1, <1>3 DEF Get, Settle, GoTo, TypeOK
<1>5. ControlInv'
  BY <1>1 DEF Get, Settle, GoTo, ControlInv, TypeOK
<1>6. HandlesInv'
  BY <1>1 DEF Get, Settle, GoTo, HandlesInv
<1>7. QueueInv'
  BY <1>1, <1>3 DEF Get, Settle, GoTo, QueueInv
<1>8. RunningInv'
  BY <1>1 DEF Get, Settle, GoTo, RunningInv
<1>9. DiskInv'
  BY <1>1 DEF Get, Settle, GoTo, DiskInv
<1>10. ClaimsInv'
  BY <1>1 DEF Get, Settle, GoTo, ClaimsInv, ControlInv, ManyClaims
<1>11. GoneInv'
  BY <1>1 DEF Get, Settle, GoTo, GoneInv
<1>12. LiveInv'
  BY <1>1 DEF Get, Settle, GoTo, LiveInv
<1>13. NamedInv'
  BY <1>1 DEF Get, Settle, GoTo, NamedInv
<1>14. DurableInv'
  BY <1>1 DEF Get, Settle, GoTo, DurableInv
<1>15. ForgottenInv'
  BY <1>1, <1>3 DEF Get, Settle, GoTo, ForgottenInv, TypeOK
<1>. QED  BY <1>4, <1>5, <1>6, <1>7, <1>8, <1>9, <1>10, <1>11, <1>12, <1>13, <1>14, <1>15 DEF Inv

LEMMA CheckKeeps ==
    ASSUME Inv, Check
    PROVE  Inv'
<1>1. /\ TypeOK /\ ControlInv /\ HandlesInv /\ QueueInv /\ RunningInv /\ DiskInv
      /\ ClaimsInv /\ GoneInv /\ LiveInv /\ NamedInv /\ DurableInv /\ ForgottenInv
  BY DEF Inv
<1>2. queue # <<>> /\ (queue' = Tail(queue) \/ queue' = queue)
  BY <1>1 DEF Check, Settle, CallRemove, ControlInv
<1>3. /\ queue' \in Seq(Operation)
      /\ \A p \in Proc : Pending(p)' => Pending(p)
      /\ queue' = queue => \A p \in Proc : Pending(p) => Pending(p)'
      /\ pc \notin {"idle", "cleanup"} \/ Head(queue).kind # "cleanup" =>
            \A p \in Proc : Pending(p) => Pending(p)'
      /\ pc = "cleanup" => \A p \in Proc : Pending(p) /\ p # cur => Pending(p)'
  BY <1>2, QueueMoves
<1>4. TypeOK'
  BY <1>1, <1>3 DEF Check, Settle, CallRemove, TypeOK, ControlInv
<1>5. ControlInv'
  BY <1>1 DEF Check, Settle, CallRemove, ControlInv
<1>6. HandlesInv'
  BY <1>1 DEF Check, Settle, CallRemove, HandlesInv
<1>7. QueueInv'
  BY <1>1, <1>3 DEF Check, Settle, CallRemove, QueueInv
<1>8. RunningInv'
  BY <1>1 DEF Check, Settle, CallRemove, RunningInv
<1>9. DiskInv'
  BY <1>1 DEF Check, Settle, CallRemove, DiskInv
<1>10. ClaimsInv'
  BY <1>1 DEF Check, Settle, CallRemove, ClaimsInv, DiskInv, ManyClaims
<1>11. GoneInv'
  BY <1>1 DEF Check, Settle, CallRemove, GoneInv, DiskInv, HandlesInv, TypeOK, ControlInv
<1>12. LiveInv'
  BY <1>1 DEF Check, Settle, CallRemove, LiveInv, DiskInv
<1>13. NamedInv'
  BY <1>1 DEF Check, Settle, CallRemove, NamedInv, DiskInv
<1>14. DurableInv'
  BY <1>1 DEF Check, Settle, CallRemove, DurableInv
<1>15. ForgottenInv'
  BY <1>1, <1>3 DEF Check, Settle, CallRemove, ForgottenInv, TypeOK
<1>. QED  BY <1>4, <1>5, <1>6, <1>7, <1>8, <1>9, <1>10, <1>11, <1>12, <1>13, <1>14, <1>15 DEF Inv

LEMMA SpawnBridgeKeeps ==
    ASSUME Inv, SpawnBridge
    PROVE  Inv'
<1>1. /\ TypeOK /\ ControlInv /\ HandlesInv /\ QueueInv /\ RunningInv /\ DiskInv
      /\ ClaimsInv /\ GoneInv /\ LiveInv /\ NamedInv /\ DurableInv /\ ForgottenInv
  BY DEF Inv
<1>2. queue # <<>> /\ (queue' = Tail(queue) \/ queue' = queue)
  BY <1>1 DEF SpawnBridge, Settle, ControlInv
<1>3. /\ queue' \in Seq(Operation)
      /\ \A p \in Proc : Pending(p)' => Pending(p)
      /\ queue' = queue => \A p \in Proc : Pending(p) => Pending(p)'
      /\ pc \notin {"idle", "cleanup"} \/ Head(queue).kind # "cleanup" =>
            \A p \in Proc : Pending(p) => Pending(p)'
      /\ pc = "cleanup" => \A p \in Proc : Pending(p) /\ p # cur => Pending(p)'
  BY <1>2, QueueMoves
<1>4. TypeOK'
  BY <1>1, <1>3 DEF SpawnBridge, Settle, TypeOK
<1>5. ControlInv'
  BY <1>1 DEF SpawnBridge, Settle, ControlInv
<1>6. HandlesInv'
  BY <1>1 DEF SpawnBridge, Settle, HandlesInv, TypeOK
<1>7. QueueInv'
  BY <1>1, <1>3 DEF SpawnBridge, Settle, QueueInv
<1>8. RunningInv'
  BY <1>1 DEF SpawnBridge, Settle, RunningInv
<1>9. DiskInv'
  BY <1>1 DEF SpawnBridge, Settle, DiskInv
<1>10. ClaimsInv'
  BY <1>1 DEF SpawnBridge, Settle, ClaimsInv, DiskInv, ManyClaims
<1>11. GoneInv'
  BY <1>1 DEF SpawnBridge, Settle, GoneInv
<1>12. LiveInv'
  BY <1>1 DEF SpawnBridge, Settle, LiveInv, TypeOK
<1>13. NamedInv'
  BY <1>1 DEF SpawnBridge, Settle, NamedInv, RunningInv
<1>14. DurableInv'
  BY <1>1 DEF SpawnBridge, Settle, DurableInv, DiskInv
<1>15. ForgottenInv'
  BY <1>1, <1>3 DEF SpawnBridge, Settle, ForgottenInv, TypeOK
<1>. QED  BY <1>4, <1>5, <1>6, <1>7, <1>8, <1>9, <1>10, <1>11, <1>12, <1>13, <1>14, <1>15 DEF Inv

LEMMA ReadinessKeeps ==
    ASSUME Inv, Readiness
    PROVE  Inv'
<1>1. /\ TypeOK /\ ControlInv /\ HandlesInv /\ QueueInv /\ RunningInv /\ DiskInv
      /\ ClaimsInv /\ GoneInv /\ LiveInv /\ NamedInv /\ DurableInv /\ ForgottenInv
  BY DEF Inv
<1>2. queue # <<>> /\ (queue' = Tail(queue) \/ queue' = queue)
  BY <1>1 DEF Readiness, GoTo, ControlInv
<1>3. /\ queue' \in Seq(Operation)
      /\ \A p \in Proc : Pending(p)' => Pending(p)
      /\ queue' = queue => \A p \in Proc : Pending(p) => Pending(p)'
      /\ pc \notin {"idle", "cleanup"} \/ Head(queue).kind # "cleanup" =>
            \A p \in Proc : Pending(p) => Pending(p)'
      /\ pc = "cleanup" => \A p \in Proc : Pending(p) /\ p # cur => Pending(p)'
  BY <1>2, QueueMoves
<1>4. TypeOK'
  BY <1>1 DEF Readiness, GoTo, TypeOK
<1>5. ControlInv'
  BY <1>1 DEF Readiness, GoTo, ControlInv
<1>6. HandlesInv'
  BY <1>1 DEF Readiness, GoTo, HandlesInv
<1>7. QueueInv'
  BY <1>1, <1>3 DEF Readiness, GoTo, QueueInv
<1>8. RunningInv'
  BY <1>1 DEF Readiness, GoTo, RunningInv
<1>9. DiskInv'
  BY <1>1 DEF Readiness, GoTo, DiskInv
<1>10. ClaimsInv'
  BY <1>1 DEF Readiness, GoTo, ClaimsInv, ManyClaims
<1>11. GoneInv'
  BY <1>1 DEF Readiness, GoTo, GoneInv
<1>12. LiveInv'
  BY <1>1 DEF Readiness, GoTo, LiveInv
<1>13. NamedInv'
  BY <1>1 DEF Readiness, GoTo, NamedInv
<1>14. DurableInv'
  BY <1>1 DEF Readiness, GoTo, DurableInv
<1>15. ForgottenInv'
  BY <1>1, <1>3 DEF Readiness, GoTo, ForgottenInv, TypeOK
<1>. QED  BY <1>4, <1>5, <1>6, <1>7, <1>8, <1>9, <1>10, <1>11, <1>12, <1>13, <1>14, <1>15 DEF Inv

LEMMA HealthPollKeeps ==
    ASSUME Inv, HealthPoll
    PROVE  Inv'
<1>1. /\ TypeOK /\ ControlInv /\ HandlesInv /\ QueueInv /\ RunningInv /\ DiskInv
      /\ ClaimsInv /\ GoneInv /\ LiveInv /\ NamedInv /\ DurableInv /\ ForgottenInv
  BY DEF Inv
<1>2. queue # <<>> /\ (queue' = Tail(queue) \/ queue' = queue)
  BY <1>1 DEF HealthPoll, GoTo, StillVerified, ControlInv
<1>3. /\ queue' \in Seq(Operation)
      /\ \A p \in Proc : Pending(p)' => Pending(p)
      /\ queue' = queue => \A p \in Proc : Pending(p) => Pending(p)'
      /\ pc \notin {"idle", "cleanup"} \/ Head(queue).kind # "cleanup" =>
            \A p \in Proc : Pending(p) => Pending(p)'
      /\ pc = "cleanup" => \A p \in Proc : Pending(p) /\ p # cur => Pending(p)'
  BY <1>2, QueueMoves
<1>4. TypeOK'
  BY <1>1 DEF HealthPoll, GoTo, StillVerified, TypeOK
<1>5. ControlInv'
  BY <1>1 DEF HealthPoll, GoTo, StillVerified, ControlInv
<1>6. HandlesInv'
  BY <1>1 DEF HealthPoll, GoTo, StillVerified, HandlesInv
<1>7. QueueInv'
  BY <1>1, <1>3 DEF HealthPoll, GoTo, StillVerified, QueueInv
<1>8. RunningInv'
  BY <1>1 DEF HealthPoll, GoTo, StillVerified, RunningInv
<1>9. DiskInv'
  BY <1>1 DEF HealthPoll, GoTo, StillVerified, DiskInv
<1>10. ClaimsInv'
  BY <1>1 DEF HealthPoll, GoTo, StillVerified, ClaimsInv, ManyClaims
<1>11. GoneInv'
  BY <1>1 DEF HealthPoll, GoTo, StillVerified, GoneInv
<1>12. LiveInv'
  BY <1>1 DEF HealthPoll, GoTo, StillVerified, LiveInv
<1>13. NamedInv'
  BY <1>1 DEF HealthPoll, GoTo, StillVerified, NamedInv
<1>14. DurableInv'
  BY <1>1 DEF HealthPoll, GoTo, StillVerified, DurableInv
<1>15. ForgottenInv'
  BY <1>1, <1>3 DEF HealthPoll, GoTo, StillVerified, ForgottenInv, TypeOK
<1>. QED  BY <1>4, <1>5, <1>6, <1>7, <1>8, <1>9, <1>10, <1>11, <1>12, <1>13, <1>14, <1>15 DEF Inv

LEMMA WriteIdentityKeeps ==
    ASSUME Inv, WriteIdentity
    PROVE  Inv'
<1>1. /\ TypeOK /\ ControlInv /\ HandlesInv /\ QueueInv /\ RunningInv /\ DiskInv
      /\ ClaimsInv /\ GoneInv /\ LiveInv /\ NamedInv /\ DurableInv /\ ForgottenInv
  BY DEF Inv
<1>2. queue # <<>> /\ (queue' = Tail(queue) \/ queue' = queue)
  BY <1>1 DEF WriteIdentity, GoTo, ControlInv
<1>3. /\ queue' \in Seq(Operation)
      /\ \A p \in Proc : Pending(p)' => Pending(p)
      /\ queue' = queue => \A p \in Proc : Pending(p) => Pending(p)'
      /\ pc \notin {"idle", "cleanup"} \/ Head(queue).kind # "cleanup" =>
            \A p \in Proc : Pending(p) => Pending(p)'
      /\ pc = "cleanup" => \A p \in Proc : Pending(p) /\ p # cur => Pending(p)'
  BY <1>2, QueueMoves
<1>4. TypeOK'
  BY <1>1 DEF WriteIdentity, GoTo, TypeOK
<1>5. ControlInv'
  BY <1>1 DEF WriteIdentity, GoTo, ControlInv
<1>6. HandlesInv'
  BY <1>1 DEF WriteIdentity, GoTo, HandlesInv
<1>7. QueueInv'
  BY <1>1, <1>3 DEF WriteIdentity, GoTo, QueueInv
<1>8. RunningInv'
  BY <1>1 DEF WriteIdentity, GoTo, RunningInv
<1>9. DiskInv'
  BY <1>1 DEF WriteIdentity, GoTo, DiskInv, ControlInv
<1>10. ClaimsInv'
  BY <1>1 DEF WriteIdentity, GoTo, ClaimsInv, ManyClaims
<1>11. GoneInv'
  BY <1>1 DEF WriteIdentity, GoTo, GoneInv
<1>12. LiveInv'
  BY <1>1 DEF WriteIdentity, GoTo, LiveInv, DiskInv
<1>13. NamedInv'
  BY <1>1 DEF WriteIdentity, GoTo, NamedInv, DiskInv
<1>14. DurableInv'
  BY <1>1 DEF WriteIdentity, GoTo, DurableInv
<1>15. ForgottenInv'
  BY <1>1, <1>3 DEF WriteIdentity, GoTo, ForgottenInv, TypeOK
<1>. QED  BY <1>4, <1>5, <1>6, <1>7, <1>8, <1>9, <1>10, <1>11, <1>12, <1>13, <1>14, <1>15 DEF Inv

LEMMA VerifiedKeeps ==
    ASSUME Inv, Verified
    PROVE  Inv'
<1>1. /\ TypeOK /\ ControlInv /\ HandlesInv /\ QueueInv /\ RunningInv /\ DiskInv
      /\ ClaimsInv /\ GoneInv /\ LiveInv /\ NamedInv /\ DurableInv /\ ForgottenInv
  BY DEF Inv
<1>2. queue # <<>> /\ (queue' = Tail(queue) \/ queue' = queue)
  BY <1>1 DEF Verified, Settle, CallRemove, StillVerified, ControlInv
<1>3. /\ queue' \in Seq(Operation)
      /\ \A p \in Proc : Pending(p)' => Pending(p)
      /\ queue' = queue => \A p \in Proc : Pending(p) => Pending(p)'
      /\ pc \notin {"idle", "cleanup"} \/ Head(queue).kind # "cleanup" =>
            \A p \in Proc : Pending(p) => Pending(p)'
      /\ pc = "cleanup" => \A p \in Proc : Pending(p) /\ p # cur => Pending(p)'
  BY <1>2, QueueMoves
<1>4. TypeOK'
  BY <1>1, <1>3 DEF Verified, Settle, CallRemove, StillVerified, TypeOK, ControlInv
<1>5. ControlInv'
  BY <1>1 DEF Verified, Settle, CallRemove, StillVerified, ControlInv
<1>6. HandlesInv'
  BY <1>1 DEF Verified, Settle, CallRemove, StillVerified, HandlesInv
<1>7. QueueInv'
  BY <1>1, <1>3 DEF Verified, Settle, CallRemove, StillVerified, QueueInv
<1>8. RunningInv'
  BY <1>1 DEF Verified, Settle, CallRemove, StillVerified, RunningInv
<1>9. DiskInv'
  BY <1>1 DEF Verified, Settle, CallRemove, StillVerified, DiskInv
<1>10. ClaimsInv'
  BY <1>1 DEF Verified, Settle, CallRemove, StillVerified, ClaimsInv, ControlInv, HandlesInv, ManyClaims
<1>11. GoneInv'
  BY <1>1 DEF Verified, Settle, CallRemove, StillVerified, GoneInv
<1>12. LiveInv'
  BY <1>1 DEF Verified, Settle, CallRemove, StillVerified, LiveInv, DiskInv
<1>13. NamedInv'
  BY <1>1 DEF Verified, Settle, CallRemove, StillVerified, NamedInv, DiskInv
<1>14. DurableInv'
  BY <1>1 DEF Verified, Settle, CallRemove, StillVerified, DurableInv
<1>15. ForgottenInv'
  BY <1>1, <1>3 DEF Verified, Settle, CallRemove, StillVerified, ForgottenInv, TypeOK
<1>. QED  BY <1>4, <1>5, <1>6, <1>7, <1>8, <1>9, <1>10, <1>11, <1>12, <1>13, <1>14, <1>15 DEF Inv

LEMMA ReapKeeps ==
    ASSUME Inv, Reap
    PROVE  Inv'
<1>1. /\ TypeOK /\ ControlInv /\ HandlesInv /\ QueueInv /\ RunningInv /\ DiskInv
      /\ ClaimsInv /\ GoneInv /\ LiveInv /\ NamedInv /\ DurableInv /\ ForgottenInv
  BY DEF Inv
<1>2. queue # <<>> /\ (queue' = Tail(queue) \/ queue' = queue)
  BY <1>1 DEF Reap, AfterReap, Settle, CallRemove, ControlInv
<1>3. /\ queue' \in Seq(Operation)
      /\ \A p \in Proc : Pending(p)' => Pending(p)
      /\ queue' = queue => \A p \in Proc : Pending(p) => Pending(p)'
      /\ pc \notin {"idle", "cleanup"} \/ Head(queue).kind # "cleanup" =>
            \A p \in Proc : Pending(p) => Pending(p)'
      /\ pc = "cleanup" => \A p \in Proc : Pending(p) /\ p # cur => Pending(p)'
  BY <1>2, QueueMoves
<1>4. TypeOK'
  BY <1>1, <1>3 DEF Reap, AfterReap, Settle, CallRemove, TypeOK, ControlInv
<1>5. ControlInv'
  BY <1>1 DEF Reap, AfterReap, Settle, CallRemove, ControlInv
<1>6. HandlesInv'
  BY <1>1 DEF Reap, AfterReap, Settle, CallRemove, HandlesInv, TypeOK
<1>7. QueueInv'
  BY <1>1, <1>3 DEF Reap, AfterReap, Settle, CallRemove, QueueInv
<1>8. RunningInv'
  BY <1>1 DEF Reap, AfterReap, Settle, CallRemove, RunningInv
<1>9. DiskInv'
  BY <1>1 DEF Reap, AfterReap, Settle, CallRemove, DiskInv
<1>10. ClaimsInv'
  BY <1>1 DEF Reap, AfterReap, Settle, CallRemove, ClaimsInv, ControlInv, HandlesInv, ManyClaims
<1>11. GoneInv'
  BY <1>1 DEF Reap, AfterReap, Settle, CallRemove, GoneInv, TypeOK, HandlesInv
<1>12. LiveInv'
  BY <1>1 DEF Reap, AfterReap, Settle, CallRemove, LiveInv, TypeOK, HandlesInv
<1>13. NamedInv'
  BY <1>1 DEF Reap, AfterReap, Settle, CallRemove, NamedInv, RunningInv
<1>14. DurableInv'
  BY <1>1 DEF Reap, AfterReap, Settle, CallRemove, DurableInv
<1>15. ForgottenInv'
  BY <1>1, <1>3 DEF Reap, AfterReap, Settle, CallRemove, ForgottenInv, TypeOK
<1>. QED  BY <1>4, <1>5, <1>6, <1>7, <1>8, <1>9, <1>10, <1>11, <1>12, <1>13, <1>14, <1>15 DEF Inv

LEMMA VerifyHealthKeeps ==
    ASSUME Inv, VerifyHealth
    PROVE  Inv'
<1>1. /\ TypeOK /\ ControlInv /\ HandlesInv /\ QueueInv /\ RunningInv /\ DiskInv
      /\ ClaimsInv /\ GoneInv /\ LiveInv /\ NamedInv /\ DurableInv /\ ForgottenInv
  BY DEF Inv
<1>2. queue # <<>> /\ (queue' = Tail(queue) \/ queue' = queue)
  BY <1>1 DEF VerifyHealth, GoTo, Settle, Reachable, ControlInv
<1>3. /\ queue' \in Seq(Operation)
      /\ \A p \in Proc : Pending(p)' => Pending(p)
      /\ queue' = queue => \A p \in Proc : Pending(p) => Pending(p)'
      /\ pc \notin {"idle", "cleanup"} \/ Head(queue).kind # "cleanup" =>
            \A p \in Proc : Pending(p) => Pending(p)'
      /\ pc = "cleanup" => \A p \in Proc : Pending(p) /\ p # cur => Pending(p)'
  BY <1>2, QueueMoves
<1>4. TypeOK'
  BY <1>1, <1>3 DEF VerifyHealth, GoTo, Settle, Reachable, TypeOK
<1>5. ControlInv'
  BY <1>1 DEF VerifyHealth, GoTo, Settle, Reachable, ControlInv
<1>6. HandlesInv'
  BY <1>1 DEF VerifyHealth, GoTo, Settle, Reachable, HandlesInv
<1>7. QueueInv'
  BY <1>1, <1>3 DEF VerifyHealth, GoTo, Settle, Reachable, QueueInv
<1>8. RunningInv'
  BY <1>1 DEF VerifyHealth, GoTo, Settle, Reachable, RunningInv
<1>9. DiskInv'
  BY <1>1 DEF VerifyHealth, GoTo, Settle, Reachable, DiskInv
<1>10. ClaimsInv'
  BY <1>1 DEF VerifyHealth, GoTo, Settle, Reachable, ClaimsInv, ControlInv, ManyClaims
<1>11. GoneInv'
  BY <1>1 DEF VerifyHealth, GoTo, Settle, Reachable, GoneInv
<1>12. LiveInv'
  BY <1>1 DEF VerifyHealth, GoTo, Settle, Reachable, LiveInv
<1>13. NamedInv'
  BY <1>1 DEF VerifyHealth, GoTo, Settle, Reachable, NamedInv
<1>14. DurableInv'
  BY <1>1 DEF VerifyHealth, GoTo, Settle, Reachable, DurableInv
<1>15. ForgottenInv'
  BY <1>1, <1>3 DEF VerifyHealth, GoTo, Settle, Reachable, ForgottenInv, TypeOK
<1>. QED  BY <1>4, <1>5, <1>6, <1>7, <1>8, <1>9, <1>10, <1>11, <1>12, <1>13, <1>14, <1>15 DEF Inv

LEMMA RequestShutdownKeeps ==
    ASSUME Inv, RequestShutdown
    PROVE  Inv'
<1>1. /\ TypeOK /\ ControlInv /\ HandlesInv /\ QueueInv /\ RunningInv /\ DiskInv
      /\ ClaimsInv /\ GoneInv /\ LiveInv /\ NamedInv /\ DurableInv /\ ForgottenInv
  BY DEF Inv
<1>2. queue # <<>> /\ (queue' = Tail(queue) \/ queue' = queue)
  BY <1>1 DEF RequestShutdown, GoTo, Settle, Reachable, ControlInv
<1>3. /\ queue' \in Seq(Operation)
      /\ \A p \in Proc : Pending(p)' => Pending(p)
      /\ queue' = queue => \A p \in Proc : Pending(p) => Pending(p)'
      /\ pc \notin {"idle", "cleanup"} \/ Head(queue).kind # "cleanup" =>
            \A p \in Proc : Pending(p) => Pending(p)'
      /\ pc = "cleanup" => \A p \in Proc : Pending(p) /\ p # cur => Pending(p)'
  BY <1>2, QueueMoves
<1>4. TypeOK'
  BY <1>1, <1>3 DEF RequestShutdown, GoTo, Settle, Reachable, TypeOK
<1>5. ControlInv'
  BY <1>1 DEF RequestShutdown, GoTo, Settle, Reachable, ControlInv
<1>6. HandlesInv'
  BY <1>1 DEF RequestShutdown, GoTo, Settle, Reachable, HandlesInv
<1>7. QueueInv'
  BY <1>1, <1>3 DEF RequestShutdown, GoTo, Settle, Reachable, QueueInv
<1>8. RunningInv'
  BY <1>1 DEF RequestShutdown, GoTo, Settle, Reachable, RunningInv
<1>9. DiskInv'
  BY <1>1 DEF RequestShutdown, GoTo, Settle, Reachable, DiskInv
<1>10. ClaimsInv'
  BY <1>1 DEF RequestShutdown, GoTo, Settle, Reachable, ClaimsInv, ControlInv, ManyClaims
<1>11. GoneInv'
  BY <1>1 DEF RequestShutdown, GoTo, Settle, Reachable, GoneInv
<1>12. LiveInv'
  BY <1>1 DEF RequestShutdown, GoTo, Settle, Reachable, LiveInv
<1>13. NamedInv'
  BY <1>1 DEF RequestShutdown, GoTo, Settle, Reachable, NamedInv
<1>14. DurableInv'
  BY <1>1 DEF RequestShutdown, GoTo, Settle, Reachable, DurableInv
<1>15. ForgottenInv'
  BY <1>1, <1>3 DEF RequestShutdown, GoTo, Settle, Reachable, ForgottenInv, TypeOK
<1>. QED  BY <1>4, <1>5, <1>6, <1>7, <1>8, <1>9, <1>10, <1>11, <1>12, <1>13, <1>14, <1>15 DEF Inv

LEMMA WaitRecoveredKeeps ==
    ASSUME Inv, WaitRecovered
    PROVE  Inv'
<1>1. /\ TypeOK /\ ControlInv /\ HandlesInv /\ QueueInv /\ RunningInv /\ DiskInv
      /\ ClaimsInv /\ GoneInv /\ LiveInv /\ NamedInv /\ DurableInv /\ ForgottenInv
  BY DEF Inv
<1>2. queue # <<>> /\ (queue' = Tail(queue) \/ queue' = queue)
  BY <1>1 DEF WaitRecovered, Settle, Forget, CallRemove, ControlInv
<1>3. /\ queue' \in Seq(Operation)
      /\ \A p \in Proc : Pending(p)' => Pending(p)
      /\ queue' = queue => \A p \in Proc : Pending(p) => Pending(p)'
      /\ pc \notin {"idle", "cleanup"} \/ Head(queue).kind # "cleanup" =>
            \A p \in Proc : Pending(p) => Pending(p)'
      /\ pc = "cleanup" => \A p \in Proc : Pending(p) /\ p # cur => Pending(p)'
  BY <1>2, QueueMoves
<1>4. TypeOK'
  BY <1>1, <1>3 DEF WaitRecovered, Settle, Forget, CallRemove, TypeOK, ControlInv
<1>5. ControlInv'
  BY <1>1 DEF WaitRecovered, Settle, Forget, CallRemove, ControlInv
<1>6. HandlesInv'
  BY <1>1 DEF WaitRecovered, Settle, Forget, CallRemove, HandlesInv
<1>7. QueueInv'
  BY <1>1, <1>3 DEF WaitRecovered, Settle, Forget, CallRemove, QueueInv
<1>8. RunningInv'
  BY <1>1 DEF WaitRecovered, Settle, Forget, CallRemove, RunningInv
<1>9. DiskInv'
  BY <1>1 DEF WaitRecovered, Settle, Forget, CallRemove, DiskInv
<1>10. ClaimsInv'
  BY <1>1 DEF WaitRecovered, Settle, Forget, CallRemove, ClaimsInv, ControlInv, RunningInv, HandlesInv, ManyClaims
<1>11. GoneInv'
  BY <1>1 DEF WaitRecovered, Settle, Forget, CallRemove, GoneInv, TypeOK, ControlInv, RunningInv, HandlesInv
<1>12. LiveInv'
  BY <1>1 DEF WaitRecovered, Settle, Forget, CallRemove, LiveInv
<1>13. NamedInv'
  BY <1>1 DEF WaitRecovered, Settle, Forget, CallRemove, NamedInv
<1>14. DurableInv'
  BY <1>1 DEF WaitRecovered, Settle, Forget, CallRemove, DurableInv
<1>15. ForgottenInv'
  BY <1>1, <1>3 DEF WaitRecovered, Settle, Forget, CallRemove, ForgottenInv, TypeOK
<1>. QED  BY <1>4, <1>5, <1>6, <1>7, <1>8, <1>9, <1>10, <1>11, <1>12, <1>13, <1>14, <1>15 DEF Inv

LEMMA WaitChildKeeps ==
    ASSUME Inv, WaitChild
    PROVE  Inv'
<1>1. /\ TypeOK /\ ControlInv /\ HandlesInv /\ QueueInv /\ RunningInv /\ DiskInv
      /\ ClaimsInv /\ GoneInv /\ LiveInv /\ NamedInv /\ DurableInv /\ ForgottenInv
  BY DEF Inv
<1>2. queue # <<>> /\ (queue' = Tail(queue) \/ queue' = queue)
  BY <1>1 DEF WaitChild, Settle, Forget, CallRemove, Reachable, ControlInv
<1>3. /\ queue' \in Seq(Operation)
      /\ \A p \in Proc : Pending(p)' => Pending(p)
      /\ queue' = queue => \A p \in Proc : Pending(p) => Pending(p)'
      /\ pc \notin {"idle", "cleanup"} \/ Head(queue).kind # "cleanup" =>
            \A p \in Proc : Pending(p) => Pending(p)'
      /\ pc = "cleanup" => \A p \in Proc : Pending(p) /\ p # cur => Pending(p)'
  BY <1>2, QueueMoves
<1>4. TypeOK'
  BY <1>1, <1>3 DEF WaitChild, Settle, Forget, CallRemove, Reachable, TypeOK
<1>5. ControlInv'
  BY <1>1 DEF WaitChild, Settle, Forget, CallRemove, Reachable, ControlInv
<1>6. HandlesInv'
  BY <1>1 DEF WaitChild, Settle, Forget, CallRemove, Reachable, HandlesInv, TypeOK
<1>7. QueueInv'
  BY <1>1, <1>3 DEF WaitChild, Settle, Forget, CallRemove, Reachable, QueueInv
<1>8. RunningInv'
  BY <1>1 DEF WaitChild, Settle, Forget, CallRemove, Reachable, RunningInv
<1>9. DiskInv'
  BY <1>1 DEF WaitChild, Settle, Forget, CallRemove, Reachable, DiskInv
<1>10. ClaimsInv'
  BY <1>1 DEF WaitChild, Settle, Forget, CallRemove, Reachable, ClaimsInv, ControlInv, HandlesInv, ManyClaims
<1>11. GoneInv'
  BY <1>1 DEF WaitChild, Settle, Forget, CallRemove, Reachable, GoneInv, TypeOK, ControlInv, HandlesInv
<1>12. LiveInv'
  BY <1>1 DEF WaitChild, Settle, Forget, CallRemove, Reachable, LiveInv, TypeOK
<1>13. NamedInv'
  BY <1>1 DEF WaitChild, Settle, Forget, CallRemove, Reachable, NamedInv
<1>14. DurableInv'
  BY <1>1 DEF WaitChild, Settle, Forget, CallRemove, Reachable, DurableInv
<1>15. ForgottenInv'
  BY <1>1, <1>3 DEF WaitChild, Settle, Forget, CallRemove, Reachable, ForgottenInv, TypeOK
<1>. QED  BY <1>4, <1>5, <1>6, <1>7, <1>8, <1>9, <1>10, <1>11, <1>12, <1>13, <1>14, <1>15 DEF Inv

LEMMA RemoveRenameKeeps ==
    ASSUME Inv, RemoveRename
    PROVE  Inv'
<1>1. /\ TypeOK /\ ControlInv /\ HandlesInv /\ QueueInv /\ RunningInv /\ DiskInv
      /\ ClaimsInv /\ GoneInv /\ LiveInv /\ NamedInv /\ DurableInv /\ ForgottenInv
  BY DEF Inv
<1>2. queue # <<>> /\ (queue' = Tail(queue) \/ queue' = queue)
  BY <1>1 DEF RemoveRename, Return, Settle, ControlInv
<1>3. /\ queue' \in Seq(Operation)
      /\ \A p \in Proc : Pending(p)' => Pending(p)
      /\ queue' = queue => \A p \in Proc : Pending(p) => Pending(p)'
      /\ pc \notin {"idle", "cleanup"} \/ Head(queue).kind # "cleanup" =>
            \A p \in Proc : Pending(p) => Pending(p)'
      /\ pc = "cleanup" => \A p \in Proc : Pending(p) /\ p # cur => Pending(p)'
  BY <1>2, QueueMoves
<1>4. /\ claims' \in [Proc -> Nat]
      /\ \A q \in Proc : q # file => claims'[q] = claims[q]
      /\ file = None => claims' = claims
      /\ file # None => claims'[file] = claims[file] \/ (claims'[file] = claims[file] + 1)
  BY <1>1, <1>2, <1>3 DEF RemoveRename, Return, Settle, TypeOK, ControlInv
<1>5. TypeOK'
  BY <1>1, <1>3, <1>4 DEF RemoveRename, Return, Settle, TypeOK
<1>6. ControlInv'
  BY <1>1 DEF RemoveRename, Return, Settle, ControlInv, TypeOK
<1>7. HandlesInv'
  BY <1>1, <1>4 DEF RemoveRename, Return, Settle, HandlesInv
<1>8. QueueInv'
  BY <1>1, <1>3 DEF RemoveRename, Return, Settle, QueueInv
<1>9. RunningInv'
  BY <1>1 DEF RemoveRename, Return, Settle, RunningInv
<1>10. DiskInv'
  BY <1>1, <1>4 DEF RemoveRename, Return, Settle, DiskInv, ControlInv
<1>11. ClaimsInv'
  BY <1>1 DEF RemoveRename, Return, Settle, ClaimsInv, TypeOK, ManyClaims
<1>12. GoneInv'
  BY <1>1 DEF RemoveRename, Return, Settle, GoneInv
<1>13. LiveInv'
  BY <1>1 DEF RemoveRename, Return, Settle, LiveInv, TypeOK
<1>14. NamedInv'
  BY <1>1 DEF RemoveRename, Return, Settle, NamedInv, TypeOK
<1>15. DurableInv'
  BY <1>1 DEF RemoveRename, Return, Settle, DurableInv, TypeOK
<1>16. ForgottenInv'
  BY <1>1, <1>3 DEF RemoveRename, Return, Settle, ForgottenInv, TypeOK, ClaimsInv
<1>. QED  BY <1>5, <1>6, <1>7, <1>8, <1>9, <1>10, <1>11, <1>12, <1>13, <1>14, <1>15, <1>16 DEF Inv

LEMMA RemoveCompareKeeps ==
    ASSUME Inv, RemoveCompare
    PROVE  Inv'
<1>1. /\ TypeOK /\ ControlInv /\ HandlesInv /\ QueueInv /\ RunningInv /\ DiskInv
      /\ ClaimsInv /\ GoneInv /\ LiveInv /\ NamedInv /\ DurableInv /\ ForgottenInv
  BY DEF Inv
<1>2. queue # <<>> /\ (queue' = Tail(queue) \/ queue' = queue)
  BY <1>1 DEF RemoveCompare, Return, Settle, Matches, ControlInv
<1>3. /\ queue' \in Seq(Operation)
      /\ \A p \in Proc : Pending(p)' => Pending(p)
      /\ queue' = queue => \A p \in Proc : Pending(p) => Pending(p)'
      /\ pc \notin {"idle", "cleanup"} \/ Head(queue).kind # "cleanup" =>
            \A p \in Proc : Pending(p) => Pending(p)'
      /\ pc = "cleanup" => \A p \in Proc : Pending(p) /\ p # cur => Pending(p)'
  BY <1>2, QueueMoves
<1>4. /\ claims' \in [Proc -> Nat]
      /\ \A q \in Proc : q # tomb => claims'[q] = claims[q]
      /\ claims'[tomb] = claims[tomb] \/ (claims'[tomb] = claims[tomb] - 1 /\ tomb = cur)
  BY <1>1, <1>2, <1>3 DEF RemoveCompare, Return, Settle, Matches, TypeOK, ControlInv
<1>5. TypeOK'
  BY <1>1, <1>3, <1>4 DEF RemoveCompare, Return, Settle, Matches, TypeOK
<1>6. ControlInv'
  BY <1>1 DEF RemoveCompare, Return, Settle, Matches, ControlInv
<1>7. HandlesInv'
  BY <1>1, <1>4 DEF RemoveCompare, Return, Settle, Matches, HandlesInv, ControlInv
<1>8. QueueInv'
  BY <1>1, <1>3 DEF RemoveCompare, Return, Settle, Matches, QueueInv
<1>9. RunningInv'
  BY <1>1 DEF RemoveCompare, Return, Settle, Matches, RunningInv
<1>10. DiskInv'
  BY <1>1, <1>4 DEF RemoveCompare, Return, Settle, Matches, DiskInv, ControlInv
<1>11. ClaimsInv'
  <2>. SUFFICES ASSUME ~ioFailed' PROVE ClaimsInv'
    BY DEF ClaimsInv
  <2>1. ~ioFailed /\ OneClaim(tomb) /\ tomb \in Proc /\ claims \in [Proc -> Nat]
    BY <1>1, <1>2, <1>3, <1>4 DEF RemoveCompare, Return, Settle, Matches, ClaimsInv, ControlInv, TypeOK
  <2>2. CASE step' = "restore"
    <3>1. claims' = claims /\ tomb' = tomb /\ tomb # cur /\ cur' = cur
      BY <2>2, <2>1, <1>1, <1>2, <1>3, <1>4 DEF RemoveCompare, Return, Settle, Matches, ControlInv
    <3>. QED  BY <2>1, <2>2, <3>1 DEF ClaimsInv, ManyClaims
  <2>3. CASE step' # "restore"
    <3>1. step' = "none" /\ claims'[tomb] = claims[tomb] - 1
      BY <2>1, <2>3, <1>1, <1>2, <1>3, <1>4 DEF RemoveCompare, Return, Settle, Matches, ControlInv
    <3>2. \A q \in Proc : claims'[q] = 0
      BY <2>1, <3>1, <1>1, <1>2, <1>3, <1>4
    <3>. QED  BY <3>1, <3>2 DEF ClaimsInv, ManyClaims
  <2>. QED  BY <2>1, <2>2, <2>3 DEF ClaimsInv, ManyClaims
<1>12. GoneInv'
  BY <1>1 DEF RemoveCompare, Return, Settle, Matches, GoneInv
<1>13. LiveInv'
  BY <1>1, <1>4 DEF RemoveCompare, Return, Settle, Matches, LiveInv, GoneInv
<1>14. NamedInv'
  BY <1>1, <1>4 DEF RemoveCompare, Return, Settle, Matches, NamedInv, RunningInv, GoneInv
<1>15. DurableInv'
  <2>1. UNCHANGED <<file, children, durable>>
    BY DEF RemoveCompare
  <2>2. \A p \in Proc : Names(p)' => Names(p)
    BY <1>1, <1>4, <2>1 DEF TypeOK
  <2>3. (ioFailed => ioFailed') /\ pc # "written"
    BY <1>1 DEF RemoveCompare, Return, Settle, Matches, TypeOK
  <2>. QED  BY <1>1, <2>1, <2>2, <2>3 DEF DurableInv, TypeOK
<1>16. ForgottenInv'
  BY <1>1, <1>3 DEF RemoveCompare, Return, Settle, Matches, ForgottenInv, TypeOK, ClaimsInv, DiskInv
<1>. QED  BY <1>5, <1>6, <1>7, <1>8, <1>9, <1>10, <1>11, <1>12, <1>13, <1>14, <1>15, <1>16 DEF Inv

LEMMA RemoveRestoreKeeps ==
    ASSUME Inv, RemoveRestore
    PROVE  Inv'
<1>1. /\ TypeOK /\ ControlInv /\ HandlesInv /\ QueueInv /\ RunningInv /\ DiskInv
      /\ ClaimsInv /\ GoneInv /\ LiveInv /\ NamedInv /\ DurableInv /\ ForgottenInv
  BY DEF Inv
<1>2. queue # <<>> /\ (queue' = Tail(queue) \/ queue' = queue)
  BY <1>1 DEF RemoveRestore, Return, Settle, ControlInv
<1>3. /\ queue' \in Seq(Operation)
      /\ \A p \in Proc : Pending(p)' => Pending(p)
      /\ queue' = queue => \A p \in Proc : Pending(p) => Pending(p)'
      /\ pc \notin {"idle", "cleanup"} \/ Head(queue).kind # "cleanup" =>
            \A p \in Proc : Pending(p) => Pending(p)'
      /\ pc = "cleanup" => \A p \in Proc : Pending(p) /\ p # cur => Pending(p)'
  BY <1>2, QueueMoves
<1>4. TypeOK'
  BY <1>1, <1>3 DEF RemoveRestore, Return, Settle, TypeOK
<1>5. ControlInv'
  BY <1>1 DEF RemoveRestore, Return, Settle, ControlInv
<1>6. HandlesInv'
  BY <1>1 DEF RemoveRestore, Return, Settle, HandlesInv, ControlInv
<1>7. QueueInv'
  BY <1>1, <1>3 DEF RemoveRestore, Return, Settle, QueueInv
<1>8. RunningInv'
  BY <1>1 DEF RemoveRestore, Return, Settle, RunningInv
<1>9. DiskInv'
  BY <1>1 DEF RemoveRestore, Return, Settle, DiskInv, ControlInv
<1>10. ClaimsInv'
  BY <1>1 DEF RemoveRestore, Return, Settle, ClaimsInv, ManyClaims
<1>11. GoneInv'
  BY <1>1 DEF RemoveRestore, Return, Settle, GoneInv
<1>12. LiveInv'
  BY <1>1 DEF RemoveRestore, Return, Settle, LiveInv
<1>13. NamedInv'
  BY <1>1 DEF RemoveRestore, Return, Settle, NamedInv
<1>14. DurableInv'
  BY <1>1 DEF RemoveRestore, Return, Settle, DurableInv, ClaimsInv
<1>15. ForgottenInv'
  BY <1>1, <1>3 DEF RemoveRestore, Return, Settle, ForgottenInv, TypeOK, ClaimsInv
<1>. QED  BY <1>4, <1>5, <1>6, <1>7, <1>8, <1>9, <1>10, <1>11, <1>12, <1>13, <1>14, <1>15 DEF Inv

LEMMA RemoveDiscardKeeps ==
    ASSUME Inv, RemoveDiscard
    PROVE  Inv'
<1>1. /\ TypeOK /\ ControlInv /\ HandlesInv /\ QueueInv /\ RunningInv /\ DiskInv
      /\ ClaimsInv /\ GoneInv /\ LiveInv /\ NamedInv /\ DurableInv /\ ForgottenInv
  BY DEF Inv
<1>2. queue # <<>> /\ (queue' = Tail(queue) \/ queue' = queue)
  BY <1>1 DEF RemoveDiscard, Return, Settle, ControlInv
<1>3. /\ queue' \in Seq(Operation)
      /\ \A p \in Proc : Pending(p)' => Pending(p)
      /\ queue' = queue => \A p \in Proc : Pending(p) => Pending(p)'
      /\ pc \notin {"idle", "cleanup"} \/ Head(queue).kind # "cleanup" =>
            \A p \in Proc : Pending(p) => Pending(p)'
      /\ pc = "cleanup" => \A p \in Proc : Pending(p) /\ p # cur => Pending(p)'
  BY <1>2, QueueMoves
<1>4. /\ claims' \in [Proc -> Nat]
      /\ \A q \in Proc : q # tomb => claims'[q] = claims[q]
      /\ claims'[tomb] = claims[tomb] \/ (claims'[tomb] = claims[tomb] - 1)
  BY <1>1, <1>2, <1>3 DEF RemoveDiscard, Return, Settle, TypeOK, ControlInv
<1>5. TypeOK'
  BY <1>1, <1>3, <1>4 DEF RemoveDiscard, Return, Settle, TypeOK
<1>6. ControlInv'
  BY <1>1 DEF RemoveDiscard, Return, Settle, ControlInv
<1>7. HandlesInv'
  BY <1>1, <1>4 DEF RemoveDiscard, Return, Settle, HandlesInv, ControlInv
<1>8. QueueInv'
  BY <1>1, <1>3 DEF RemoveDiscard, Return, Settle, QueueInv
<1>9. RunningInv'
  BY <1>1 DEF RemoveDiscard, Return, Settle, RunningInv
<1>10. DiskInv'
  BY <1>1, <1>4 DEF RemoveDiscard, Return, Settle, DiskInv
<1>11. ClaimsInv'
  <2>. SUFFICES ASSUME ~ioFailed' PROVE ClaimsInv'
    BY DEF ClaimsInv
  <2>1. ~ioFailed /\ OneClaim(tomb) /\ tomb \in Proc /\ claims \in [Proc -> Nat]
    BY <1>1, <1>2, <1>3, <1>4 DEF RemoveDiscard, Return, Settle, ClaimsInv, ControlInv, TypeOK
  <2>2. claims'[tomb] = claims[tomb] - 1 /\ step' = "none"
    BY <2>1, <1>1, <1>2, <1>3, <1>4 DEF RemoveDiscard, Return, Settle
  <2>3. \A q \in Proc : claims'[q] = 0
    BY <2>1, <2>2, <1>1, <1>2, <1>3, <1>4
  <2>. QED  BY <2>1, <2>2, <2>3 DEF ClaimsInv, ManyClaims
<1>12. GoneInv'
  BY <1>1 DEF RemoveDiscard, Return, Settle, GoneInv
<1>13. LiveInv'
  BY <1>1, <1>4 DEF RemoveDiscard, Return, Settle, LiveInv, DiskInv
<1>14. NamedInv'
  BY <1>1, <1>4 DEF RemoveDiscard, Return, Settle, NamedInv, DiskInv
<1>15. DurableInv'
  BY <1>1 DEF RemoveDiscard, Return, Settle, DurableInv, TypeOK
<1>16. ForgottenInv'
  BY <1>1, <1>3 DEF RemoveDiscard, Return, Settle, ForgottenInv, TypeOK, ClaimsInv, DiskInv
<1>. QED  BY <1>5, <1>6, <1>7, <1>8, <1>9, <1>10, <1>11, <1>12, <1>13, <1>14, <1>15, <1>16 DEF Inv

LEMMA CallEnsureStartedKeeps ==
    ASSUME Inv, CallEnsureStarted
    PROVE  Inv'
<1>1. /\ TypeOK /\ ControlInv /\ HandlesInv /\ QueueInv /\ RunningInv /\ DiskInv
      /\ ClaimsInv /\ GoneInv /\ LiveInv /\ NamedInv /\ DurableInv /\ ForgottenInv
  BY DEF Inv
<1>2. /\ queue' \in Seq(Operation) /\ queue' # <<>>
      /\ queue # <<>> => Head(queue') = Head(queue)
      /\ \A p \in Proc : Pending(p)' <=> Pending(p)
  <2>1. Ensure \in Operation /\ \A p \in Proc : Ensure # Cleanup(p)
    BY DEF Operation, Ensure, Cleanup
  <2>. QED  BY <1>1, <2>1, QueueGrows DEF CallEnsureStarted
<1>3. TypeOK'
  BY <1>1, <1>2 DEF CallEnsureStarted, TypeOK
<1>4. ControlInv'
  BY <1>1 DEF CallEnsureStarted, ControlInv
<1>5. HandlesInv'
  BY <1>1 DEF CallEnsureStarted, HandlesInv
<1>6. QueueInv'
  BY <1>1, <1>2 DEF CallEnsureStarted, QueueInv, ControlInv
<1>7. RunningInv'
  BY <1>1 DEF CallEnsureStarted, RunningInv
<1>8. DiskInv'
  BY <1>1 DEF CallEnsureStarted, DiskInv
<1>9. ClaimsInv'
  BY <1>1 DEF CallEnsureStarted, ClaimsInv, ManyClaims
<1>10. GoneInv'
  BY <1>1 DEF CallEnsureStarted, GoneInv
<1>11. LiveInv'
  BY <1>1 DEF CallEnsureStarted, LiveInv
<1>12. NamedInv'
  BY <1>1 DEF CallEnsureStarted, NamedInv
<1>13. DurableInv'
  BY <1>1 DEF CallEnsureStarted, DurableInv
<1>14. ForgottenInv'
  BY <1>1, <1>2 DEF CallEnsureStarted, ForgottenInv, TypeOK
<1>. QED  BY <1>3, <1>4, <1>5, <1>6, <1>7, <1>8, <1>9, <1>10, <1>11, <1>12, <1>13, <1>14 DEF Inv

LEMMA CallStopKeeps ==
    ASSUME Inv, CallStop
    PROVE  Inv'
<1>1. /\ TypeOK /\ ControlInv /\ HandlesInv /\ QueueInv /\ RunningInv /\ DiskInv
      /\ ClaimsInv /\ GoneInv /\ LiveInv /\ NamedInv /\ DurableInv /\ ForgottenInv
  BY DEF Inv
<1>2. /\ queue' \in Seq(Operation) /\ queue' # <<>>
      /\ queue # <<>> => Head(queue') = Head(queue)
      /\ \A p \in Proc : Pending(p)' <=> Pending(p)
  <2>1. Stop \in Operation /\ \A p \in Proc : Stop # Cleanup(p)
    BY DEF Operation, Stop, Cleanup
  <2>. QED  BY <1>1, <2>1, QueueGrows DEF CallStop
<1>3. TypeOK'
  BY <1>1, <1>2 DEF CallStop, TypeOK
<1>4. ControlInv'
  BY <1>1 DEF CallStop, ControlInv
<1>5. HandlesInv'
  BY <1>1 DEF CallStop, HandlesInv
<1>6. QueueInv'
  BY <1>1, <1>2 DEF CallStop, QueueInv, ControlInv
<1>7. RunningInv'
  BY <1>1 DEF CallStop, RunningInv
<1>8. DiskInv'
  BY <1>1 DEF CallStop, DiskInv
<1>9. ClaimsInv'
  BY <1>1 DEF CallStop, ClaimsInv, ManyClaims
<1>10. GoneInv'
  BY <1>1 DEF CallStop, GoneInv
<1>11. LiveInv'
  BY <1>1 DEF CallStop, LiveInv
<1>12. NamedInv'
  BY <1>1 DEF CallStop, NamedInv
<1>13. DurableInv'
  BY <1>1 DEF CallStop, DurableInv
<1>14. ForgottenInv'
  BY <1>1, <1>2 DEF CallStop, ForgottenInv, TypeOK
<1>. QED  BY <1>3, <1>4, <1>5, <1>6, <1>7, <1>8, <1>9, <1>10, <1>11, <1>12, <1>13, <1>14 DEF Inv

LEMMA DieKeeps ==
    ASSUME Inv, NEW p \in Proc, Die(p)
    PROVE  Inv'
<1>1. /\ TypeOK /\ ControlInv /\ HandlesInv /\ QueueInv /\ RunningInv /\ DiskInv
      /\ ClaimsInv /\ GoneInv /\ LiveInv /\ NamedInv /\ DurableInv /\ ForgottenInv
  BY DEF Inv
<1>2. /\ UNCHANGED queue
      /\ \A other \in Proc : Pending(other)' <=> Pending(other)
  BY QueueSame DEF Die
<1>3. TypeOK'
  BY <1>1 DEF Die, TypeOK
<1>4. ControlInv'
  BY <1>1 DEF Die, ControlInv
<1>5. HandlesInv'
  BY <1>1 DEF Die, HandlesInv
<1>6. QueueInv'
  BY <1>1, <1>2 DEF Die, QueueInv
<1>7. RunningInv'
  BY <1>1 DEF Die, RunningInv
<1>8. DiskInv'
  BY <1>1 DEF Die, DiskInv
<1>9. ClaimsInv'
  BY <1>1 DEF Die, ClaimsInv, ManyClaims
<1>10. GoneInv'
  BY <1>1 DEF Die, GoneInv
<1>11. LiveInv'
  BY <1>1 DEF Die, LiveInv
<1>12. NamedInv'
  BY <1>1 DEF Die, NamedInv
<1>13. DurableInv'
  BY <1>1 DEF Die, DurableInv
<1>14. ForgottenInv'
  BY <1>1, <1>2 DEF Die, ForgottenInv, TypeOK
<1>. QED  BY <1>3, <1>4, <1>5, <1>6, <1>7, <1>8, <1>9, <1>10, <1>11, <1>12, <1>13, <1>14 DEF Inv

LEMMA LaterOutputKeeps ==
    ASSUME Inv, NEW p \in Proc, LaterOutput(p)
    PROVE  Inv'
<1>1. /\ TypeOK /\ ControlInv /\ HandlesInv /\ QueueInv /\ RunningInv /\ DiskInv
      /\ ClaimsInv /\ GoneInv /\ LiveInv /\ NamedInv /\ DurableInv /\ ForgottenInv
  BY DEF Inv
<1>2. /\ UNCHANGED queue
      /\ \A other \in Proc : Pending(other)' <=> Pending(other)
  BY QueueSame DEF LaterOutput
<1>3. TypeOK'
  BY <1>1 DEF LaterOutput, TypeOK
<1>4. ControlInv'
  BY <1>1 DEF LaterOutput, ControlInv
<1>5. HandlesInv'
  BY <1>1 DEF LaterOutput, HandlesInv
<1>6. QueueInv'
  BY <1>1, <1>2 DEF LaterOutput, QueueInv
<1>7. RunningInv'
  BY <1>1 DEF LaterOutput, RunningInv
<1>8. DiskInv'
  BY <1>1 DEF LaterOutput, DiskInv
<1>9. ClaimsInv'
  BY <1>1 DEF LaterOutput, ClaimsInv, ManyClaims
<1>10. GoneInv'
  BY <1>1 DEF LaterOutput, GoneInv
<1>11. LiveInv'
  BY <1>1 DEF LaterOutput, LiveInv
<1>12. NamedInv'
  BY <1>1 DEF LaterOutput, NamedInv
<1>13. DurableInv'
  BY <1>1 DEF LaterOutput, DurableInv
<1>14. ForgottenInv'
  BY <1>1, <1>2 DEF LaterOutput, ForgottenInv, TypeOK
<1>. QED  BY <1>3, <1>4, <1>5, <1>6, <1>7, <1>8, <1>9, <1>10, <1>11, <1>12, <1>13, <1>14 DEF Inv

LEMMA RevokeGenerationKeeps ==
    ASSUME Inv, RevokeGeneration
    PROVE  Inv'
<1>1. /\ TypeOK /\ ControlInv /\ HandlesInv /\ QueueInv /\ RunningInv /\ DiskInv
      /\ ClaimsInv /\ GoneInv /\ LiveInv /\ NamedInv /\ DurableInv /\ ForgottenInv
  BY DEF Inv
<1>2. /\ UNCHANGED queue
      /\ \A other \in Proc : Pending(other)' <=> Pending(other)
  BY QueueSame DEF RevokeGeneration
<1>3. TypeOK'
  BY <1>1 DEF RevokeGeneration, TypeOK
<1>4. ControlInv'
  BY <1>1 DEF RevokeGeneration, ControlInv
<1>5. HandlesInv'
  BY <1>1 DEF RevokeGeneration, HandlesInv
<1>6. QueueInv'
  BY <1>1, <1>2 DEF RevokeGeneration, QueueInv
<1>7. RunningInv'
  BY <1>1 DEF RevokeGeneration, RunningInv
<1>8. DiskInv'
  BY <1>1 DEF RevokeGeneration, DiskInv
<1>9. ClaimsInv'
  BY <1>1 DEF RevokeGeneration, ClaimsInv, ManyClaims
<1>10. GoneInv'
  BY <1>1 DEF RevokeGeneration, GoneInv
<1>11. LiveInv'
  BY <1>1 DEF RevokeGeneration, LiveInv
<1>12. NamedInv'
  BY <1>1 DEF RevokeGeneration, NamedInv
<1>13. DurableInv'
  BY <1>1 DEF RevokeGeneration, DurableInv
<1>14. ForgottenInv'
  BY <1>1, <1>2 DEF RevokeGeneration, ForgottenInv, TypeOK
<1>. QED  BY <1>3, <1>4, <1>5, <1>6, <1>7, <1>8, <1>9, <1>10, <1>11, <1>12, <1>13, <1>14 DEF Inv

LEMMA ExitEventKeeps ==
    ASSUME Inv, NEW p \in Proc, ExitEvent(p)
    PROVE  Inv'
<1>1. /\ TypeOK /\ ControlInv /\ HandlesInv /\ QueueInv /\ RunningInv /\ DiskInv
      /\ ClaimsInv /\ GoneInv /\ LiveInv /\ NamedInv /\ DurableInv /\ ForgottenInv
  BY DEF Inv
<1>2. /\ queue' \in Seq(Operation)
      /\ queue # <<>> => queue' # <<>> /\ Head(queue') = Head(queue)
      /\ \A other \in Proc : Pending(other) => Pending(other)'
      /\ \A other \in Proc : Pending(other)' => Pending(other) \/ other = p
      /\ p \in durable => Pending(p)'
  <2>1. CASE p \in durable
    <3>1. Cleanup(p) \in Operation /\ queue' = Append(queue, Cleanup(p))
      BY <2>1 DEF Operation, Cleanup, ExitEvent, QueueCleanup
    <3>2. \A other \in Proc : Cleanup(p) = Cleanup(other) => other = p
      BY DEF Cleanup
    <3>. QED  BY <1>1, <3>1, <3>2, QueueGrows
  <2>2. CASE p \notin durable
    BY <1>1, <2>2, QueueSame DEF ExitEvent, QueueCleanup, TypeOK
  <2>. QED  BY <2>1, <2>2
<1>3. TypeOK'
  BY <1>1, <1>2 DEF ExitEvent, TypeOK
<1>4. ControlInv'
  BY <1>1, <1>2 DEF ExitEvent, ControlInv
<1>5. HandlesInv'
  BY <1>1 DEF ExitEvent, HandlesInv
<1>6. QueueInv'
  BY <1>1, <1>2 DEF ExitEvent, QueueInv, ControlInv
<1>7. RunningInv'
  BY <1>1 DEF ExitEvent, RunningInv
<1>8. DiskInv'
  BY <1>1 DEF ExitEvent, DiskInv
<1>9. ClaimsInv'
  BY <1>1 DEF ExitEvent, ClaimsInv, ManyClaims
<1>10. GoneInv'
  BY <1>1 DEF ExitEvent, GoneInv
<1>11. LiveInv'
  BY <1>1 DEF ExitEvent, LiveInv
<1>12. NamedInv'
  BY <1>1 DEF ExitEvent, NamedInv
<1>13. DurableInv'
  BY <1>1 DEF ExitEvent, DurableInv
<1>14. ForgottenInv'
  BY <1>1, <1>2 DEF ExitEvent, ForgottenInv, TypeOK, DurableInv
<1>. QED  BY <1>3, <1>4, <1>5, <1>6, <1>7, <1>8, <1>9, <1>10, <1>11, <1>12, <1>13, <1>14 DEF Inv

LEMMA ServiceRestartKeeps ==
    ASSUME Inv, ServiceRestart
    PROVE  Inv'
<1>1. /\ TypeOK /\ ControlInv /\ HandlesInv /\ QueueInv /\ RunningInv /\ DiskInv
      /\ ClaimsInv /\ GoneInv /\ LiveInv /\ NamedInv /\ DurableInv /\ ForgottenInv
  BY DEF Inv
<1>2. /\ queue' = <<>> /\ queue' \in Seq(Operation)
      /\ \A p \in Proc : ~Pending(p)'
  BY EmptySeq DEF ServiceRestart, Pending
<1>3. TypeOK'
  BY <1>1, <1>2 DEF ServiceRestart, TypeOK
<1>4. ControlInv'
  BY <1>1 DEF ServiceRestart, ControlInv
<1>5. HandlesInv'
  BY <1>1 DEF ServiceRestart, HandlesInv
<1>6. QueueInv'
  BY <1>1, <1>2 DEF ServiceRestart, QueueInv
<1>7. RunningInv'
  BY <1>1 DEF ServiceRestart, RunningInv
<1>8. DiskInv'
  BY <1>1 DEF ServiceRestart, DiskInv
<1>9. ClaimsInv'
  BY <1>1 DEF ServiceRestart, ClaimsInv, ManyClaims
<1>10. GoneInv'
  BY <1>1 DEF ServiceRestart, GoneInv
<1>11. LiveInv'
  BY <1>1 DEF ServiceRestart, LiveInv, Named
<1>12. NamedInv'
  BY <1>1 DEF ServiceRestart, NamedInv
<1>13. DurableInv'
  BY <1>1 DEF ServiceRestart, DurableInv
<1>14. ForgottenInv'
  BY <1>1 DEF ServiceRestart, ForgottenInv
<1>. QED  BY <1>3, <1>4, <1>5, <1>6, <1>7, <1>8, <1>9, <1>10, <1>11, <1>12, <1>13, <1>14 DEF Inv

-----------------------------------------------------------------------------
(* The invariant.                                                          *)

LEMMA InitInv == Init => Inv
<1>. SUFFICES ASSUME Init PROVE Inv
  OBVIOUS
<1>1. queue \in Seq(Operation) /\ \A p \in Proc : ~Pending(p)
  BY EmptySeq DEF Init, Pending
<1>2. TypeOK
  BY <1>1 DEF Init, TypeOK
<1>6. ControlInv /\ HandlesInv
  BY DEF Init, ControlInv, HandlesInv
<1>5. QueueInv /\ RunningInv
  BY <1>1 DEF Init, QueueInv, RunningInv
<1>3. DiskInv /\ ClaimsInv
  BY DEF Init, DiskInv, ClaimsInv, ManyClaims
<1>4. GoneInv /\ LiveInv /\ NamedInv /\ DurableInv /\ ForgottenInv
  BY DEF Init, GoneInv, LiveInv, NamedInv, DurableInv, ForgottenInv
<1>. QED  BY <1>2, <1>3, <1>4, <1>5, <1>6 DEF Inv

LEMMA StutterInv ==
    ASSUME Inv, UNCHANGED vars
    PROVE  Inv'
<1>1. /\ TypeOK /\ ControlInv /\ HandlesInv /\ QueueInv /\ RunningInv /\ DiskInv
      /\ ClaimsInv /\ GoneInv /\ LiveInv /\ NamedInv /\ DurableInv /\ ForgottenInv
  BY DEF Inv
<1>2. \A p \in Proc : Pending(p)' <=> Pending(p)
  BY QueueSame DEF vars
<1>3. TypeOK' /\ ControlInv' /\ HandlesInv'
  BY <1>1 DEF vars, TypeOK, ControlInv, HandlesInv
<1>4. QueueInv' /\ RunningInv'
  BY <1>1, <1>2 DEF vars, QueueInv, RunningInv
<1>5. DiskInv' /\ ClaimsInv'
  BY <1>1 DEF vars, DiskInv, ClaimsInv, ManyClaims
<1>6. GoneInv' /\ LiveInv' /\ NamedInv' /\ DurableInv'
  BY <1>1 DEF vars, GoneInv, LiveInv, NamedInv, DurableInv
<1>7. ForgottenInv'
  BY <1>1, <1>2 DEF vars, TypeOK, ForgottenInv
<1>. QED  BY <1>3, <1>4, <1>5, <1>6, <1>7 DEF Inv

LEMMA OperationInv ==
    ASSUME Inv, OperationStep
    PROVE  Inv'
BY BeginEnsureKeeps, BeginStopKeeps, BeginCleanupKeeps, ScanKeeps, RelinkKeeps, UnlinkKeeps,
   GetKeeps, CheckKeeps, SpawnBridgeKeeps, ReadinessKeeps, HealthPollKeeps,
   WriteIdentityKeeps, VerifiedKeeps, ReapKeeps, VerifyHealthKeeps, RequestShutdownKeeps,
   WaitRecoveredKeeps, WaitChildKeeps, RemoveRenameKeeps, RemoveCompareKeeps,
   RemoveRestoreKeeps, RemoveDiscardKeeps
   DEF OperationStep

LEMMA NextInv ==
    ASSUME Inv, [Next]_vars
    PROVE  Inv'
BY OperationInv, CallEnsureStartedKeeps, CallStopKeeps, DieKeeps, ExitEventKeeps,
   LaterOutputKeeps, RevokeGenerationKeeps, ServiceRestartKeeps, StutterInv
   DEF Next

LEMMA Invariance == Spec => []Inv
BY InitInv, NextInv, PTL DEF Spec

-----------------------------------------------------------------------------
(* The theorems.                                                           *)

(* Every variable keeps a value of its type; in particular a tombstone is  *)
(* unlinked only where one is.                                             *)
THEOREM BridgeTypes == Spec => []TypeOK
<1>1. Inv => TypeOK
  BY DEF Inv
<1>. QED  BY <1>1, Invariance, PTL

(* Whatever fails and whenever the service dies, the file and all the      *)
(* tombstones name one bridge.                                             *)
THEOREM OneIdentity == Spec => []DiskNamesOne
<1>1. Inv => DiskNamesOne
  BY DEF Inv, DiskInv, DiskNamesOne, Named
<1>. QED  BY <1>1, Invariance, PTL

(* No crash of the service, at whatever step of a removal or a recovery,   *)
(* leaves two tombstones: read() never finds the store corrupt by itself.  *)
THEOREM NeverCorrupt == Spec => []NoCorruption
<1>1. Inv => NoCorruption
  BY DEF Inv, ClaimsInv, NoCorruption
<1>. QED  BY <1>1, Invariance, PTL

(* The bridge in use is on disk as long as it lives, whichever cleanups    *)
(* and failures come in between.                                           *)
THEOREM BridgeRecoverable == Spec => []RunningIsNamed
<1>1. Inv => RunningIsNamed
  BY DEF Inv, TypeOK, NamedInv, RunningIsNamed, Named
<1>. QED  BY <1>1, Invariance, PTL

(* But for bridges that were given up, at most one lives.                  *)
THEOREM OneBridge == Spec => []SingleBridge
<1>1. Inv => SingleBridge
  BY DEF Inv, LiveInv, DiskInv, SingleBridge
<1>. QED  BY <1>1, Invariance, PTL

(* The identity of a child that exited is on disk only while its removal   *)
(* is due.                                                                 *)
THEOREM ExitCleansUp == Spec => []ExitedIsForgotten
<1>1. Inv => ExitedIsForgotten
  BY DEF Inv, ForgottenInv, ExitedIsForgotten, Named
<1>. QED  BY <1>1, Invariance, PTL

-----------------------------------------------------------------------------
(* The refinement of BridgeRegistry.                                       *)

Spawned == {p \in Proc : proc[p] # "unborn"}
Candidate == {p \in Proc : pc \in Unpublished /\ p = cur}

RegistryStutter == UNCHANGED <<Spawned, Candidate, Named>>
RegistryRetract == Named # {} /\ Named' = {} /\ UNCHANGED <<Spawned, Candidate>>
RegistryDiscard == Candidate # {} /\ Candidate' = {} /\ UNCHANGED <<Spawned, Named>>
RegistryPublish ==
    Candidate # {} /\ Named = {} /\ Named' = Candidate /\ Candidate' = {} /\ UNCHANGED Spawned
RegistrySpawn ==
    \E p \in Proc : p \notin Spawned /\ Candidate = {} /\ Named = {}
                    /\ Spawned' = Spawned \cup {p} /\ Candidate' = {p} /\ UNCHANGED Named

(* The steps that touch neither the disk nor the set of processes, and are *)
(* outside the part of a start before its identity is written.             *)
LEMMA ControlSteps ==
    ASSUME Inv, UNCHANGED <<file, claims>>,
           \A p \in Proc : proc'[p] # "unborn" <=> proc[p] # "unborn",
           pc \notin Unpublished, pc' \notin Unpublished
    PROVE  RegistryStutter
BY DEF RegistryStutter, Spawned, Candidate, Named

(* What comes from outside leaves the head of the queue where it is.       *)
LEMMA OutsideSteps ==
    ASSUME Inv, UNCHANGED <<file, claims, pc, cur>>,
           \A p \in Proc : proc'[p] # "unborn" <=> proc[p] # "unborn"
    PROVE  RegistryStutter
BY DEF RegistryStutter, Spawned, Candidate, Named

(* A copy that is put elsewhere.                                           *)
LEMMA MovingSteps ==
    ASSUME Inv, Relink \/ RemoveRename \/ RemoveRestore
    PROVE  RegistryStutter
<1>1. TypeOK /\ ControlInv /\ DiskInv
  BY DEF Inv
<1>2. UNCHANGED proc /\ pc \notin Unpublished /\ pc' \notin Unpublished
  BY <1>1 DEF Relink, RemoveRename, RemoveRestore, GoTo, Return, Settle, ControlInv
<1>3. \A p \in Proc : Names(p)' <=> Names(p)
  <2>1. CASE Relink
    BY <1>1, <2>1 DEF Relink, GoTo, Settle, TypeOK, ControlInv, DiskInv
  <2>2. CASE RemoveRestore
    BY <1>1, <2>2 DEF RemoveRestore, Return, Settle, TypeOK, ControlInv, DiskInv
  <2>3. CASE RemoveRename
    <3>1. CASE UNCHANGED <<file, claims>>
      BY <3>1
    <3>2. CASE /\ file # None /\ file' = None
               /\ claims' = [claims EXCEPT ![file] = @ + 1]
      <4>1. file \in Proc /\ claims'[file] = claims[file] + 1 /\ claims[file] \in Nat
        BY <1>1, <3>2 DEF TypeOK
      <4>2. \A q \in Proc : q # file => claims'[q] = claims[q]
        BY <1>1, <3>2 DEF TypeOK
      <4>. QED  BY <3>2, <4>1, <4>2
    <3>. QED  BY <2>3, <3>1, <3>2 DEF RemoveRename
  <2>. QED  BY <2>1, <2>2, <2>3
<1>. QED  BY <1>2, <1>3 DEF RegistryStutter, Spawned, Candidate, Named

(* A copy that is unlinked: the last one, or not.                          *)
LEMMA UnlinkingSteps ==
    ASSUME Inv, Unlink \/ RemoveCompare \/ RemoveDiscard
    PROVE  RegistryStutter \/ RegistryRetract
<1>1. TypeOK /\ ControlInv /\ DiskInv
  BY DEF Inv
<1>2. UNCHANGED <<proc, file>> /\ pc \notin Unpublished /\ pc' \notin Unpublished
  BY <1>1 DEF Unlink, RemoveCompare, RemoveDiscard, GoTo, Return, Settle, ControlInv
<1>3. claims' = claims \/ claims' = [claims EXCEPT ![tomb] = @ - 1]
  BY DEF Unlink, RemoveCompare, RemoveDiscard
<1>4. tomb \in Proc /\ Names(tomb)
  BY <1>1 DEF Unlink, RemoveCompare, RemoveDiscard, ControlInv
<1>5. \A q \in Proc : q # tomb => ~Names(q) /\ ~Names(q)'
  BY <1>1, <1>2, <1>3, <1>4 DEF DiskInv, TypeOK
<1>6. UNCHANGED <<Spawned, Candidate>>
  BY <1>2 DEF Spawned, Candidate
<1>7. Named = {tomb}
  BY <1>4, <1>5 DEF Named
<1>8. Named' = {} \/ Named' = {tomb}
  BY <1>4, <1>5 DEF Named
<1>. QED  BY <1>6, <1>7, <1>8 DEF RegistryStutter, RegistryRetract

(* A start, until its identity is written.                                 *)
LEMMA SpawningStep ==
    ASSUME Inv, SpawnBridge
    PROVE  RegistryStutter \/ RegistrySpawn
<1>1. TypeOK /\ DiskInv /\ pc = "fresh" /\ UNCHANGED <<file, claims>>
  BY DEF Inv, SpawnBridge
<1>2. Named = {} /\ Named' = {} /\ Candidate = {}
  BY <1>1 DEF DiskInv, Named, Candidate
<1>3. CASE Settle /\ UNCHANGED proc
  BY <1>1, <1>2, <1>3 DEF Settle, RegistryStutter, Spawned, Candidate
<1>4. CASE \E p \in Proc : /\ proc[p] = "unborn" /\ proc' = [proc EXCEPT ![p] = "alive"]
                           /\ pc' = "ready" /\ cur' = p
  <2>1. PICK p \in Proc : /\ proc[p] = "unborn" /\ proc' = [proc EXCEPT ![p] = "alive"]
                          /\ pc' = "ready" /\ cur' = p
    BY <1>4
  <2>2. p \notin Spawned /\ Spawned' = Spawned \cup {p}
    BY <1>1, <2>1 DEF Spawned, TypeOK
  <2>3. Candidate' = {p}
    BY <2>1 DEF Candidate
  <2>. QED  BY <1>2, <2>2, <2>3 DEF RegistrySpawn
<1>. QED  BY <1>3, <1>4 DEF SpawnBridge

LEMMA StartingSteps ==
    ASSUME Inv, Readiness \/ HealthPoll \/ WriteIdentity
    PROVE  RegistryStutter \/ RegistryDiscard \/ RegistryPublish
<1>1. TypeOK /\ ControlInv /\ DiskInv /\ UNCHANGED <<proc, claims, cur>>
  BY DEF Inv, Readiness, HealthPoll, WriteIdentity, GoTo
<1>2. /\ pc \in Unpublished /\ cur \in Proc /\ file = None /\ NoClaims
      /\ (file' = None /\ pc' \in Unpublished \cup {"reap"})
         \/ (file' = cur /\ pc' \in {"written", "reap"})
  BY <1>1 DEF Readiness, HealthPoll, WriteIdentity, GoTo, ControlInv, DiskInv
<1>3. Candidate = {cur} /\ Named = {} /\ UNCHANGED Spawned
  BY <1>1, <1>2 DEF Candidate, Named, Spawned
<1>4. CASE file' = None
  <2>1. Named' = {}
    BY <1>1, <1>2, <1>4 DEF Named
  <2>2. Candidate' = Candidate \/ Candidate' = {}
    BY <1>1, <1>2 DEF Candidate
  <2>. QED  BY <1>3, <2>1, <2>2 DEF RegistryStutter, RegistryDiscard
<1>5. CASE file' = cur /\ pc' \in {"written", "reap"}
  <2>1. Named' = {cur} /\ Candidate' = {}
    BY <1>1, <1>2, <1>5 DEF Named, Candidate
  <2>. QED  BY <1>3, <2>1 DEF RegistryPublish
<1>. QED  BY <1>2, <1>4, <1>5

LEMMA RestartStep ==
    ASSUME Inv, ServiceRestart
    PROVE  RegistryStutter \/ RegistryDiscard
<1>1. UNCHANGED <<proc, file, claims>> /\ pc' = "idle"
  BY DEF ServiceRestart
<1>2. Candidate' = {} /\ UNCHANGED <<Spawned, Named>>
  BY <1>1 DEF Candidate, Spawned, Named
<1>. QED  BY <1>2 DEF RegistryStutter, RegistryDiscard

LEMMA RegistryStep ==
    ASSUME Inv, [Next]_vars
    PROVE  \/ RegistryStutter \/ RegistryRetract \/ RegistryDiscard
           \/ RegistryPublish \/ RegistrySpawn
<1>1. TypeOK /\ ControlInv
  BY DEF Inv
<1>2. CASE \/ BeginEnsure \/ BeginStop \/ BeginCleanup \/ Scan \/ Get \/ Check
           \/ VerifyHealth \/ RequestShutdown \/ WaitRecovered
  <2>1. UNCHANGED <<proc, file, claims>> /\ pc \notin Unpublished /\ pc' \notin Unpublished
    BY <1>2 DEF BeginEnsure, BeginStop, BeginCleanup, Begins, Scan, Get, Check, VerifyHealth,
                RequestShutdown, WaitRecovered, Forget, CallRemove, GoTo, Settle
  <2>. QED  BY <2>1, ControlSteps
<1>3. CASE Verified \/ Reap \/ WaitChild
  <2>1. UNCHANGED <<file, claims>> /\ pc \notin Unpublished /\ pc' \notin Unpublished
    BY <1>3 DEF Verified, Reap, AfterReap, WaitChild, Forget, CallRemove, Settle
  <2>2. cur \in Proc /\ (proc' = proc \/ (proc' = [proc EXCEPT ![cur] = "dead"] /\ proc[cur] # "unborn"))
    <3>1. HandlesInv
      BY DEF Inv
    <3>. QED  BY <1>1, <1>3, <3>1 DEF Verified, Reap, WaitChild, Reachable, ControlInv, HandlesInv
  <2>3. \A p \in Proc : proc'[p] # "unborn" <=> proc[p] # "unborn"
    BY <1>1, <2>2 DEF TypeOK
  <2>. QED  BY <2>1, <2>3, ControlSteps
<1>4. CASE OperationStep
  BY <1>2, <1>3, <1>4, MovingSteps, UnlinkingSteps, SpawningStep, StartingSteps DEF OperationStep
<1>5. CASE CallEnsureStarted \/ CallStop \/ RevokeGeneration \/ UNCHANGED vars
  BY <1>5, OutsideSteps DEF CallEnsureStarted, CallStop, RevokeGeneration, vars
<1>6. ASSUME NEW p \in Proc, Die(p) \/ ExitEvent(p) \/ LaterOutput(p)
      PROVE  RegistryStutter
  <2>1. UNCHANGED <<file, claims, pc, cur>>
    BY <1>6 DEF Die, ExitEvent, LaterOutput
  <2>2. proc' = proc \/ (proc' = [proc EXCEPT ![p] = "dead"] /\ proc[p] = "alive")
    BY <1>6 DEF Die, ExitEvent, LaterOutput
  <2>3. \A q \in Proc : proc'[q] # "unborn" <=> proc[q] # "unborn"
    BY <1>1, <2>2 DEF TypeOK
  <2>. QED  BY <2>1, <2>3, OutsideSteps
<1>. QED  BY <1>4, <1>5, <1>6, RestartStep DEF Next

(* However many steps, failures and restarts it takes, the identity on     *)
(* disk behaves as one atomic register of BridgeRegistry: a bridge is      *)
(* spawned only while it is empty, only that bridge is written there, and  *)
(* what was removed never comes back.                                      *)
THEOREM ImplementsRegistry == Spec => RegistrySpec
<1>1. Init => Registry!Init
  BY DEF Init, Registry!Init, Named
<1>2. ASSUME Inv, [Next]_vars PROVE [Registry!Next]_(Registry!vars)
  BY <1>2, RegistryStep
     DEF RegistryStutter, RegistryRetract, RegistryDiscard, RegistryPublish, RegistrySpawn,
         Spawned, Candidate, Registry!Next, Registry!vars, Registry!Spawn, Registry!Publish,
         Registry!Discard, Registry!Retract
<1>. QED  BY <1>1, <1>2, Invariance, PTL DEF Spec, RegistrySpec, Registry!Spec

=============================================================================
