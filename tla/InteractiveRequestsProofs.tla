---------------------- MODULE InteractiveRequestsProofs ----------------------
(***************************************************************************)
(* Proofs about InteractiveRequests, for any number of requests and bridge *)
(* instances, whichever requests are cancelled or expire.                  *)
(*                                                                         *)
(* A record is made at most once, and is dropped only after it expired:    *)
(* what was once known of it (Existed, Worked, Done, Answered) stays true  *)
(* in every step of every actor.  The inductive invariant says which of    *)
(* these each actor may rely on at each of its awaits.                     *)
(***************************************************************************)
EXTENDS InteractiveRequests, TLAPS

(* The record of r exists, or never will again.                            *)
Existed(r) == record[r].status # "none" \/ r \in expired

(* Its task is over, or will never start, on the bridge of the record.     *)
Done(r) ==
    Existed(r) /\ (record[r].instance = instance => task[r] \in {"fenced", "ended"})

(* It is the record of work.                                               *)
Worked(r) == Existed(r) /\ (record[r].status # "none" => record[r].work)

(* It has a response.                                                      *)
Answered(r) == Existed(r) /\ (record[r].status # "none" => record[r].response)

RecordSound(r) ==
    /\ record[r].status = "none" => record[r] = NoRecord
    /\ record[r].instance <= instance
    /\ record[r].status = "terminal" \/ record[r].result = "proved" => Done(r)
    /\ task[r] = "running" => Worked(r)
    /\ r \in sent => Answered(r)

(* reserveInteractive: at most one work of the discussion is not over.     *)
OneOpen ==
    \A r, q \in Requests :
        r # q /\ record[r].work /\ record[q].work => Done(r) \/ Done(q)

Records == OneOpen /\ \A r \in Requests : RecordSound(r)

(* The stages of #run after the record was reserved.                       *)
Reserving == {"latest", "fencing", "proved", "starting", "retrying", "marking", "consuming",
              "ending", "unstopped", "answering"}

RunKnows(r) ==
    /\ run[r].instance <= instance
    /\ run[r].at \in Reserving => Worked(r)
    /\ run[r].at \in {"proved", "ending"} => Done(r)
    /\ run[r].at = "answering" => Answered(r)

CancelKnows(r) ==
    /\ cancel[r].instance <= instance
    /\ cancel[r].at \in {"looked", "healthy"} => cancel[r].result = "none"
    /\ cancel[r].at \in {"deciding", "pending", "fencing"} => Existed(r)
    /\ cancel[r].at = "deciding" /\ (cancel[r].seen = "terminal" \/ cancel[r].result = "proved") => Done(r)
    /\ cancel[r].at = "proved" => Done(r)

DisposeKnows ==
    /\ dispose.at \in {"pending", "fencing", "proved"} => dispose.of \in Requests /\ Existed(dispose.of)
    /\ dispose.at = "proved" => Done(dispose.of)

ActorsKnow == (\A r \in Requests : RunKnows(r) /\ CancelKnows(r)) /\ DisposeKnows

Inv == TypeOK /\ Records /\ ActorsKnow

-----------------------------------------------------------------------------
(* What one step of anybody does to the record and the task of q.          *)

Touched(q) ==
    /\ record[q].status # "none" /\ record'[q].status # "none"
    /\ record'[q].work = record[q].work /\ record'[q].instance = record[q].instance
    /\ record[q].response => record'[q].response

Made(q) == record[q].status = "none" /\ q \notin expired /\ record'[q].status # "none"

Dropped(q) == record[q].status = "terminal" /\ q \in expired /\ record'[q] = NoRecord

RecordStep(q) == record'[q] = record[q] \/ Touched(q) \/ Made(q) \/ Dropped(q)

BridgeStep(q) ==
    \/ instance' = instance /\ (task'[q] = task[q] \/ task[q] \in {"none", "running"})
    \/ instance' = instance + 1

(* What is known of a record lasts.                                        *)
Keeps(q) ==
    /\ Existed(q) => Existed(q)'
    /\ Done(q) => Done(q)'
    /\ Worked(q) => Worked(q)'
    /\ Answered(q) => Answered(q)'

Lasts == instance <= instance' /\ \A q \in Requests : Keeps(q)

LEMMA StepKeeps ==
    ASSUME TypeOK, NEW q \in Requests, RecordSound(q), RecordStep(q), BridgeStep(q), expired \subseteq expired'
    PROVE  Keeps(q)
<1>1. NoRecord.status = "none" /\ NoRecord.instance = 0
  BY DEF NoRecord
<1>2. record[q].instance \in Nat /\ instance \in Nat \ {0} /\ record[q].instance <= instance
  BY InteractiveAssumption DEF TypeOK, RecordSound
<1>3. Existed(q) => Existed(q)'
  BY DEF RecordStep, Touched, Made, Dropped, Existed
<1>4. Worked(q) => Worked(q)'
  BY <1>1, <1>3 DEF RecordStep, Touched, Made, Dropped, Existed, Worked
<1>5. Answered(q) => Answered(q)'
  BY <1>1, <1>3 DEF RecordStep, Touched, Made, Dropped, Existed, Answered
<1>6. Done(q) => Done(q)'
  <2> SUFFICES ASSUME Done(q), record'[q].instance = instance' PROVE task'[q] \in {"fenced", "ended"}
    BY <1>3 DEF Done
  <2>1. record'[q].instance = record[q].instance
    BY <1>1, <1>2 DEF Done, RecordStep, Touched, Made, Dropped, Existed, BridgeStep
  <2> QED BY <1>2, <2>1 DEF Done, BridgeStep
<1> QED BY <1>3, <1>4, <1>5, <1>6 DEF Keeps

(* A step that claims no proof, starts no task and sends no answer without *)
(* what it takes keeps the records sound.                                  *)
LEMMA StepSound ==
    ASSUME TypeOK, Records, expired \subseteq expired', instance <= instance',
           \A q \in Requests :
              /\ RecordStep(q) /\ BridgeStep(q)
              /\ record'[q].instance <= instance'
              /\ record'[q].status = "terminal" =>
                    record[q].status = "terminal" \/ Done(q)
              /\ record'[q].result = "proved" => record[q].result = "proved" \/ Done(q)
              /\ task'[q] = "running" => task[q] = "running" \/ Worked(q)
              /\ q \in sent' => q \in sent \/ Answered(q)
              /\ record'[q].work =>
                    record[q].work \/ \A p \in Requests \ {q} : record'[p].work => Done(p)
    PROVE  Records' /\ Lasts
<1>1. \A q \in Requests : RecordSound(q) /\ Keeps(q)
  BY StepKeeps DEF Records
<1>2. ASSUME NEW q \in Requests PROVE RecordSound(q)'
  <2>1. record'[q].status = "none" => record'[q] = NoRecord
    BY <1>1 DEF RecordStep, Touched, Made, Dropped, RecordSound
  <2>2. record'[q].status = "terminal" \/ record'[q].result = "proved" => Done(q)
    BY <1>1 DEF RecordSound
  <2>3. task'[q] = "running" => Worked(q)
    BY <1>1 DEF RecordSound
  <2>4. q \in sent' => Answered(q)
    BY <1>1 DEF RecordSound
  <2> QED BY <1>1, <2>1, <2>2, <2>3, <2>4 DEF RecordSound, Keeps
<1>3. OneOpen'
  <2> SUFFICES ASSUME NEW r \in Requests, NEW q \in Requests, r # q, record'[r].work, record'[q].work
               PROVE  Done(r)' \/ Done(q)'
    BY DEF OneOpen
  <2>1. CASE record[r].work /\ record[q].work
    BY <1>1, <2>1 DEF Records, OneOpen, Keeps
  <2>2. CASE ~record[r].work \/ ~record[q].work
    BY <1>1, <2>2 DEF Keeps
  <2> QED BY <2>1, <2>2
<1> QED BY <1>1, <1>2, <1>3 DEF Records, Lasts

(* A step that writes no record and starts no task.                        *)
LEMMA StillSound ==
    ASSUME TypeOK, Records, record' = record, instance' = instance, expired' = expired,
           \A q \in Requests : task'[q] = task[q] \/ (task'[q] # "running" /\ task[q] \in {"none", "running"}),
           \A q \in Requests : q \in sent' => q \in sent \/ Answered(q)
    PROVE  Records' /\ Lasts
<1>1. \A q \in Requests : record[q].instance <= instance
  BY DEF Records, RecordSound
<1>2. instance \in Nat
  BY InteractiveAssumption DEF TypeOK
<1>3. \A q \in Requests : RecordStep(q) /\ BridgeStep(q)
  BY DEF RecordStep, BridgeStep
<1> QED BY <1>1, <1>2, <1>3, StepSound

(* A step that updates the record of r, with a proof where it claims one.  *)
LEMMA UpdateSound ==
    ASSUME TypeOK, Records, NEW r \in Requests, Touched(r), instance' = instance, expired' = expired, sent' = sent,
           \A q \in Requests \ {r} : record'[q] = record[q],
           \A q \in Requests : task'[q] = task[q] \/ (task'[q] # "running" /\ task[q] \in {"none", "running"}),
           record'[r].status = "terminal" => Done(r),
           record'[r].result = "proved" => record[r].result = "proved" \/ Done(r)
    PROVE  Records' /\ Lasts
<1>1. \A q \in Requests : record[q].instance <= instance
  BY DEF Records, RecordSound
<1>2. instance \in Nat
  BY InteractiveAssumption DEF TypeOK
<1>3. \A q \in Requests : RecordStep(q) /\ BridgeStep(q)
  BY DEF RecordStep, BridgeStep
<1>4. \A q \in Requests : record'[q].instance = record[q].instance /\ record'[q].work = record[q].work
  BY DEF Touched
<1> QED BY <1>1, <1>2, <1>3, <1>4, StepSound

(* reserveInteractive makes the record of r when no other work is open.    *)
LEMMA ReserveSound ==
    ASSUME TypeOK, Records, NEW r \in Requests, NEW status \in {"reserved", "cancel_pending"},
           NEW at \in Nat, at <= instance, ~Retained(r), ~Refuses(r, status), Reserved(r, status, at),
           UNCHANGED <<bridge, expired, sent>>
    PROVE  Records' /\ Lasts /\ record'[r].status = status /\ Existed(r)'
<1>1. \A q \in Requests : record[q].instance <= instance
  BY DEF Records, RecordSound
<1>2. instance \in Nat /\ UNCHANGED <<instance, task>>
  BY InteractiveAssumption DEF TypeOK, bridge
<1>3. /\ record'[r].status = status /\ record'[r].work = (status = "reserved")
      /\ record'[r].instance = at /\ record'[r].result = "none"
  BY DEF Reserved, NoRecord
<1>4. \A q \in Requests \ {r} : record'[q] = IF Retained(q) THEN record[q] ELSE NoRecord
  BY DEF Reserved
<1>5. record[r].status = "none" /\ r \notin expired
  BY DEF Retained, Refuses
<1>6. \A q \in Requests \ {r} : ~Retained(q) => record'[q] = record[q] \/ Dropped(q)
  BY <1>4 DEF Retained, Dropped, Records, RecordSound
<1>7. \A q \in Requests : RecordStep(q) /\ BridgeStep(q)
  BY <1>2, <1>3, <1>4, <1>5, <1>6 DEF RecordStep, BridgeStep, Made
<1>8. NoRecord.work = FALSE /\ NoRecord.status = "none" /\ NoRecord.result = "none" /\ NoRecord.instance = 0
  BY DEF NoRecord
<1>9. \A q \in Requests \ {r} : record'[q].work => record[q].work
  BY <1>4, <1>8
<1>10. record'[r].work => \A p \in Requests \ {r} : record'[p].work => Done(p)
  <2> SUFFICES ASSUME record'[r].work, NEW p \in Requests \ {r}, record'[p].work PROVE Done(p)
    OBVIOUS
  <2>1. status = "reserved" /\ Retained(p)
    BY <1>3, <1>4, <1>8
  <2>2. record[p].status = "terminal"
    BY <2>1 DEF Refuses
  <2> QED BY <2>2 DEF Records, RecordSound
<1>11. \A q \in Requests : record'[q].instance <= instance
  BY <1>1, <1>2, <1>3, <1>4, <1>8
<1>12. \A q \in Requests : /\ record'[q].status = "terminal" => record[q].status = "terminal"
                           /\ record'[q].result = "proved" => record[q].result = "proved"
  BY <1>3, <1>4, <1>8
<1>13. Records' /\ Lasts
  BY <1>2, <1>7, <1>9, <1>10, <1>11, <1>12, StepSound
<1> QED BY <1>3, <1>13 DEF Existed

-----------------------------------------------------------------------------
(* The actors that do not move keep what they know.                        *)

LEMMA RunLasts ==
    ASSUME TypeOK, TypeOK', NEW r \in Requests, RunKnows(r), run'[r] = run[r], Lasts
    PROVE  RunKnows(r)'
<1>1. run[r].instance \in Nat /\ instance \in Nat /\ instance' \in Nat
  BY InteractiveAssumption DEF TypeOK
<1> QED BY <1>1 DEF RunKnows, Lasts, Keeps

LEMMA CancelLasts ==
    ASSUME TypeOK, TypeOK', NEW r \in Requests, CancelKnows(r), cancel'[r] = cancel[r], Lasts
    PROVE  CancelKnows(r)'
<1>1. cancel[r].instance \in Nat /\ instance \in Nat /\ instance' \in Nat
  BY InteractiveAssumption DEF TypeOK
<1> QED BY <1>1 DEF CancelKnows, Lasts, Keeps

LEMMA DisposeLasts ==
    ASSUME TypeOK, DisposeKnows, dispose' = dispose, Lasts
    PROVE  DisposeKnows'
  BY DEF DisposeKnows, Lasts, Keeps

(* One run moves.                                                          *)
LEMMA RunMoves ==
    ASSUME Inv, TypeOK', Records', Lasts, NEW r \in Requests, \A q \in Requests \ {r} : run'[q] = run[q],
           UNCHANGED <<cancel, dispose>>, RunKnows(r)'
    PROVE  Inv'
  BY RunLasts, CancelLasts, DisposeLasts DEF Inv, ActorsKnow

(* One cancel moves.                                                       *)
LEMMA CancelMoves ==
    ASSUME Inv, TypeOK', Records', Lasts, NEW r \in Requests,
           \A q \in Requests \ {r} : cancel'[q] = cancel[q], UNCHANGED <<run, dispose>>, CancelKnows(r)'
    PROVE  Inv'
  BY RunLasts, CancelLasts, DisposeLasts DEF Inv, ActorsKnow

(* The disposal moves.                                                     *)
LEMMA DisposeMoves ==
    ASSUME Inv, TypeOK', Records', Lasts, UNCHANGED <<run, cancel>>, DisposeKnows'
    PROVE  Inv'
  BY RunLasts, CancelLasts DEF Inv, ActorsKnow

-----------------------------------------------------------------------------
(* The types of the parts, and what each way of changing one yields.       *)

RecordObjects ==
    [status : Statuses, work : BOOLEAN, instance : 0..MaxInstance,
     result : {"none", "proved", "failed"}, response : BOOLEAN]

RunStages == {"idle", "looked", "healthy", "holding", "caught"} \cup Reserving

RunObjects == [at : RunStages, seen : Statuses, known : BOOLEAN, instance : 0..MaxInstance]

CancelObjects ==
    [at : {"idle", "looked", "healthy", "deciding", "pending", "fencing", "proved"},
     seen : Statuses, result : {"none", "proved", "failed"}, instance : 0..MaxInstance]

DisposeObjects ==
    [at : {"idle", "next", "pending", "fencing", "proved", "returned"},
     left : SUBSET Requests, of : Requests \cup {0}]

TaskStates == {"none", "fenced", "running", "ended", "unstopped"}

LEMMA StagesAre ==
    RunStages = {"idle", "looked", "healthy", "holding", "latest", "fencing", "proved",
                 "starting", "retrying", "marking", "consuming", "ending",
                 "unstopped", "answering", "caught"}
  BY DEF RunStages, Reserving

LEMMA TypeParts ==
    TypeOK <=>
        /\ record \in [Requests -> RecordObjects] /\ head \in Requests \cup {0}
        /\ run \in [Requests -> RunObjects] /\ cancel \in [Requests -> CancelObjects]
        /\ dispose \in DisposeObjects /\ disposed \in BOOLEAN
        /\ instance \in 1..MaxInstance /\ task \in [Requests -> TaskStates]
        /\ expired \subseteq Requests /\ sent \subseteq Requests /\ declined \subseteq Requests
  BY StagesAre DEF TypeOK, RecordObjects, RunObjects, CancelObjects, DisposeObjects, TaskStates

LEMMA TypePartsNext ==
    TypeOK' <=>
        /\ record' \in [Requests -> RecordObjects] /\ head' \in Requests \cup {0}
        /\ run' \in [Requests -> RunObjects] /\ cancel' \in [Requests -> CancelObjects]
        /\ dispose' \in DisposeObjects /\ disposed' \in BOOLEAN
        /\ instance' \in 1..MaxInstance /\ task' \in [Requests -> TaskStates]
        /\ expired' \subseteq Requests /\ sent' \subseteq Requests /\ declined' \subseteq Requests
  BY StagesAre DEF TypeOK, RecordObjects, RunObjects, CancelObjects, DisposeObjects, TaskStates

(* updateInteractive with a status, a status and a result, or a response.  *)
Wrote(r, status, result) ==
    /\ record' \in [Requests -> RecordObjects]
    /\ Touched(r)
    /\ \A q \in Requests \ {r} : record'[q] = record[q]
    /\ record'[r].status = status /\ record'[r].result = result

LEMMA WriteStatus ==
    ASSUME record \in [Requests -> RecordObjects], NEW r \in Requests, NEW s \in Statuses \ {"none"},
           record[r].status # "none", record' = [record EXCEPT ![r].status = s]
    PROVE  Wrote(r, s, record[r].result)
  BY DEF Wrote, Touched, RecordObjects

LEMMA WriteResult ==
    ASSUME record \in [Requests -> RecordObjects], NEW r \in Requests, NEW s \in Statuses \ {"none"},
           NEW x \in {"proved", "failed"}, record[r].status # "none",
           record' = [record EXCEPT ![r].status = s, ![r].result = x]
    PROVE  Wrote(r, s, x)
<1>1. record' = [record EXCEPT ![r] = [record[r] EXCEPT !.status = s, !.result = x]]
  OBVIOUS
<1>2. [record[r] EXCEPT !.status = s, !.result = x] \in RecordObjects
  BY DEF RecordObjects
<1>3. record'[r] = [record[r] EXCEPT !.status = s, !.result = x] /\ record[r] \in RecordObjects
  BY <1>1
<1>4. record' \in [Requests -> RecordObjects] /\ \A q \in Requests \ {r} : record'[q] = record[q]
  BY <1>1, <1>2
<1> QED BY <1>3, <1>4 DEF Wrote, Touched, RecordObjects

LEMMA WriteResponse ==
    ASSUME record \in [Requests -> RecordObjects], NEW r \in Requests, record[r].status # "none",
           record' = [record EXCEPT ![r].status = "terminal", ![r].response = TRUE]
    PROVE  Wrote(r, "terminal", record[r].result) /\ record'[r].response
<1>1. record' = [record EXCEPT ![r] = [record[r] EXCEPT !.status = "terminal", !.response = TRUE]]
  OBVIOUS
<1>2. [record[r] EXCEPT !.status = "terminal", !.response = TRUE] \in RecordObjects
  BY DEF RecordObjects, Statuses
<1>3. record'[r] = [record[r] EXCEPT !.status = "terminal", !.response = TRUE] /\ record[r] \in RecordObjects
  BY <1>1
<1>4. record' \in [Requests -> RecordObjects] /\ \A q \in Requests \ {r} : record'[q] = record[q]
  BY <1>1, <1>2
<1> QED BY <1>3, <1>4 DEF Wrote, Touched, RecordObjects

LEMMA ReservedType ==
    ASSUME TypeOK, NEW r \in Requests, NEW status \in Statuses, NEW at \in 0..MaxInstance,
           Reserved(r, status, at)
    PROVE  record' \in [Requests -> RecordObjects] /\ head' \in Requests \cup {0}
<1>1. [NoRecord EXCEPT !.status = status, !.work = (status = "reserved"), !.instance = at] \in RecordObjects
  BY InteractiveAssumption DEF RecordObjects, NoRecord
<1>2. NoRecord \in RecordObjects
  BY InteractiveAssumption DEF RecordObjects, NoRecord, Statuses
<1> QED BY <1>1, <1>2, TypeParts DEF Reserved

(* How a run moves.                                                        *)
Moved(r, stages) ==
    /\ run' \in [Requests -> RunObjects]
    /\ \A q \in Requests \ {r} : run'[q] = run[q]
    /\ run'[r].at \in stages
    /\ run'[r].instance \in {0, run[r].instance}

LEMMA ReturnsMoves ==
    ASSUME TypeOK, NEW r \in Requests, RunReturns(r)
    PROVE  Moved(r, {"idle"})
<1>1. IdleRun \in RunObjects /\ IdleRun.at = "idle" /\ IdleRun.instance = 0
  BY InteractiveAssumption DEF IdleRun, RunObjects, RunStages, Statuses
<1> QED BY <1>1, TypeParts DEF RunReturns, Moved

LEMMA ThrowMoves ==
    ASSUME TypeOK, NEW r \in Requests, Throw(r)
    PROVE  Moved(r, {"idle", "caught"})
<1>1. IdleRun \in RunObjects /\ IdleRun.at = "idle" /\ IdleRun.instance = 0
  BY InteractiveAssumption DEF IdleRun, RunObjects, RunStages, Statuses
<1> DEFINE x == [IdleRun EXCEPT !.at = "caught", !.seen = record[r].status, !.known = TRUE]
<1>2. record[r].status \in Statuses
  BY DEF TypeOK
<1>3. x \in RunObjects /\ x.at = "caught" /\ x.instance = 0
  <2>1. "caught" \in RunStages
    BY DEF RunStages
  <2> QED BY <1>1, <1>2, <2>1 DEF RunObjects
<1> HIDE DEF x
<1>4. run'= [run EXCEPT ![r] = IF run[r].known THEN x ELSE IdleRun]
  BY DEF Throw, x
<1> QED BY <1>1, <1>3, <1>4, TypeParts DEF Moved

LEMMA AtMoves ==
    ASSUME TypeOK, NEW r \in Requests, NEW stage \in RunStages, At(r, stage)
    PROVE  Moved(r, {stage})
<1> DEFINE x == [IdleRun EXCEPT !.at = stage, !.known = run[r].known]
<1>0. IdleRun \in RunObjects /\ IdleRun.instance = 0
  BY InteractiveAssumption DEF IdleRun, RunObjects, RunStages, Statuses
<1>1. run[r].known \in BOOLEAN
  BY DEF TypeOK
<1>2. x \in RunObjects /\ x.at = stage /\ x.instance = 0
  BY <1>0, <1>1 DEF RunObjects
<1> HIDE DEF x
<1>3. run'= [run EXCEPT ![r] = x]
  BY DEF At, x
<1> QED BY <1>2, <1>3, TypeParts DEF Moved

LEMMA FieldsMove ==
    ASSUME TypeOK, NEW r \in Requests, NEW stage \in RunStages, NEW s \in Statuses,
           \/ run' = [run EXCEPT ![r].at = stage, ![r].seen = s]
           \/ run' = [run EXCEPT ![r].at = stage, ![r].seen = s, ![r].known = TRUE]
           \/ run' = [run EXCEPT ![r].at = stage, ![r].seen = s, ![r].instance = 0]
    PROVE  Moved(r, {stage})
<1>0. run \in [Requests -> RunObjects] /\ run[r] \in RunObjects
  BY TypeParts
<1>1. PICK x \in RunObjects : x.at = stage /\ x.instance \in {0, run[r].instance} /\ run' = [run EXCEPT ![r] = x]
  <2>1. CASE run' = [run EXCEPT ![r].at = stage, ![r].seen = s]
    <3>1. [run[r] EXCEPT !.at = stage, !.seen = s] \in RunObjects
      BY <1>0 DEF RunObjects
    <3> QED BY <1>0, <2>1, <3>1 DEF RunObjects
  <2>2. CASE run' = [run EXCEPT ![r].at = stage, ![r].seen = s, ![r].known = TRUE]
    <3>1. [run[r] EXCEPT !.at = stage, !.seen = s, !.known = TRUE] \in RunObjects
      <4> DEFINE y == [run[r] EXCEPT !.at = stage, !.seen = s]
      <4>1. y \in RunObjects
        BY <1>0 DEF RunObjects
      <4>2. [y EXCEPT !.known = TRUE] \in RunObjects
        <5> HIDE DEF y
        <5> QED BY <4>1 DEF RunObjects
      <4> QED BY <4>2
    <3> QED BY <1>0, <2>2, <3>1 DEF RunObjects
  <2>3. CASE run' = [run EXCEPT ![r].at = stage, ![r].seen = s, ![r].instance = 0]
    <3>1. [run[r] EXCEPT !.at = stage, !.seen = s, !.instance = 0] \in RunObjects
      <4> DEFINE y == [run[r] EXCEPT !.at = stage, !.seen = s]
      <4>1. y \in RunObjects
        BY <1>0 DEF RunObjects
      <4>2. 0 \in 0..MaxInstance
        BY InteractiveAssumption
      <4>3. [y EXCEPT !.instance = 0] \in RunObjects
        <5> HIDE DEF y
        <5> QED BY <4>1, <4>2 DEF RunObjects
      <4> QED BY <4>3
    <3> QED BY <1>0, <2>3, <3>1 DEF RunObjects
  <2> QED BY <2>1, <2>2, <2>3
<1> QED BY <1>0, <1>1 DEF Moved

-----------------------------------------------------------------------------
(* #run.                                                                   *)

(* What a run must know where it goes.                                     *)
Entitled(r) ==
    /\ run'[r].at \in Reserving => Worked(r)
    /\ run'[r].at \in {"proved", "ending"} => Done(r)'
    /\ run'[r].at = "answering" => Answered(r)'

LEMMA RunAdvances ==
    ASSUME Inv, TypeOK', Records', Lasts, NEW r \in Requests, NEW stages, Moved(r, stages), Entitled(r),
           UNCHANGED <<cancel, dispose>>
    PROVE  Inv'
<1>1. run[r].instance \in Nat /\ run[r].instance <= instance /\ instance \in Nat /\ instance' \in Nat
  BY InteractiveAssumption DEF Inv, TypeOK, ActorsKnow, RunKnows
<1>2. run'[r].instance <= instance'
  BY <1>1 DEF Moved, Lasts
<1>3. RunKnows(r)'
  BY <1>2 DEF RunKnows, Entitled, Lasts, Keeps
<1> QED BY <1>3, RunMoves DEF Moved

(* A run that moves and writes nothing.                                    *)
LEMMA StillRun ==
    ASSUME Inv, NEW r \in Requests, NEW stages, Moved(r, stages), Entitled(r),
           UNCHANGED <<durable, RunOnly>>, sent' \subseteq Requests,
           \A q \in sent' : q \in sent \/ Answered(q)
    PROVE  Inv'
<1>1. TypeOK'
  BY TypeParts, TypePartsNext DEF Inv, Moved, durable, RunOnly, bridge
<1>2. Records' /\ Lasts
  <2>1. record' = record /\ instance' = instance /\ expired' = expired /\ task' = task
    BY DEF durable, RunOnly, bridge
  <2>2. \A q \in Requests : q \in sent' => q \in sent \/ Answered(q)
    OBVIOUS
  <2>3. \A q \in Requests : task'[q] = task[q] \/ (task'[q] # "running" /\ task[q] \in {"none", "running"})
    BY <2>1
  <2> QED BY <2>1, <2>2, <2>3, StillSound DEF Inv
<1> QED BY <1>1, <1>2, RunAdvances DEF RunOnly

(* A run that moves and updates its record.                                *)
LEMMA UpdateRun ==
    ASSUME Inv, NEW r \in Requests, NEW stages, Moved(r, stages), Entitled(r),
           NEW s, NEW x, Wrote(r, s, x), UNCHANGED <<head, sent, RunOnly>>,
           s = "terminal" => Done(r), x = "proved" => x = record[r].result \/ Done(r)
    PROVE  Inv'
<1>1. TypeOK'
  BY TypeParts, TypePartsNext DEF Inv, Moved, Wrote, RunOnly, bridge
<1>2. Records' /\ Lasts
  <2>1. sent' = sent /\ instance' = instance /\ expired' = expired /\ task' = task
    BY DEF RunOnly, bridge
  <2>2. /\ Touched(r) /\ \A q \in Requests \ {r} : record'[q] = record[q]
        /\ record'[r].status = "terminal" => Done(r)
        /\ record'[r].result = "proved" => record[r].result = "proved" \/ Done(r)
    BY DEF Wrote
  <2>3. \A q \in Requests : task'[q] = task[q] \/ (task'[q] # "running" /\ task[q] \in {"none", "running"})
    BY <2>1
  <2> QED BY <2>1, <2>2, <2>3, UpdateSound DEF Inv
<1> QED BY <1>1, <1>2, RunAdvances DEF RunOnly

LEMMA RestEntitled ==
    ASSUME NEW r, NEW stages \in SUBSET {"idle", "caught", "holding"}, Moved(r, stages)
    PROVE  Entitled(r)
  BY DEF Moved, Entitled, Reserving

LEMMA Returning ==
    ASSUME Inv, NEW r \in Requests, RunReturns(r) \/ Throw(r), UNCHANGED <<durable, sent, RunOnly>>
    PROVE  Inv'
<1>1. Moved(r, {"idle"}) \/ Moved(r, {"idle", "caught"})
  BY ReturnsMoves, ThrowMoves DEF Inv
<1>2. Entitled(r)
  BY <1>1, RestEntitled
<1>3. sent' \subseteq Requests /\ \A q \in sent' : q \in sent
  BY DEF Inv, TypeOK
<1> QED BY <1>1, <1>2, <1>3, StillRun

LEMMA HandleWorkInv ==
    ASSUME Inv, NEW r \in Requests, HandleWork(r)
    PROVE  Inv'
<1> DEFINE x == [IdleRun EXCEPT !.at = "looked", !.seen = record[r].status, !.known = record[r].status # "none"]
<1>1. IdleRun \in RunObjects /\ IdleRun.instance = 0
  BY InteractiveAssumption DEF IdleRun, RunObjects, RunStages, Statuses
<1>2. record[r].status \in Statuses /\ "looked" \in RunStages
  BY DEF Inv, TypeOK, RunStages
<1>3. x \in RunObjects /\ x.at = "looked" /\ x.instance = 0
  BY <1>1, <1>2 DEF RunObjects
<1> HIDE DEF x
<1>4. run' = [run EXCEPT ![r] = x] /\ UNCHANGED <<durable, sent, RunOnly>>
  BY DEF HandleWork, x
<1>5. Moved(r, {"looked"}) /\ Entitled(r) /\ sent' \subseteq Requests
  BY <1>3, <1>4, TypeParts DEF Inv, Moved, Entitled, Reserving
<1> QED BY <1>4, <1>5, StillRun

LEMMA RunOverInv ==
    ASSUME Inv, NEW r \in Requests, RunOver(r)
    PROVE  Inv'
<1>1. /\ Moved(r, {"idle"}) \/ Moved(r, {"idle", "caught"})
      /\ UNCHANGED <<durable, RunOnly>>
  BY ReturnsMoves, ThrowMoves DEF Inv, RunOver, Send
<1>2. record[r].work => record[r].status # "none"
  BY DEF Inv, Records, RecordSound, NoRecord
<1>3. \A q \in sent' : q \in sent \/ (q = r /\ record[r].work /\ record[r].response)
  BY DEF RunOver, Send
<1>4. sent' \subseteq Requests /\ \A q \in sent' : q \in sent \/ Answered(q)
  BY <1>2, <1>3 DEF Inv, TypeOK, Answered, Existed
<1>5. Entitled(r)
  BY <1>1, RestEntitled
<1> QED BY <1>1, <1>4, <1>5, StillRun

LEMMA RunHealthInv ==
    ASSUME Inv, NEW r \in Requests, RunHealth(r)
    PROVE  Inv'
<1>0. run \in [Requests -> RunObjects] /\ run[r] \in RunObjects /\ instance \in 1..MaxInstance
  BY TypeParts DEF Inv
<1> DEFINE y == [run[r] EXCEPT !.at = "healthy", !.seen = "none"]
           x == [y EXCEPT !.instance = instance]
<1>1. y \in RunObjects /\ y.at = "healthy"
  <2>1. "healthy" \in RunStages /\ "none" \in Statuses
    BY DEF RunStages, Statuses
  <2> QED BY <1>0, <2>1 DEF RunObjects
<1>2. instance \in 0..MaxInstance
  BY <1>0, InteractiveAssumption
<1>3. x \in RunObjects /\ x.at = "healthy" /\ x.instance = instance
  <2> HIDE DEF y
  <2> QED BY <1>1, <1>2 DEF RunObjects
<1>4. run' = [run EXCEPT ![r] = x] /\ UNCHANGED <<durable, sent, RunOnly>>
  BY <1>0 DEF RunHealth
<1> HIDE DEF x
<1>5. run' \in [Requests -> RunObjects] /\ run'[r] = x /\ \A q \in Requests \ {r} : run'[q] = run[q]
  BY <1>0, <1>3, <1>4
<1>6. TypeOK'
  BY <1>4, <1>5, TypeParts, TypePartsNext DEF Inv, durable, RunOnly, bridge
<1>7. Records' /\ Lasts
  <2>1. record' = record /\ instance' = instance /\ expired' = expired /\ task' = task /\ sent' = sent
    BY <1>4 DEF durable, RunOnly, bridge
  <2>3. \A q \in Requests : task'[q] = task[q] \/ (task'[q] # "running" /\ task[q] \in {"none", "running"})
    BY <2>1
  <2>4. \A q \in Requests : q \in sent' => q \in sent \/ Answered(q)
    BY <2>1
  <2> QED BY <2>1, <2>3, <2>4, StillSound DEF Inv
<1>8. RunKnows(r)'
  BY <1>0, <1>3, <1>4, <1>5, <1>2, InteractiveAssumption DEF RunKnows, Reserving, RunOnly, bridge
<1> QED BY <1>4, <1>5, <1>6, <1>7, <1>8, RunMoves DEF RunOnly

(* A run that writes a status which claims nothing, and returns.           *)
LEMMA WritesAndReturns ==
    ASSUME Inv, NEW r \in Requests, NEW s \in {"unconfirmed", "running"}, record[r].status # "none",
           record' = [record EXCEPT ![r].status = s], RunReturns(r), UNCHANGED <<head, sent, RunOnly>>
    PROVE  Inv'
<1>1. Wrote(r, s, record[r].result)
  BY WriteStatus, TypeParts DEF Inv, Statuses
<1>2. Moved(r, {"idle"})
  BY ReturnsMoves DEF Inv
<1>3. Entitled(r)
  BY <1>2, RestEntitled
<1> QED BY <1>1, <1>2, <1>3, UpdateRun

LEMMA RunUnavailableInv ==
    ASSUME Inv, NEW r \in Requests, NEW ok \in BOOLEAN, RunUnavailable(r, ok)
    PROVE  Inv'
<1>0. UNCHANGED <<cancel, dispose>> /\ sent' = sent
  BY DEF RunUnavailable
<1>1. CASE run[r].known /\ ok
  <2>1. UNCHANGED <<head, sent, RunOnly>>
    BY <1>1 DEF RunUnavailable, Update, RunOnly
  <2> QED BY <1>1, <2>1, WritesAndReturns DEF RunUnavailable, Update, CanWrite
<1>2. CASE run[r].known /\ ~ok
  <2>1. UNCHANGED <<durable, sent, RunOnly>>
    BY <1>2 DEF RunUnavailable, Update, RunOnly, durable
  <2> QED BY <1>2, <2>1, Returning DEF RunUnavailable
<1>3. CASE ~run[r].known
  <2>1. /\ record' = record /\ head' = head /\ instance' = instance /\ task' = task
        /\ expired' = expired /\ disposed' = disposed
    BY <1>3 DEF RunUnavailable, durable, bridge
  <2>2. declined' \subseteq Requests
    BY <1>3 DEF RunUnavailable, Inv, TypeOK
  <2>3. Moved(r, {"idle"})
    BY <1>3, ReturnsMoves DEF RunUnavailable, Inv
  <2>4. TypeOK'
    BY <1>0, <2>1, <2>2, <2>3, TypeParts, TypePartsNext DEF Inv, Moved
  <2>5. Records' /\ Lasts
    BY <1>0, <2>1, StillSound DEF Inv
  <2>6. Entitled(r)
    BY <2>3, RestEntitled
  <2> QED BY <1>0, <2>3, <2>4, <2>5, <2>6, RunAdvances
<1> QED BY <1>1, <1>2, <1>3

LEMMA RunReserveInv ==
    ASSUME Inv, NEW r \in Requests, NEW ok \in BOOLEAN, RunReserve(r, ok)
    PROVE  Inv'
<1>1. CASE Retained(r)
  <2>1. record[r].status \in Statuses /\ "holding" \in RunStages
    BY DEF Inv, TypeOK, RunStages
  <2>2. Moved(r, {"holding"}) /\ UNCHANGED <<durable, sent, RunOnly>>
    BY <1>1, <2>1, FieldsMove DEF RunReserve, Inv
  <2>3. Entitled(r) /\ sent' \subseteq Requests
    BY <2>2, RestEntitled DEF Inv, TypeOK
  <2> QED BY <2>2, <2>3, StillRun
<1>2. CASE ~Retained(r) /\ (Refuses(r, "reserved") \/ ~ok)
  BY <1>2, Returning DEF RunReserve
<1>3. CASE ~Retained(r) /\ ~Refuses(r, "reserved") /\ ok
  <2>1. /\ Reserved(r, "reserved", run[r].instance) /\ UNCHANGED <<sent, RunOnly>>
        /\ run' = [run EXCEPT ![r].at = "holding", ![r].seen = "reserved", ![r].known = TRUE]
    BY <1>3 DEF RunReserve
  <2>2. run[r].instance \in 0..MaxInstance /\ run[r].instance <= instance
    BY DEF Inv, TypeOK, ActorsKnow, RunKnows
  <2>3. "reserved" \in Statuses /\ "holding" \in RunStages
    BY DEF Statuses, RunStages
  <2>4. Moved(r, {"holding"})
    BY <2>1, <2>3, FieldsMove DEF Inv
  <2>5. TypeOK'
    BY <2>1, <2>2, <2>3, <2>4, ReservedType, TypeParts, TypePartsNext DEF Inv, Moved, RunOnly, bridge
  <2>6. Records' /\ Lasts
    BY <1>3, <2>1, <2>2, ReserveSound, InteractiveAssumption DEF Inv, RunOnly
  <2>7. Entitled(r)
    BY <2>4, RestEntitled
  <2> QED BY <2>1, <2>4, <2>5, <2>6, <2>7, RunAdvances DEF RunOnly
<1> QED BY <1>1, <1>2, <1>3

LEMMA RunHoldingInv ==
    ASSUME Inv, NEW r \in Requests, NEW ok \in BOOLEAN, RunHolding(r, ok)
    PROVE  Inv'
<1>1. CASE record[r].instance # run[r].instance /\ ok
  BY <1>1, WritesAndReturns DEF RunHolding, Update, CanWrite
<1>2. CASE record[r].instance # run[r].instance /\ ~ok
  BY <1>2, Returning DEF RunHolding, Update, durable
<1>3. CASE record[r].instance = run[r].instance
  <2>1. record[r].status \in Statuses /\ "latest" \in RunStages
    BY DEF Inv, TypeOK, RunStages, Reserving
  <2>2. Moved(r, {"latest"}) /\ UNCHANGED <<durable, sent, RunOnly>>
    BY <1>3, <2>1, FieldsMove DEF RunHolding, Inv
  <2>3. record[r].work /\ Worked(r)
    BY DEF RunHolding, Over, Inv, Records, RecordSound, NoRecord, Worked, Existed
  <2>4. Entitled(r) /\ sent' \subseteq Requests
    BY <2>2, <2>3 DEF Inv, TypeOK, Moved, Entitled
  <2> QED BY <2>2, <2>4, StillRun
<1> QED BY <1>1, <1>2, <1>3

(* A run whose record is its own work goes on.                             *)
LEMMA WorkedMoves ==
    ASSUME Inv, NEW r \in Requests, run[r].at \in Reserving, UNCHANGED <<durable, sent, RunOnly>>,
           NEW stage \in {"fencing", "starting", "retrying", "consuming", "marking", "unstopped"},
           Moved(r, {stage})
    PROVE  Inv'
<1>1. Worked(r)
  BY DEF Inv, ActorsKnow, RunKnows
<1>2. Entitled(r) /\ sent' \subseteq Requests
  BY <1>1 DEF Moved, Entitled, Inv, TypeOK
<1> QED BY <1>2, StillRun

LEMMA RunLatestInv ==
    ASSUME Inv, NEW r \in Requests, RunLatest(r)
    PROVE  Inv'
<1>1. CASE RunReturns(r)
  BY <1>1, Returning DEF RunLatest
<1>2. ASSUME NEW stage \in {"fencing", "starting"}, At(r, stage) PROVE Inv'
  <2>1. Moved(r, {stage}) /\ run[r].at \in Reserving
    BY <1>2, AtMoves DEF Inv, RunLatest, RunStages, Reserving
  <2> QED BY <2>1, WorkedMoves DEF RunLatest
<1> QED BY <1>1, <1>2 DEF RunLatest

LEMMA RunProvedInv ==
    ASSUME Inv, NEW r \in Requests, NEW ok \in BOOLEAN, RunProved(r, ok)
    PROVE  Inv'
<1>1. CASE ok
  <2>1. record[r].status # "none" /\ RunReturns(r) /\ UNCHANGED <<head, sent, RunOnly>>
    BY <1>1 DEF RunProved, CanWrite, Update
  <2>2. Wrote(r, "terminal", "proved")
    BY <1>1, <2>1, WriteResult, TypeParts DEF RunProved, Update, Inv, Statuses
  <2>3. Done(r)
    BY DEF RunProved, Inv, ActorsKnow, RunKnows
  <2>4. Moved(r, {"idle"})
    BY <2>1, ReturnsMoves DEF Inv
  <2>5. Entitled(r)
    BY <2>4, RestEntitled
  <2> QED BY <2>1, <2>2, <2>3, <2>4, <2>5, UpdateRun
<1>2. CASE ~ok
  BY <1>2, Returning DEF RunProved, Update, durable
<1> QED BY <1>1, <1>2

(* startTask: the task of r may begin to run.                              *)
LEMMA StartAnsweredInv ==
    ASSUME Inv, NEW r \in Requests, StartAnswered(r)
    PROVE  Inv'
<1>1. Worked(r) /\ run[r].at \in Reserving
  BY DEF StartAnswered, Inv, ActorsKnow, RunKnows, Reserving
<1>2. /\ record' = record /\ head' = head /\ instance' = instance /\ expired' = expired /\ sent' = sent /\ declined' = declined
      /\ UNCHANGED <<cancel, dispose, disposed>>
  BY DEF StartAnswered, durable, answers
<1>3. \A q \in Requests : task'[q] = task[q] \/ (q = r /\ task[q] = "none")
  BY DEF StartAnswered, Inv, TypeOK
<1>4. task' \in [Requests -> TaskStates]
  BY TypeParts DEF StartAnswered, Inv, TaskStates
<1>5. \E stages \in SUBSET {"idle", "caught", "marking", "retrying"} : Moved(r, stages)
  <2>1. record[r].status \in Statuses /\ "marking" \in RunStages /\ "retrying" \in RunStages
    BY DEF Inv, TypeOK, RunStages, Reserving
  <2>2. CASE Throw(r)
    BY <2>2, ThrowMoves DEF Inv
  <2>3. CASE At(r, "retrying")
    BY <2>1, <2>3, AtMoves DEF Inv
  <2>4. CASE run' = [run EXCEPT ![r].at = "marking", ![r].seen = record[r].status]
    <3>1. Moved(r, {"marking"})
      BY <2>1, <2>4, FieldsMove DEF Inv
    <3> QED BY <3>1
  <2> QED BY <2>2, <2>3, <2>4 DEF StartAnswered
<1>6. PICK stages \in SUBSET {"idle", "caught", "marking", "retrying"} : Moved(r, stages)
  BY <1>5
<1>7. TypeOK'
  BY <1>2, <1>4, <1>6, TypeParts, TypePartsNext DEF Inv, Moved
<1>8. Records' /\ Lasts
  <2>1. instance \in Nat /\ \A q \in Requests : record[q].instance <= instance
    BY InteractiveAssumption DEF Inv, TypeOK, Records, RecordSound
  <2>2. \A q \in Requests : RecordStep(q) /\ BridgeStep(q)
    BY <1>2, <1>3 DEF RecordStep, BridgeStep
  <2> QED BY <1>1, <1>2, <1>3, <2>1, <2>2, StepSound DEF Inv
<1>9. Entitled(r)
  BY <1>1, <1>6 DEF Moved, Entitled
<1> QED BY <1>2, <1>6, <1>7, <1>8, <1>9, RunAdvances

LEMMA StartFailsInv ==
    ASSUME Inv, NEW r \in Requests, StartFails(r)
    PROVE  Inv'
<1>1. CASE Throw(r)
  BY <1>1, Returning DEF StartFails
<1>2. CASE At(r, "retrying")
  <2>1. Moved(r, {"retrying"}) /\ run[r].at \in Reserving
    BY <1>2, AtMoves DEF Inv, StartFails, RunStages, Reserving
  <2> QED BY <2>1, WorkedMoves DEF StartFails
<1> QED BY <1>1, <1>2 DEF StartFails

LEMMA RunMarksInv ==
    ASSUME Inv, NEW r \in Requests, NEW ok \in BOOLEAN, RunMarks(r, ok)
    PROVE  Inv'
<1>1. run[r].at \in Reserving /\ Worked(r) /\ "consuming" \in RunStages
  BY DEF RunMarks, Inv, ActorsKnow, RunKnows, Reserving, RunStages
<1>2. CASE run[r].seen = "reserved" /\ ok
  <2>1. record[r].status # "none" /\ UNCHANGED <<head, sent, RunOnly>>
    BY <1>2 DEF RunMarks, CanWrite, Update
  <2>2. Wrote(r, "running", record[r].result)
    BY <1>2, <2>1, WriteStatus, TypeParts DEF RunMarks, Update, Inv, Statuses
  <2>3. Moved(r, {"consuming"})
    BY <1>1, <1>2, AtMoves DEF RunMarks, Inv
  <2>4. Entitled(r)
    BY <1>1, <2>3 DEF Moved, Entitled
  <2> QED BY <2>1, <2>2, <2>3, <2>4, UpdateRun
<1>3. CASE run[r].seen = "reserved" /\ ~ok
  BY <1>3, Returning DEF RunMarks, Update, durable
<1>4. CASE run[r].seen # "reserved"
  <2>1. Moved(r, {"consuming"})
    BY <1>1, <1>4, AtMoves DEF RunMarks, Inv
  <2> QED BY <1>1, <1>4, <2>1, WorkedMoves DEF RunMarks
<1> QED BY <1>2, <1>3, <1>4

(* The terminal event proves the end of the task.                          *)
LEMMA RunEventInv ==
    ASSUME Inv, NEW r \in Requests, RunEvent(r)
    PROVE  Inv'
<1>1. run[r].at \in Reserving /\ Worked(r) /\ UNCHANGED <<durable, sent, RunOnly>>
  BY DEF RunEvent, Inv, ActorsKnow, RunKnows, Reserving
<1>2. record[r].status \in Statuses /\ "terminal" \in Statuses /\ {"ending", "unstopped"} \subseteq RunStages
  BY DEF Inv, TypeOK, RunStages, Reserving, Statuses
<1>3. CASE task[r] = "ended"
  <2>1. Moved(r, {"ending"})
    BY <1>2, <1>3, FieldsMove DEF RunEvent, Inv
  <2>2. Done(r)'
    BY <1>1, <1>3 DEF Worked, Done, Existed, durable, RunOnly, bridge
  <2>3. Entitled(r) /\ sent' \subseteq Requests
    BY <1>1, <2>1, <2>2 DEF Moved, Entitled, Inv, TypeOK
  <2> QED BY <1>1, <2>1, <2>3, StillRun
<1>4. CASE task[r] # "ended"
  <2>1. Moved(r, {"unstopped"})
    BY <1>2, <1>4, FieldsMove DEF RunEvent, Inv
  <2> QED BY <1>1, <2>1, WorkedMoves
<1> QED BY <1>3, <1>4

LEMMA RunEndsInv ==
    ASSUME Inv, NEW r \in Requests, NEW ok \in BOOLEAN, RunEnds(r, ok)
    PROVE  Inv'
<1>1. CASE run[r].seen \notin {"reserved", "running"} \/ ~ok
  BY <1>1, Returning DEF RunEnds, Update, durable
<1>2. CASE run[r].seen \in {"reserved", "running"} /\ ok
  <2>1. record[r].status # "none" /\ UNCHANGED <<head, sent, RunOnly>> /\ At(r, "answering")
    BY <1>2 DEF RunEnds, CanWrite, Update
  <2>2. Wrote(r, "terminal", record[r].result) /\ record'[r].response
    BY <1>2, <2>1, WriteResponse, TypeParts DEF RunEnds, Update, Inv
  <2>3. Done(r) /\ Worked(r)
    BY DEF RunEnds, Inv, ActorsKnow, RunKnows, Reserving
  <2>4. Moved(r, {"answering"})
    BY <2>1, AtMoves DEF Inv, RunStages, Reserving
  <2>5. Answered(r)'
    BY <2>2 DEF Wrote, Answered, Existed
  <2>6. Entitled(r)
    BY <2>3, <2>4, <2>5 DEF Moved, Entitled
  <2> QED BY <2>1, <2>2, <2>3, <2>4, <2>6, UpdateRun
<1> QED BY <1>1, <1>2

LEMMA RunUnstoppedInv ==
    ASSUME Inv, NEW r \in Requests, NEW ok \in BOOLEAN, RunUnstopped(r, ok) \/ RunCaught(r, ok)
    PROVE  Inv'
<1>1. CASE record' = [record EXCEPT ![r].status = "unconfirmed"] /\ record[r].status # "none" /\ RunReturns(r)
  BY <1>1, WritesAndReturns DEF RunUnstopped, RunCaught, Update, durable
<1>2. CASE record' = record
  BY <1>2, Returning DEF RunUnstopped, RunCaught, Update, durable
<1> QED BY <1>1, <1>2 DEF RunUnstopped, RunCaught, Update, CanWrite, durable

LEMMA RunAnswersInv ==
    ASSUME Inv, NEW r \in Requests, RunAnswers(r)
    PROVE  Inv'
<1>1. Answered(r)
  BY DEF RunAnswers, Inv, ActorsKnow, RunKnows
<1>2. /\ Moved(r, {"idle"}) \/ Moved(r, {"idle", "caught"})
      /\ UNCHANGED <<durable, RunOnly>>
  BY ReturnsMoves, ThrowMoves DEF Inv, RunAnswers, Send
<1>3. Entitled(r)
  BY <1>2, RestEntitled
<1>4. sent' \subseteq Requests /\ \A q \in sent' : q \in sent \/ Answered(q)
  BY <1>1 DEF RunAnswers, Send, Inv, TypeOK
<1> QED BY <1>2, <1>3, <1>4, StillRun

LEMMA RunThrowsInv ==
    ASSUME Inv, NEW r \in Requests, RunThrows(r) \/ RunStreamLost(r)
    PROVE  Inv'
  BY Returning DEF RunThrows, RunStreamLost

-----------------------------------------------------------------------------
(* fenceTask.                                                              *)

(* What a fence does to the tasks, with and without its proof.             *)
LEMMA FenceTasks ==
    ASSUME Inv, NEW r \in Requests, Proof(r) \/ FenceLost(r)
    PROVE  /\ task' \in [Requests -> TaskStates]
           /\ \A q \in Requests : task'[q] = task[q] \/ (task'[q] # "running" /\ task[q] \in {"none", "running"})
           /\ Proof(r) => task'[r] \in {"fenced", "ended"}
<1>1. task \in [Requests -> TaskStates]
  BY TypeParts DEF Inv
<1> QED BY <1>1 DEF Proof, FenceLost, TaskStates

LEMMA FenceSound ==
    ASSUME Inv, NEW r \in Requests, Proof(r) \/ FenceLost(r), record' = record, instance' = instance,
           expired' = expired, sent' = sent
    PROVE  Records' /\ Lasts /\ (Proof(r) /\ Existed(r) => Done(r)')
<1>1. Records' /\ Lasts
  BY FenceTasks, StillSound DEF Inv
<1>2. Proof(r) /\ Existed(r) => Done(r)'
  BY FenceTasks DEF Done, Existed
<1> QED BY <1>1, <1>2

LEMMA RunFencedInv ==
    ASSUME Inv, NEW r \in Requests, RunFenced(r) \/ RunFenceLost(r)
    PROVE  Inv'
<1>1. Worked(r)
  BY DEF RunFenced, RunFenceLost, Inv, ActorsKnow, RunKnows, Reserving
<1>2. /\ record' = record /\ head' = head /\ instance' = instance /\ expired' = expired /\ sent' = sent /\ declined' = declined
      /\ disposed' = disposed /\ UNCHANGED <<cancel, dispose>> /\ (Proof(r) \/ FenceLost(r))
  BY DEF RunFenced, RunFenceLost, FenceOnly, durable, answers
<1>3. Records' /\ Lasts /\ (Proof(r) /\ Existed(r) => Done(r)')
  BY <1>2, FenceSound
<1>4. CASE RunFenced(r)
  <2>1. Moved(r, {"proved"}) /\ Proof(r)
    BY <1>4, AtMoves DEF RunFenced, Inv, RunStages, Reserving
  <2>2. TypeOK'
    BY <1>2, <2>1, FenceTasks, TypeParts, TypePartsNext DEF Inv, Moved
  <2>3. Entitled(r)
    BY <1>1, <1>3, <2>1 DEF Moved, Entitled, Worked
  <2> QED BY <1>2, <1>3, <2>1, <2>2, <2>3, RunAdvances
<1>5. CASE RunFenceLost(r)
  <2>1. Moved(r, {"idle", "caught"})
    BY <1>5, ThrowMoves DEF RunFenceLost, Inv
  <2>2. TypeOK'
    BY <1>2, <2>1, FenceTasks, TypeParts, TypePartsNext DEF Inv, Moved
  <2>3. Entitled(r)
    BY <2>1, RestEntitled
  <2> QED BY <1>2, <1>3, <2>1, <2>2, <2>3, RunAdvances
<1> QED BY <1>4, <1>5

-----------------------------------------------------------------------------
(* #cancel.                                                                *)

CancelMoved(r) ==
    cancel' \in [Requests -> CancelObjects] /\ \A q \in Requests \ {r} : cancel'[q] = cancel[q]

LEMMA CancelAtMoves ==
    ASSUME TypeOK, NEW r \in Requests, NEW stage \in {"idle", "pending", "fencing", "proved"}, CancelAt(r, stage)
    PROVE  CancelMoved(r) /\ cancel'[r].at = stage /\ cancel'[r].instance = 0
<1> DEFINE x == [IdleCancel EXCEPT !.at = stage]
<1>1. IdleCancel \in CancelObjects /\ IdleCancel.instance = 0
  BY InteractiveAssumption DEF IdleCancel, CancelObjects, Statuses
<1>2. x \in CancelObjects /\ x.at = stage /\ x.instance = 0
  BY <1>1 DEF CancelObjects
<1> HIDE DEF x
<1>3. cancel' = [cancel EXCEPT ![r] = x]
  BY DEF CancelAt, x
<1> QED BY <1>2, <1>3, TypeParts DEF CancelMoved

(* A cancel that moves to a stage where it must know what it knows.        *)
LEMMA CancelAtKnows ==
    ASSUME Inv, TypeOK', Lasts, NEW r \in Requests, NEW stage \in {"idle", "pending", "fencing", "proved"},
           CancelAt(r, stage),
           stage \in {"pending", "fencing"} => Existed(r), stage = "proved" => Done(r)'
    PROVE  CancelKnows(r)'
<1>1. cancel'[r].at = stage /\ cancel'[r].instance = 0
  BY CancelAtMoves DEF Inv
<1>2. instance' \in Nat
  BY InteractiveAssumption DEF TypeOK
<1>3. Existed(r) => Existed(r)'
  BY DEF Lasts, Keeps
<1> QED BY <1>1, <1>2, <1>3 DEF CancelKnows

(* The catch of #cancel.                                                   *)
LEMMA CancelFailsInv ==
    ASSUME Inv, NEW r \in Requests, CancelFails(r), UNCHANGED <<run, dispose, disposed>>,
           instance' = instance, expired' = expired, sent' = sent, declined' = declined, task' \in [Requests -> TaskStates],
           \A q \in Requests : task'[q] = task[q] \/ (task'[q] # "running" /\ task[q] \in {"none", "running"})
    PROVE  Inv'
<1>1. head' = head /\ CancelAt(r, "idle")
  BY DEF CancelFails, CancelReturns, Update
<1>2. record' = record \/ Wrote(r, "unconfirmed", "failed")
  BY WriteResult, TypeParts DEF CancelFails, Update, CanWrite, Inv, Statuses
<1>3. CancelMoved(r)
  BY <1>1, CancelAtMoves DEF Inv
<1>4. TypeOK'
  BY <1>1, <1>2, <1>3, TypeParts, TypePartsNext DEF Inv, Wrote, CancelMoved
<1>5. Records' /\ Lasts
  <2>1. CASE record' = record
    BY <2>1, StillSound DEF Inv
  <2>2. CASE Wrote(r, "unconfirmed", "failed")
    BY <2>2, UpdateSound DEF Inv, Wrote
  <2> QED BY <1>2, <2>1, <2>2
<1>6. CancelKnows(r)'
  BY <1>1, <1>4, <1>5, CancelAtKnows
<1> QED BY <1>3, <1>4, <1>5, <1>6, CancelMoves DEF CancelMoved

(* A cancel that moves and writes nothing.                                 *)
LEMMA StillCancel ==
    ASSUME Inv, NEW r \in Requests, CancelMoved(r), UNCHANGED <<durable, CancelOnly>>, CancelKnows(r)'
    PROVE  Inv'
<1>1. /\ record' = record /\ head' = head /\ instance' = instance /\ expired' = expired /\ sent' = sent /\ declined' = declined
      /\ task' = task /\ disposed' = disposed /\ UNCHANGED <<run, dispose>>
  BY DEF durable, CancelOnly, bridge, answers
<1>2. TypeOK'
  BY <1>1, TypeParts, TypePartsNext DEF Inv, CancelMoved
<1>3. Records' /\ Lasts
  BY <1>1, StillSound DEF Inv
<1> QED BY <1>1, <1>2, <1>3, CancelMoves DEF CancelMoved

LEMMA HandleCancelInv ==
    ASSUME Inv, NEW r \in Requests, HandleCancel(r)
    PROVE  Inv'
<1>0. cancel \in [Requests -> CancelObjects] /\ cancel[r] \in CancelObjects /\ record[r] \in RecordObjects
  BY TypeParts DEF Inv
<1> DEFINE stage == IF record[r].status = "none" THEN "looked" ELSE "deciding"
           x == [cancel[r] EXCEPT !.at = stage, !.seen = record[r].status, !.result = record[r].result]
<1>1. /\ x \in CancelObjects /\ x.at = stage /\ x.seen = record[r].status /\ x.result = record[r].result
      /\ x.instance = cancel[r].instance
  <2>1. stage \in {"looked", "deciding"}
    OBVIOUS
  <2> HIDE DEF stage
  <2> QED BY <1>0, <2>1 DEF CancelObjects, RecordObjects
<1>2. cancel' = [cancel EXCEPT ![r] = x] /\ UNCHANGED <<durable, CancelOnly>>
  BY <1>0 DEF HandleCancel
<1> HIDE DEF x
<1>3. CancelMoved(r) /\ cancel'[r] = x
  BY <1>0, <1>1, <1>2 DEF CancelMoved
<1>4. record[r].status = "none" => record[r].result = "none"
  BY DEF Inv, Records, RecordSound, NoRecord
<1>5. record[r].status = "terminal" \/ record[r].result = "proved" => Done(r)
  BY DEF Inv, Records, RecordSound
<1>6. Done(r)' = Done(r) /\ Existed(r)' = Existed(r) /\ instance' = instance
  BY <1>2 DEF Done, Existed, durable, CancelOnly, bridge
<1>7. cancel[r].instance <= instance
  BY DEF Inv, ActorsKnow, CancelKnows
<1>8. CancelKnows(r)'
  BY <1>1, <1>3, <1>4, <1>5, <1>6, <1>7 DEF CancelKnows, Existed
<1> QED BY <1>2, <1>3, <1>8, StillCancel

LEMMA CancelHealthInv ==
    ASSUME Inv, NEW r \in Requests, CancelHealth(r)
    PROVE  Inv'
<1>0. cancel \in [Requests -> CancelObjects] /\ cancel[r] \in CancelObjects /\ instance \in 0..MaxInstance
      /\ instance \in Nat
  BY TypeParts, InteractiveAssumption DEF Inv
<1>1. UNCHANGED <<durable, CancelOnly>> /\ instance' = instance /\ Existed(r)' = Existed(r) /\ Done(r)' = Done(r)
  BY DEF CancelHealth, Done, Existed, durable, CancelOnly, bridge
<1>2. CASE CancelReturns(r)
  <2>1. CancelMoved(r) /\ cancel'[r].at = "idle" /\ cancel'[r].instance = 0
    BY <1>2, CancelAtMoves DEF Inv, CancelReturns
  <2>2. CancelKnows(r)'
    BY <1>0, <1>1, <2>1 DEF CancelKnows
  <2> QED BY <1>1, <2>1, <2>2, StillCancel
<1>3. CASE cancel' = [cancel EXCEPT ![r].at = "healthy", ![r].instance = instance]
  <2> DEFINE x == [cancel[r] EXCEPT !.at = "healthy", !.instance = instance]
  <2>1. x \in CancelObjects /\ x.at = "healthy" /\ x.instance = instance /\ x.result = cancel[r].result
    BY <1>0 DEF CancelObjects
  <2>2. cancel' = [cancel EXCEPT ![r] = x]
    BY <1>0, <1>3
  <2> HIDE DEF x
  <2>3. CancelMoved(r) /\ cancel'[r] = x
    BY <1>0, <2>1, <2>2 DEF CancelMoved
  <2>4. cancel[r].result = "none"
    BY DEF CancelHealth, Inv, ActorsKnow, CancelKnows
  <2>5. CancelKnows(r)'
    BY <1>0, <1>1, <2>1, <2>3, <2>4 DEF CancelKnows
  <2> QED BY <1>1, <2>3, <2>5, StillCancel
<1> QED BY <1>2, <1>3 DEF CancelHealth

LEMMA CancelReserveInv ==
    ASSUME Inv, NEW r \in Requests, NEW ok \in BOOLEAN, CancelReserve(r, ok)
    PROVE  Inv'
<1>0. cancel \in [Requests -> CancelObjects] /\ cancel[r] \in CancelObjects /\ record[r] \in RecordObjects
      /\ instance \in Nat
  BY TypeParts, InteractiveAssumption DEF Inv
<1>1. cancel[r].result = "none" /\ cancel[r].instance <= instance
  BY DEF CancelReserve, Inv, ActorsKnow, CancelKnows
<1>2. UNCHANGED CancelOnly
  BY DEF CancelReserve
<1>3. CASE Retained(r)
  <2> DEFINE y == [cancel[r] EXCEPT !.at = "deciding", !.seen = record[r].status, !.result = record[r].result]
             x == [y EXCEPT !.instance = 0]
  <2>1. y \in CancelObjects /\ y.at = "deciding" /\ y.seen = record[r].status /\ y.result = record[r].result
    BY <1>0 DEF CancelObjects, RecordObjects
  <2>2. 0 \in 0..MaxInstance
    BY InteractiveAssumption
  <2>3. /\ x \in CancelObjects /\ x.at = "deciding" /\ x.seen = record[r].status
        /\ x.result = record[r].result /\ x.instance = 0
    <3> HIDE DEF y
    <3> QED BY <2>1, <2>2 DEF CancelObjects
  <2>4. cancel' = [cancel EXCEPT ![r] = x] /\ UNCHANGED durable
    BY <1>0, <1>3 DEF CancelReserve
  <2> HIDE DEF x
  <2>5. CancelMoved(r) /\ cancel'[r] = x
    BY <1>0, <2>3, <2>4 DEF CancelMoved
  <2>6. Existed(r) /\ (record[r].status = "terminal" \/ record[r].result = "proved" => Done(r))
    BY <1>3 DEF Retained, Existed, Inv, Records, RecordSound
  <2>7. Done(r)' = Done(r) /\ Existed(r)' = Existed(r) /\ instance' = instance
    BY <1>2, <2>4 DEF Done, Existed, durable, CancelOnly, bridge
  <2>8. CancelKnows(r)'
    BY <1>0, <2>3, <2>5, <2>6, <2>7 DEF CancelKnows
  <2> QED BY <1>2, <2>4, <2>5, <2>8, StillCancel
<1>4. CASE ~Retained(r) /\ (Refuses(r, "cancel_pending") \/ ~ok)
  <2>1. CancelAt(r, "idle") /\ UNCHANGED durable
    BY <1>4 DEF CancelReserve, CancelReturns
  <2>2. CancelMoved(r) /\ cancel'[r].at = "idle" /\ cancel'[r].instance = 0 /\ instance' = instance
    BY <1>2, <2>1, CancelAtMoves DEF Inv, CancelOnly, bridge
  <2>3. CancelKnows(r)'
    BY <1>0, <2>2 DEF CancelKnows
  <2> QED BY <1>2, <2>1, <2>2, <2>3, StillCancel
<1>5. CASE ~Retained(r) /\ ~Refuses(r, "cancel_pending") /\ ok
  <2> DEFINE y == [cancel[r] EXCEPT !.at = "deciding", !.seen = "cancel_pending"]
             x == [y EXCEPT !.instance = 0]
  <2>1. y \in CancelObjects /\ y.at = "deciding" /\ y.seen = "cancel_pending" /\ y.result = "none"
    BY <1>0, <1>1 DEF CancelObjects, Statuses
  <2>2. 0 \in 0..MaxInstance /\ "cancel_pending" \in Statuses
    BY InteractiveAssumption DEF Statuses
  <2>3. /\ x \in CancelObjects /\ x.at = "deciding" /\ x.seen = "cancel_pending"
        /\ x.result = "none" /\ x.instance = 0
    <3> HIDE DEF y
    <3> QED BY <2>1, <2>2 DEF CancelObjects
  <2>4. cancel' = [cancel EXCEPT ![r] = x] /\ Reserved(r, "cancel_pending", cancel[r].instance)
    BY <1>0, <1>5 DEF CancelReserve
  <2> HIDE DEF x
  <2>5. CancelMoved(r) /\ cancel'[r] = x
    BY <1>0, <2>3, <2>4 DEF CancelMoved
  <2>6. cancel[r].instance \in 0..MaxInstance /\ cancel[r].instance \in Nat
    BY <1>0, InteractiveAssumption DEF CancelObjects
  <2>7. record' \in [Requests -> RecordObjects] /\ head' \in Requests \cup {0}
    BY <2>2, <2>4, <2>6, ReservedType DEF Inv
  <2>8. UNCHANGED <<bridge, expired, sent, run, dispose>> /\ disposed' = disposed
        /\ instance' = instance /\ task' = task /\ sent' = sent /\ declined' = declined /\ expired' = expired
        /\ run' = run /\ dispose' = dispose
    BY <1>2 DEF CancelOnly, bridge, answers
  <2>9. TypeOK'
    BY <2>5, <2>7, <2>8, TypeParts, TypePartsNext DEF Inv, CancelMoved
  <2>10. Records' /\ Lasts /\ Existed(r)'
    BY <1>1, <1>5, <2>4, <2>6, <2>8, ReserveSound DEF Inv
  <2>11. CancelKnows(r)'
    BY <1>0, <2>3, <2>5, <2>8, <2>10 DEF CancelKnows
  <2> QED BY <2>5, <2>8, <2>9, <2>10, <2>11, CancelMoves DEF CancelMoved
<1> QED BY <1>3, <1>4, <1>5

(* A cancel that writes and goes on, with a proof where it claims one.     *)
LEMMA UpdateCancel ==
    ASSUME Inv, NEW r \in Requests, NEW stage \in {"idle", "pending"}, CancelAt(r, stage), NEW s, NEW x,
           Wrote(r, s, x), UNCHANGED <<head, CancelOnly>>,
           s = "terminal" => Done(r), x = "proved" => x = record[r].result \/ Done(r)
    PROVE  Inv'
<1>1. /\ head' = head /\ instance' = instance /\ expired' = expired /\ sent' = sent /\ declined' = declined
      /\ task' = task /\ disposed' = disposed /\ run' = run /\ dispose' = dispose
  BY DEF CancelOnly, bridge, answers
<1>2. CancelMoved(r)
  BY CancelAtMoves DEF Inv
<1>3. TypeOK'
  BY <1>1, <1>2, TypeParts, TypePartsNext DEF Inv, Wrote, CancelMoved
<1>4. Records' /\ Lasts
  BY <1>1, UpdateSound DEF Inv, Wrote
<1>5. Existed(r)
  BY DEF Wrote, Touched, Existed
<1>6. CancelKnows(r)'
  BY <1>3, <1>4, <1>5, CancelAtKnows
<1> QED BY <1>1, <1>2, <1>3, <1>4, <1>6, CancelMoves DEF CancelMoved

LEMMA CancelCaught ==
    ASSUME Inv, NEW r \in Requests, CancelFails(r), UNCHANGED CancelOnly
    PROVE  Inv'
<1>1. /\ instance' = instance /\ expired' = expired /\ sent' = sent /\ declined' = declined /\ task' = task
      /\ UNCHANGED <<run, dispose, disposed>>
  BY DEF CancelOnly, bridge, answers
<1> QED BY <1>1, CancelFailsInv, TypeParts DEF Inv

LEMMA CancelDecidesInv ==
    ASSUME Inv, NEW r \in Requests, NEW ok \in BOOLEAN, CancelDecides(r, ok)
    PROVE  Inv'
<1>1. CASE cancel[r].result = "proved" \/ cancel[r].seen = "terminal"
  <2>1. CancelAt(r, "proved") /\ UNCHANGED <<durable, CancelOnly>> /\ instance' = instance
    BY <1>1 DEF CancelDecides, CancelOnly, bridge
  <2>2. Done(r)
    BY <1>1 DEF CancelDecides, Inv, ActorsKnow, CancelKnows
  <2>3. Done(r)' /\ Existed(r)'
    BY <2>1, <2>2 DEF Done, Existed, durable, CancelOnly, bridge
  <2>4. CancelMoved(r) /\ cancel'[r].at = "proved" /\ cancel'[r].instance = 0
    BY <2>1, CancelAtMoves DEF Inv
  <2>5. CancelKnows(r)'
    BY <2>1, <2>3, <2>4, InteractiveAssumption DEF CancelKnows, Inv, TypeOK
  <2> QED BY <2>1, <2>4, <2>5, StillCancel
<1>2. CASE ~(cancel[r].result = "proved" \/ cancel[r].seen = "terminal") /\ ok
  <2>1. CancelAt(r, "pending") /\ record[r].status # "none" /\ UNCHANGED <<head, CancelOnly>>
    BY <1>2 DEF CancelDecides, Update, CanWrite
  <2>2. Wrote(r, "cancel_pending", record[r].result)
    BY <1>2, <2>1, WriteStatus, TypeParts DEF CancelDecides, Update, Inv, Statuses
  <2> QED BY <2>1, <2>2, UpdateCancel
<1>3. CASE ~(cancel[r].result = "proved" \/ cancel[r].seen = "terminal") /\ ~ok
  BY <1>3, CancelCaught DEF CancelDecides
<1> QED BY <1>1, <1>2, <1>3

LEMMA CancelPendingInv ==
    ASSUME Inv, NEW r \in Requests, CancelPending(r)
    PROVE  Inv'
<1>1. CASE CancelAt(r, "fencing") /\ UNCHANGED durable
  <2>1. Existed(r) /\ UNCHANGED CancelOnly
    BY DEF CancelPending, Inv, ActorsKnow, CancelKnows
  <2>2. Existed(r)' /\ instance' = instance
    BY <1>1, <2>1 DEF Existed, durable, CancelOnly, bridge
  <2>3. CancelMoved(r) /\ cancel'[r].at = "fencing" /\ cancel'[r].instance = 0
    BY <1>1, CancelAtMoves DEF Inv
  <2>4. CancelKnows(r)'
    BY <2>2, <2>3, InteractiveAssumption DEF CancelKnows, Inv, TypeOK
  <2> QED BY <1>1, <2>1, <2>3, <2>4, StillCancel
<1>2. CASE CancelFails(r)
  BY <1>2, CancelCaught DEF CancelPending
<1> QED BY <1>1, <1>2 DEF CancelPending

LEMMA CancelProvedInv ==
    ASSUME Inv, NEW r \in Requests, NEW ok \in BOOLEAN, CancelProved(r, ok)
    PROVE  Inv'
<1>1. CASE ok
  <2>1. CancelAt(r, "idle") /\ record[r].status # "none" /\ UNCHANGED <<head, CancelOnly>>
    BY <1>1 DEF CancelProved, Update, CanWrite, CancelReturns
  <2>2. Wrote(r, "terminal", "proved")
    BY <1>1, <2>1, WriteResult, TypeParts DEF CancelProved, Update, Inv, Statuses
  <2>3. Done(r)
    BY DEF CancelProved, Inv, ActorsKnow, CancelKnows
  <2> QED BY <2>1, <2>2, <2>3, UpdateCancel
<1>2. CASE ~ok
  BY <1>2, CancelCaught DEF CancelProved
<1> QED BY <1>1, <1>2

LEMMA CancelFencedInv ==
    ASSUME Inv, NEW r \in Requests, CancelFenced(r) \/ CancelFenceLost(r)
    PROVE  Inv'
<1>1. /\ instance' = instance /\ expired' = expired /\ sent' = sent /\ declined' = declined /\ UNCHANGED <<run, dispose, disposed>>
      /\ (Proof(r) \/ FenceLost(r))
  BY DEF CancelFenced, CancelFenceLost, FenceOnly, answers
<1>2. CASE CancelFenceLost(r)
  BY <1>1, <1>2, FenceTasks, CancelFailsInv DEF CancelFenceLost
<1>3. CASE CancelFenced(r)
  <2>1. record' = record /\ head' = head /\ CancelAt(r, "proved") /\ Proof(r)
    BY <1>3 DEF CancelFenced, durable
  <2>2. Existed(r)
    BY <1>3 DEF CancelFenced, Inv, ActorsKnow, CancelKnows
  <2>3. Records' /\ Lasts /\ Done(r)'
    BY <1>1, <2>1, <2>2, FenceSound
  <2>4. CancelMoved(r)
    BY <2>1, CancelAtMoves DEF Inv
  <2>5. TypeOK'
    BY <1>1, <2>1, <2>4, FenceTasks, TypeParts, TypePartsNext DEF Inv, CancelMoved
  <2>6. CancelKnows(r)'
    BY <2>1, <2>3, <2>5, CancelAtKnows
  <2> QED BY <1>1, <2>3, <2>4, <2>5, <2>6, CancelMoves DEF CancelMoved
<1> QED BY <1>2, <1>3

-----------------------------------------------------------------------------
(* dispose().                                                              *)

(* The disposal moves, with the record it is about unchanged.              *)
LEMMA DisposeStays ==
    ASSUME Inv, TypeOK', Records', Lasts, UNCHANGED <<run, cancel>>, NEW r \in Requests,
           dispose'.at \in {"pending", "fencing", "proved"} => dispose'.of = r /\ Existed(r),
           dispose'.at = "proved" => Done(r)'
    PROVE  Inv'
<1>1. Existed(r) => Existed(r)'
  BY DEF Lasts, Keeps
<1>2. DisposeKnows'
  BY <1>1 DEF DisposeKnows
<1> QED BY <1>2, DisposeMoves

LEMMA DisposeFailsInv ==
    ASSUME Inv, dispose.of \in Requests, DisposeFails, UNCHANGED <<run, cancel, disposed>>,
           instance' = instance, expired' = expired, sent' = sent, declined' = declined, task' \in [Requests -> TaskStates],
           \A q \in Requests : task'[q] = task[q] \/ (task'[q] # "running" /\ task[q] \in {"none", "running"})
    PROVE  Inv'
<1>r. PICK r \in Requests : r = dispose.of
  OBVIOUS
<1>1. head' = head /\ (record' = record \/ Wrote(r, "unconfirmed", "failed"))
  BY <1>r, WriteResult, TypeParts DEF DisposeFails, Update, CanWrite, Inv, Statuses
<1>2. dispose \in DisposeObjects
  BY TypeParts DEF Inv
<1>3. dispose' \in DisposeObjects /\ dispose'.at \in {"next", "returned"}
  BY <1>2 DEF DisposeFails, DisposeObjects
<1>4. TypeOK'
  BY <1>1, <1>3, TypeParts, TypePartsNext DEF Inv, Wrote
<1>5. Records' /\ Lasts
  <2>1. CASE record' = record
    BY <2>1, StillSound DEF Inv
  <2>2. CASE Wrote(r, "unconfirmed", "failed")
    BY <2>2, UpdateSound DEF Inv, Wrote
  <2> QED BY <1>1, <2>1, <2>2
<1> QED BY <1>3, <1>4, <1>5, DisposeStays

(* The disposal changes only itself.                                       *)
LEMMA StillDispose ==
    ASSUME Inv, record' = record, head' = head, UNCHANGED DisposeOnly, disposed' \in BOOLEAN,
           dispose' \in DisposeObjects
    PROVE  TypeOK' /\ Records' /\ Lasts
<1>1. /\ instance' = instance /\ expired' = expired /\ sent' = sent /\ declined' = declined
      /\ task' = task /\ run' = run /\ cancel' = cancel
  BY DEF DisposeOnly, bridge, answers
<1>2. TypeOK'
  BY <1>1, TypeParts, TypePartsNext DEF Inv
<1>3. Records' /\ Lasts
  BY <1>1, StillSound DEF Inv
<1> QED BY <1>2, <1>3

LEMMA DisposeTurns ==
    ASSUME Inv, DisposeCall \/ DisposeReturns
    PROVE  Inv'
<1>1. record' = record /\ head' = head /\ UNCHANGED DisposeOnly /\ disposed' \in BOOLEAN
  BY TypeParts DEF DisposeCall, DisposeReturns, durable, Inv
<1>2. IdleDispose \in DisposeObjects
  BY DEF IdleDispose, DisposeObjects
<1>3. dispose' \in DisposeObjects /\ dispose'.at \in {"next", "returned"}
  <2>1. CASE DisposeReturns
    BY <1>2, <2>1 DEF DisposeReturns, DisposeObjects
  <2>2. CASE DisposeCall
    <3>1. {r \in Requests : record[r].status \notin {"none", "terminal"}} \in SUBSET Requests
      OBVIOUS
    <3> QED BY <1>2, <2>2, <3>1 DEF DisposeCall, DisposeObjects
  <2> QED BY <2>1, <2>2
<1>4. TypeOK' /\ Records' /\ Lasts
  BY <1>1, <1>3, StillDispose
<1>5. DisposeKnows'
  BY <1>3 DEF DisposeKnows
<1> QED BY <1>1, <1>4, <1>5, DisposeMoves DEF DisposeOnly

LEMMA DisposeMarksInv ==
    ASSUME Inv, NEW r \in Requests, NEW ok \in BOOLEAN, DisposeMarks(r, ok)
    PROVE  Inv'
<1>0. dispose \in DisposeObjects
  BY TypeParts DEF Inv
<1>1. dispose' \in DisposeObjects
  BY <1>0 DEF DisposeMarks, DisposeObjects
<1>2. /\ head' = head /\ instance' = instance /\ expired' = expired /\ sent' = sent /\ declined' = declined /\ task' = task
      /\ UNCHANGED <<run, cancel, disposed>> /\ run' = run /\ cancel' = cancel /\ disposed' = disposed
  BY DEF DisposeMarks, Update, DisposeOnly, bridge, answers
<1>3. CASE ok
  <2>1. Wrote(r, "cancel_pending", record[r].result)
    BY <1>3, WriteStatus, TypeParts DEF DisposeMarks, Update, CanWrite, Inv, Statuses
  <2>2. dispose'.at = "pending" /\ dispose'.of = r
    BY <1>0, <1>3 DEF DisposeMarks, DisposeObjects
  <2>3. TypeOK'
    BY <1>1, <1>2, <2>1, TypeParts, TypePartsNext DEF Inv, Wrote
  <2>4. Records' /\ Lasts
    BY <1>2, <2>1, UpdateSound DEF Inv, Wrote
  <2>5. Existed(r)
    BY <2>1 DEF Wrote, Touched, Existed
  <2> QED BY <1>2, <2>2, <2>3, <2>4, <2>5, DisposeStays
<1>4. CASE ~ok
  <2>1. dispose'.at = "returned" /\ record' = record
    BY <1>0, <1>4 DEF DisposeMarks, DisposeObjects, Update
  <2>2. TypeOK' /\ Records' /\ Lasts
    BY <1>1, <1>2, <2>1, StillDispose, TypeParts DEF Inv, DisposeOnly, bridge, answers
  <2> QED BY <1>2, <2>1, <2>2, DisposeStays
<1> QED BY <1>3, <1>4

LEMMA DisposePendingInv ==
    ASSUME Inv, DisposePending
    PROVE  Inv'
<1>0. dispose \in DisposeObjects /\ disposed \in BOOLEAN
  BY TypeParts DEF Inv
<1>1. dispose.of \in Requests /\ Existed(dispose.of)
  BY DEF DisposePending, Inv, ActorsKnow, DisposeKnows
<1>2. UNCHANGED <<disposed, DisposeOnly>>
  BY DEF DisposePending
<1>3. CASE DisposeFails
  <2>1. /\ instance' = instance /\ expired' = expired /\ sent' = sent /\ declined' = declined /\ task' = task
        /\ UNCHANGED <<run, cancel, disposed>>
    BY <1>2 DEF DisposeOnly, bridge, answers
  <2> QED BY <1>1, <1>3, <2>1, DisposeFailsInv, TypeParts DEF Inv
<1>4. CASE DisposeAt("fencing") /\ UNCHANGED durable
  <2>1. dispose' \in DisposeObjects /\ dispose'.at = "fencing" /\ dispose'.of = dispose.of
    BY <1>0, <1>4 DEF DisposeAt, DisposeObjects
  <2>2. TypeOK' /\ Records' /\ Lasts
    BY <1>0, <1>2, <1>4, <2>1, StillDispose DEF durable
  <2>3. PICK r \in Requests : r = dispose.of
    BY <1>1
  <2> QED BY <1>1, <1>2, <2>1, <2>2, <2>3, DisposeStays DEF DisposeOnly
<1> QED BY <1>3, <1>4 DEF DisposePending

LEMMA DisposeProvedInv ==
    ASSUME Inv, NEW ok \in BOOLEAN, DisposeProved(ok)
    PROVE  Inv'
<1>0. dispose \in DisposeObjects
  BY TypeParts DEF Inv
<1>1. PICK r \in Requests : r = dispose.of /\ Done(r)
  BY DEF DisposeProved, Inv, ActorsKnow, DisposeKnows
<1>2. /\ instance' = instance /\ expired' = expired /\ sent' = sent /\ declined' = declined /\ task' = task
      /\ UNCHANGED <<run, cancel, disposed>> /\ run' = run /\ cancel' = cancel /\ disposed' = disposed
  BY DEF DisposeProved, DisposeOnly, bridge, answers
<1>3. CASE ok
  <2>1. head' = head /\ Wrote(r, "terminal", "proved")
    BY <1>1, <1>3, WriteResult, TypeParts DEF DisposeProved, Update, CanWrite, Inv, Statuses
  <2>2. dispose' \in DisposeObjects /\ dispose'.at = "next"
    BY <1>0, <1>3 DEF DisposeProved, DisposeAt, DisposeObjects
  <2>3. TypeOK'
    BY <1>2, <2>1, <2>2, TypeParts, TypePartsNext DEF Inv, Wrote
  <2>4. Records' /\ Lasts
    BY <1>1, <1>2, <2>1, UpdateSound DEF Inv, Wrote
  <2> QED BY <1>2, <2>2, <2>3, <2>4, DisposeStays
<1>4. CASE ~ok
  BY <1>1, <1>2, <1>4, DisposeFailsInv, TypeParts DEF DisposeProved, Inv
<1> QED BY <1>3, <1>4

LEMMA DisposeFencedInv ==
    ASSUME Inv, DisposeFenced \/ DisposeFenceLost
    PROVE  Inv'
<1>0. dispose \in DisposeObjects
  BY TypeParts DEF Inv
<1>1. PICK r \in Requests : r = dispose.of /\ Existed(r)
  BY DEF DisposeFenced, DisposeFenceLost, Inv, ActorsKnow, DisposeKnows
<1>2. /\ instance' = instance /\ expired' = expired /\ sent' = sent /\ declined' = declined /\ (Proof(r) \/ FenceLost(r))
      /\ UNCHANGED <<run, cancel, disposed>> /\ run' = run /\ cancel' = cancel /\ disposed' = disposed
  BY <1>1 DEF DisposeFenced, DisposeFenceLost, FenceOnly, answers
<1>3. CASE DisposeFenceLost
  BY <1>1, <1>2, <1>3, FenceTasks, DisposeFailsInv DEF DisposeFenceLost
<1>4. CASE DisposeFenced
  <2>1. record' = record /\ head' = head /\ Proof(r)
    BY <1>1, <1>4 DEF DisposeFenced, durable
  <2>2. dispose' \in DisposeObjects /\ dispose'.at = "proved" /\ dispose'.of = r
    BY <1>0, <1>1, <1>4 DEF DisposeFenced, DisposeObjects
  <2>3. TypeOK'
    BY <1>2, <2>1, <2>2, FenceTasks, TypeParts, TypePartsNext DEF Inv
  <2>4. Records' /\ Lasts /\ Done(r)'
    BY <1>1, <1>2, <2>1, FenceSound
  <2> QED BY <1>1, <1>2, <2>2, <2>3, <2>4, DisposeStays
<1> QED BY <1>3, <1>4

-----------------------------------------------------------------------------
(* The bridge, the restart of the service and time.                        *)

LEMMA TaskEndsInv ==
    ASSUME Inv, NEW r \in Requests, NEW outcome \in {"ended", "unstopped"}, TaskEnds(r, outcome)
    PROVE  Inv'
<1>1. /\ record' = record /\ head' = head /\ instance' = instance /\ expired' = expired /\ sent' = sent /\ declined' = declined
      /\ run' = run /\ cancel' = cancel /\ dispose' = dispose /\ disposed' = disposed
  BY DEF TaskEnds, durable, answers
<1>2. task' \in [Requests -> TaskStates]
      /\ \A q \in Requests : task'[q] = task[q] \/ (task'[q] # "running" /\ task[q] \in {"none", "running"})
  <2>1. task \in [Requests -> TaskStates]
    BY TypeParts DEF Inv
  <2> QED BY <2>1 DEF TaskEnds, TaskStates
<1>3. TypeOK'
  BY <1>1, <1>2, TypeParts, TypePartsNext DEF Inv
<1>4. Records' /\ Lasts
  BY <1>1, <1>2, StillSound DEF Inv
<1> QED BY <1>1, <1>3, <1>4, RunLasts, CancelLasts, DisposeLasts DEF Inv, ActorsKnow

(* The tasks of the old bridge are gone with the instance.                 *)
LEMMA BridgeRestartsInv ==
    ASSUME Inv, BridgeRestarts
    PROVE  Inv'
<1>1. /\ record' = record /\ head' = head /\ expired' = expired /\ sent' = sent /\ declined' = declined
      /\ run' = run /\ cancel' = cancel /\ dispose' = dispose /\ disposed' = disposed
  BY DEF BridgeRestarts, durable, answers
<1>2. instance' = instance + 1 /\ instance' \in 1..MaxInstance /\ instance \in Nat
  BY InteractiveAssumption DEF BridgeRestarts, Inv, TypeOK
<1>3. task' \in [Requests -> TaskStates] /\ \A q \in Requests : task'[q] = "none"
  BY DEF BridgeRestarts, TaskStates
<1>4. TypeOK'
  BY <1>1, <1>2, <1>3, TypeParts, TypePartsNext DEF Inv
<1>5. \A q \in Requests : RecordStep(q) /\ BridgeStep(q) /\ record'[q].instance <= instance'
  <2>1. \A q \in Requests : record[q].instance \in Nat /\ record[q].instance <= instance
    BY InteractiveAssumption DEF Inv, TypeOK, Records, RecordSound
  <2> QED BY <1>1, <1>2, <2>1 DEF RecordStep, BridgeStep
<1>6. Records' /\ Lasts
  BY <1>1, <1>2, <1>3, <1>5, StepSound DEF Inv
<1> QED BY <1>1, <1>4, <1>6, RunLasts, CancelLasts, DisposeLasts DEF Inv, ActorsKnow

LEMMA ExpireInv ==
    ASSUME Inv, NEW r \in Requests, Expire(r)
    PROVE  Inv'
<1>1. /\ record' = record /\ head' = head /\ instance' = instance /\ sent' = sent /\ declined' = declined /\ task' = task
      /\ run' = run /\ cancel' = cancel /\ dispose' = dispose /\ disposed' = disposed
  BY DEF Expire, durable, bridge, answers
<1>2. expired \subseteq expired' /\ expired' \subseteq Requests
  BY DEF Expire, Inv, TypeOK
<1>3. TypeOK'
  BY <1>1, <1>2, TypeParts, TypePartsNext DEF Inv
<1>4. instance \in Nat /\ \A q \in Requests : record[q].instance <= instance
  BY InteractiveAssumption DEF Inv, TypeOK, Records, RecordSound
<1>5. \A q \in Requests : RecordStep(q) /\ BridgeStep(q)
  BY <1>1 DEF RecordStep, BridgeStep
<1>6. Records' /\ Lasts
  BY <1>1, <1>2, <1>4, <1>5, StepSound DEF Inv
<1> QED BY <1>1, <1>3, <1>6, RunLasts, CancelLasts, DisposeLasts DEF Inv, ActorsKnow

LEMMA IdleTypes ==
    IdleRun \in RunObjects /\ IdleCancel \in CancelObjects /\ IdleDispose \in DisposeObjects
<1>1. 0 \in 0..MaxInstance
  BY InteractiveAssumption
<1> QED BY <1>1 DEF IdleRun, IdleCancel, IdleDispose, RunObjects, CancelObjects, DisposeObjects,
                    RunStages, Statuses

LEMMA ServiceRestartsInv ==
    ASSUME Inv, ServiceRestarts
    PROVE  Inv'
<1>1. /\ record' = record /\ head' = head /\ instance' = instance /\ expired' = expired /\ sent' = sent /\ declined' = declined
      /\ task' = task /\ run' = [r \in Requests |-> IdleRun] /\ cancel' = [r \in Requests |-> IdleCancel]
      /\ dispose' = IdleDispose /\ disposed' = FALSE
  BY DEF ServiceRestarts, durable, bridge, answers
<1>2. TypeOK'
  BY <1>1, IdleTypes, TypeParts, TypePartsNext DEF Inv
<1>3. Records' /\ Lasts
  BY <1>1, StillSound DEF Inv
<1>4. instance' \in Nat
  BY <1>1, InteractiveAssumption DEF Inv, TypeOK
<1>5. ActorsKnow'
  BY <1>1, <1>4 DEF ActorsKnow, RunKnows, CancelKnows, DisposeKnows, IdleRun, IdleCancel, IdleDispose, Reserving
<1> QED BY <1>2, <1>3, <1>5 DEF Inv

-----------------------------------------------------------------------------
(* The theorems.                                                           *)

LEMMA InitInv ==
    Init => Inv
<1> SUFFICES ASSUME Init PROVE Inv
  OBVIOUS
<1>1. NoRecord \in RecordObjects /\ instance \in 1..MaxInstance
  BY InteractiveAssumption DEF Init, NoRecord, RecordObjects, Statuses
<1>2. TypeOK
  BY <1>1, IdleTypes, TypeParts DEF Init, TaskStates
<1>3. Records
  BY DEF Init, Records, OneOpen, RecordSound, NoRecord
<1>4. ActorsKnow
  BY DEF Init, ActorsKnow, RunKnows, CancelKnows, DisposeKnows, IdleRun, IdleCancel, IdleDispose, Reserving
<1> QED BY <1>2, <1>3, <1>4 DEF Inv

LEMMA NextInv ==
    ASSUME Inv, [Next]_vars
    PROVE  Inv'
<1>1. ASSUME NEW r \in Requests, RunStep(r) PROVE Inv'
  BY <1>1, RunOverInv, RunHealthInv, RunLatestInv, RunEventInv, RunAnswersInv, RunThrowsInv, StartAnsweredInv,
     RunFencedInv, RunReserveInv, RunHoldingInv, RunProvedInv, RunMarksInv, RunEndsInv, RunUnstoppedInv
     DEF RunStep
<1>2. ASSUME NEW r \in Requests, CancelStep(r) PROVE Inv'
  BY <1>2, CancelHealthInv, CancelPendingInv, CancelFencedInv, CancelReserveInv, CancelDecidesInv,
     CancelProvedInv DEF CancelStep
<1>3. ASSUME DisposeStep PROVE Inv'
  BY <1>3, DisposePendingInv, DisposeFencedInv, DisposeTurns, DisposeProvedInv, DisposeMarksInv DEF DisposeStep
<1>4. CASE UNCHANGED vars
  BY <1>4 DEF vars, durable, bridge, answers, Inv, TypeOK, Records, OneOpen, RecordSound, ActorsKnow, RunKnows,
              CancelKnows, DisposeKnows, Existed, Done, Worked, Answered
<1>5. ASSUME NEW r \in Requests,
             \/ HandleCancel(r) \/ HandleWork(r) \/ RunThrows(r) \/ StartFails(r) \/ Expire(r)
             \/ \E ok \in BOOLEAN : RunUnavailable(r, ok)
             \/ \E outcome \in {"ended", "unstopped"} : TaskEnds(r, outcome)
      PROVE  Inv'
  BY <1>5, HandleCancelInv, HandleWorkInv, RunThrowsInv, StartFailsInv, ExpireInv, RunUnavailableInv, TaskEndsInv
<1> QED BY <1>1, <1>2, <1>3, <1>4, <1>5, DisposeTurns, BridgeRestartsInv, ServiceRestartsInv DEF Next

LEMMA InvHolds ==
    Spec => []Inv
<1> QED BY InitInv, NextInv, PTL DEF Spec

(* The records, the runs, the cancels and the disposal keep their types.   *)
THEOREM TypeCorrect ==
    Spec => []TypeOK
<1>1. Inv => TypeOK
  BY DEF Inv
<1> QED BY <1>1, InvHolds, PTL

(* #run, #cancel and dispose(): a terminal record proves that its task is  *)
(* over or fenced on the bridge it names.                                  *)
THEOREM TerminalIsProofHolds ==
    Spec => []TerminalIsProof
<1>1. Inv => TerminalIsProof
  BY DEF Inv, Records, RecordSound, Done, TerminalIsProof
<1> QED BY <1>1, InvHolds, PTL

(* reserveInteractive keeps two works of one discussion from running       *)
(* together, however late their starts and fences arrive.                  *)
THEOREM OneRunPerSessionHolds ==
    Spec => []OneRunPerSession
<1>1. Inv => OneRunPerSession
  <2> SUFFICES ASSUME Inv, NEW r \in Requests, NEW q \in Requests, Running(r), Running(q), r # q
               PROVE  FALSE
    BY DEF OneRunPerSession
  <2>1. \A p \in Requests : Running(p) => record[p].work /\ ~Done(p)
    <3>1. SUFFICES ASSUME NEW p \in Requests, Running(p) PROVE record[p].work /\ ~Done(p)
      OBVIOUS
    <3>2. RecordSound(p) /\ instance \in 1..MaxInstance
      BY DEF Inv, Records, TypeOK
    <3>3. record[p].status # "none"
      BY <3>1, <3>2, InteractiveAssumption DEF Running, RecordSound, NoRecord
    <3> QED BY <3>1, <3>2, <3>3 DEF Running, RecordSound, Worked, Done
  <2> QED BY <2>1 DEF Inv, Records, OneOpen
<1> QED BY <1>1, InvHolds, PTL

-----------------------------------------------------------------------------
(* The unavailable error.                                                  *)

(* A run that looked and found no record is one that nobody has answered.  *)
Unanswered ==
    \A r \in Requests : run[r].at = "looked" /\ ~run[r].known => r \notin sent

(* The steps of a run, after the one that looks.                           *)
Proceeds(r) ==
    \/ RunStep(r) \/ RunThrows(r) \/ StartFails(r)
    \/ \E ok \in BOOLEAN : RunUnavailable(r, ok)

LEMMA Leaving ==
    ASSUME NEW r \in Requests, NEW stages, Moved(r, stages), "looked" \notin stages
    PROVE  run'[r].at # "looked" /\ \A q \in Requests \ {r} : run'[q] = run[q]
  BY DEF Moved

LEMMA Proceeding ==
    ASSUME Inv, NEW r \in Requests, Proceeds(r)
    PROVE  /\ run'[r].at # "looked" /\ \A q \in Requests \ {r} : run'[q] = run[q]
           /\ sent' \subseteq sent \cup {r}
<1>1. run \in [Requests -> RunObjects] /\ \A q \in Requests : record[q].status \in Statuses
  BY TypeParts DEF Inv, TypeOK
<1> DEFINE Left == run'[r].at # "looked" /\ \A q \in Requests \ {r} : run'[q] = run[q]
<1>2. RunReturns(r) \/ Throw(r) => Left
  BY ReturnsMoves, ThrowMoves, Leaving DEF Inv
<1>3. \A stage \in RunStages \ {"looked"} : At(r, stage) => Left
  BY AtMoves, Leaving DEF Inv
<1>4. ASSUME NEW stage \in RunStages \ {"looked"}, NEW s \in Statuses,
             \/ run' = [run EXCEPT ![r].at = stage, ![r].seen = s]
             \/ run' = [run EXCEPT ![r].at = stage, ![r].seen = s, ![r].known = TRUE]
             \/ run' = [run EXCEPT ![r].at = stage, ![r].seen = s, ![r].instance = 0]
      PROVE  Left
  BY <1>4, FieldsMove, Leaving DEF Inv
<1>5. {"holding", "latest", "fencing", "proved", "starting", "retrying", "marking", "consuming",
       "ending", "unstopped", "answering"} \subseteq RunStages \ {"looked"}
  BY DEF RunStages, Reserving
<1>6. {"reserved", "terminal"} \subseteq Statuses
  BY DEF Statuses
<1> HIDE DEF Left
<1>7. CASE RunOver(r) \/ RunAnswers(r)
  BY <1>2, <1>7 DEF RunOver, RunAnswers, Send, Left
<1>8. CASE RunHealth(r)
  BY <1>1, <1>8 DEF RunHealth, RunObjects
<1>9. CASE RunThrows(r) \/ RunStreamLost(r) \/ \E ok \in BOOLEAN : RunUnavailable(r, ok)
  BY <1>2, <1>9 DEF RunThrows, RunStreamLost, RunUnavailable, Left
<1>10. CASE RunLatest(r) \/ StartFails(r)
  BY <1>2, <1>3, <1>5, <1>10 DEF RunLatest, StartFails, Left
<1>11. CASE RunFenced(r) \/ RunFenceLost(r)
  BY <1>2, <1>3, <1>5, <1>11 DEF RunFenced, RunFenceLost, FenceOnly, answers, Left
<1>12. CASE StartAnswered(r)
  <2>1. ASSUME run' = [run EXCEPT ![r].at = "marking", ![r].seen = record[r].status] PROVE Left
    BY <1>1, <1>4, <1>5, <2>1
  <2>2. Throw(r) \/ At(r, "retrying") => Left
    BY <1>2, <1>3, <1>5
  <2>3. Left
    BY <1>12, <2>1, <2>2 DEF StartAnswered
  <2> QED BY <1>12, <2>3 DEF StartAnswered, answers, Left
<1>13. CASE RunEvent(r)
  <2>1. PICK stage \in {"ending", "unstopped"}, s \in Statuses :
             run' = [run EXCEPT ![r].at = stage, ![r].seen = s]
    BY <1>1, <1>6, <1>13 DEF RunEvent
  <2>2. Left
    BY <1>4, <1>5, <2>1
  <2> QED BY <1>13, <2>2 DEF RunEvent, Left
<1>14. CASE \E ok \in BOOLEAN : RunReserve(r, ok) \/ RunHolding(r, ok)
  <2>1. ASSUME NEW s \in Statuses,
               \/ run' = [run EXCEPT ![r].at = "holding", ![r].seen = s, ![r].known = TRUE]
               \/ run' = [run EXCEPT ![r].at = "latest", ![r].seen = s, ![r].instance = 0]
        PROVE  Left
    BY <1>4, <1>5, <2>1
  <2>2. Left
    BY <1>1, <1>2, <1>6, <1>14, <2>1 DEF RunReserve, RunHolding
  <2> QED BY <1>14, <2>2 DEF RunReserve, RunHolding, Left
<1>15. CASE \E ok \in BOOLEAN : \/ RunProved(r, ok) \/ RunMarks(r, ok) \/ RunEnds(r, ok)
                               \/ RunUnstopped(r, ok) \/ RunCaught(r, ok)
  <2>1. Left
    BY <1>2, <1>3, <1>5, <1>15 DEF RunProved, RunMarks, RunEnds, RunUnstopped, RunCaught
  <2> QED BY <1>15, <2>1 DEF RunProved, RunMarks, RunEnds, RunUnstopped, RunCaught, Left
<1> QED BY <1>7, <1>8, <1>9, <1>10, <1>11, <1>12, <1>13, <1>14, <1>15 DEF Proceeds, RunStep

(* What the steps of the others leave alone.                               *)
LEMMA Aside ==
    ASSUME Next, \A r \in Requests : ~Proceeds(r) /\ ~HandleWork(r)
    PROVE  UNCHANGED answers /\ (run' = run \/ run' = [r \in Requests |-> IdleRun])
<1>1. ASSUME NEW r \in Requests, CancelStep(r) \/ HandleCancel(r) PROVE UNCHANGED <<run, answers>>
  BY <1>1 DEF CancelStep, HandleCancel, CancelHealth, CancelPending, CancelFenced, CancelFenceLost, CancelReserve,
              CancelDecides, CancelProved, CancelOnly, FenceOnly
<1>2. CASE DisposeCall \/ DisposeStep
  BY <1>2 DEF DisposeStep, DisposeCall, DisposePending, DisposeFenced, DisposeFenceLost, DisposeReturns,
              DisposeProved, DisposeMarks, DisposeOnly, FenceOnly
<1>3. ASSUME NEW r \in Requests, Expire(r) \/ \E outcome \in {"ended", "unstopped"} : TaskEnds(r, outcome)
      PROVE  UNCHANGED <<run, answers>>
  BY <1>3 DEF Expire, TaskEnds
<1>4. CASE BridgeRestarts \/ ServiceRestarts
  BY <1>4 DEF BridgeRestarts, ServiceRestarts
<1> QED BY <1>1, <1>2, <1>3, <1>4 DEF Next, Proceeds

(* Only a run that looked and found no record declines.                    *)
LEMMA Declining ==
    ASSUME NEW r \in Requests, Proceeds(r)
    PROVE  declined' = declined \/ (declined' = declined \cup {r} /\ run[r].at = "looked" /\ ~run[r].known)
<1>1. CASE \E ok \in BOOLEAN : RunUnavailable(r, ok)
  BY <1>1 DEF RunUnavailable
<1>2. CASE RunFenced(r) \/ RunFenceLost(r) \/ StartAnswered(r)
  BY <1>2 DEF RunFenced, RunFenceLost, StartAnswered, FenceOnly, answers
<1>3. CASE RunThrows(r) \/ StartFails(r) \/ RunStreamLost(r)
  BY <1>3 DEF RunThrows, StartFails, RunStreamLost, RunOnly
<1>4. CASE RunOver(r) \/ RunHealth(r) \/ RunLatest(r) \/ RunEvent(r) \/ RunAnswers(r)
  BY <1>4 DEF RunOver, RunHealth, RunLatest, RunEvent, RunAnswers, RunOnly
<1>5. CASE \E ok \in BOOLEAN : \/ RunReserve(r, ok) \/ RunHolding(r, ok) \/ RunProved(r, ok)
                              \/ RunMarks(r, ok) \/ RunEnds(r, ok) \/ RunUnstopped(r, ok)
                              \/ RunCaught(r, ok)
  BY <1>5 DEF RunReserve, RunHolding, RunProved, RunMarks, RunEnds, RunUnstopped, RunCaught, RunOnly
<1> QED BY <1>1, <1>2, <1>3, <1>4, <1>5 DEF Proceeds, RunStep

LEMMA UnansweredNext ==
    ASSUME Inv, Unanswered, [Next]_vars
    PROVE  Unanswered'
<1>1. ASSUME NEW r \in Requests, Proceeds(r) PROVE Unanswered'
  BY <1>1, Proceeding DEF Unanswered
<1>2. ASSUME NEW r \in Requests, HandleWork(r) PROVE Unanswered'
  <2>1. run \in [Requests -> RunObjects] /\ sent' = sent /\ r \notin expired
    BY <1>2, TypeParts DEF HandleWork, Inv
  <2>2. \A q \in Requests \ {r} : run'[q] = run[q]
    BY <1>2, <2>1 DEF HandleWork
  <2>3. run'[r].known = (record[r].status # "none")
    BY <1>2, <2>1 DEF HandleWork, IdleRun
  <2>4. r \in sent => record[r].status # "none"
    BY <2>1 DEF Inv, Records, RecordSound, Answered, Existed
  <2> QED BY <2>1, <2>2, <2>3, <2>4 DEF Unanswered
<1>3. CASE Next /\ \A r \in Requests : ~Proceeds(r) /\ ~HandleWork(r)
  BY <1>3, Aside DEF Unanswered, answers, IdleRun
<1>4. CASE UNCHANGED vars
  BY <1>4 DEF vars, answers, Unanswered
<1> QED BY <1>1, <1>2, <1>3, <1>4

LEMMA NeverDeclinesLater ==
    ASSUME Unanswered, [Next]_vars, NEW r \in sent, r \in declined', sent \subseteq Requests
    PROVE  r \in declined
<1>1. ASSUME NEW q \in Requests, Proceeds(q) PROVE r \in declined
  BY <1>1, Declining DEF Unanswered
<1>2. ASSUME NEW q \in Requests, HandleWork(q) PROVE r \in declined
  BY <1>2 DEF HandleWork, RunOnly
<1>3. CASE Next /\ \A q \in Requests : ~Proceeds(q) /\ ~HandleWork(q)
  BY <1>3, Aside DEF answers
<1>4. CASE UNCHANGED vars
  BY <1>4 DEF vars, answers
<1> QED BY <1>1, <1>2, <1>3, <1>4

(* #run stores a response before it sends it, and the error for a runtime  *)
(* that is not available, which it does not store, never follows one.      *)
THEOREM AnswerIsStoredHolds ==
    Spec => AnswerIsStored
<1>1. Inv => \A r \in sent : record[r].status # "none" => record[r].response
  BY DEF Inv, Records, RecordSound, TypeOK, Answered
<1>2. Init => Unanswered
  BY DEF Init, Unanswered
<1>3. Inv /\ Unanswered /\ [Next]_vars => [\A r \in sent : r \in declined' => r \in declined]_vars
  BY NeverDeclinesLater DEF Inv, TypeOK
<1> QED BY <1>1, <1>2, <1>3, UnansweredNext, InvHolds, PTL DEF Spec, AnswerIsStored
==============================================================================
