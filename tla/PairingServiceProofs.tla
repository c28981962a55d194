------------------------- MODULE PairingServiceProofs -------------------------
(***************************************************************************)
(* What the bindings of a provider, the pairing sessions and the mutation  *)
(* gate guarantee, for every set of runtimes, every number of sessions,    *)
(* calls, connection events and failing writes, and every set of retry     *)
(* requests.                                                               *)
(***************************************************************************)
EXTENDS PairingService, SequenceTheorems, TLAPS

-----------------------------------------------------------------------------
(* The values of the variables.                                            *)

Bindings == [enabled : BOOLEAN,
             registration : {"none", "offline", "online", "registering", "error", "unregistered"},
             token : Nat]

(* What a job of the user's mutations does, and any other.                 *)
UserOps == {"enable", "disable", "reregister"}

Jobs == [op : UserOps \cup {"mark"}, session : {0}] \cup [op : {"pair"}, session : Sessions]

Positions == [at : {"waiting", "saving", "pending", "remote", "committing", "restoring"}, previous : Bindings]

BindingTypes ==
    /\ binding \in [Runtimes -> Bindings]
    /\ jobs \in [Runtimes -> Seq(Jobs)]
    /\ work \in [Runtimes -> Positions]
    /\ claim \in SUBSET Runtimes
    /\ faults \in Nat

SessionTypes ==
    /\ state \in {"idle", "waiting", "processing", "partial", "completed", "cancelled", "expired"}
    /\ current \in {0} \cup Sessions
    /\ private \in BOOLEAN
    /\ ready \in SUBSET Runtimes

Statuses == {"none", "registering", "rejected", "failed", "bound"}
Candidates == [at : {"none", "enabling", "activating", "connecting", "verifying", "done"}, binding : Bindings]

CycleTypes ==
    /\ cycle \in [Sessions -> {"none", "polling", "registering", "over"}]
    /\ candidate \in [Sessions -> [Runtimes -> Candidates]]
    /\ results \in [Sessions -> [Runtimes -> Statuses]]
    /\ selected \in SUBSET Runtimes

WatchTypes ==
    /\ watch \in [session : {0} \cup Sessions, at : {"loop", "polling", "cycle", "acking"}, request : {0} \cup Requests]
    /\ consumed \in SUBSET Requests
    /\ retried \in [Requests -> Nat]

Mutations ==
    [op : UserOps, runtime : Runtimes, session : {0}]
    \cup [op : {"start", "cancel", "retry"}, runtime : {"any"}, session : {0}]
    \cup [op : {"activate", "verify"}, runtime : Runtimes, session : Sessions]

GateTypes ==
    /\ gate \in Seq(Mutations)
    /\ stage \in {"waiting", "binding", "reconciling", "cancelling", "cycle", "watch", "listing", "creating"}

BoundTypes ==
    /\ late \in SUBSET Sessions
    /\ created \in {0} \cup Sessions
    /\ calls \in Nat /\ marks \in Nat

(* Every variable has a value of its type.                                 *)
TypeOK == BindingTypes /\ SessionTypes /\ CycleTypes /\ WatchTypes /\ GateTypes /\ BoundTypes

-----------------------------------------------------------------------------
(* The inductive invariant.                                                *)

(* The runtime is bound, or its registration holds the provider's claim.   *)
Holds(r) == binding[r] # NoBinding \/ r \in claim

(* At most one runtime of the provider is.                                 *)
Exclusive == \A r, other \in Runtimes : Holds(r) /\ Holds(other) => r = other

(* A job under way is of a kind that has the stage, acts for a runtime     *)
(* that holds the provider, and, while it registers, has left alone what   *)
(* makes the binding work.                                                 *)
JobSound(r) ==
    work[r].at # "waiting" =>
        /\ jobs[r] # <<>>
        /\ work[r].at = "saving" => Job(r).op \in {"enable", "disable", "mark"}
        /\ work[r].at # "saving" =>
              /\ Job(r).op \in {"enable", "pair", "reregister"}
              /\ work[r].previous.enabled = binding[r].enabled
              /\ work[r].previous.token = binding[r].token
        /\ Holds(r)

(* A job of the user's is the only one of its kind, and the mutation that  *)
(* called it is waiting for it.                                            *)
UserJob(r, i) == i \in 1..Len(jobs[r]) /\ jobs[r][i].op \in UserOps

UserJobs ==
    \A r \in Runtimes, i \in Nat : UserJob(r, i) =>
        /\ stage = "binding"
        /\ \A other \in Runtimes, k \in Nat : UserJob(other, k) => other = r /\ k = i

(* Only a cancel() that waits for the server leaves a session that is not  *)
(* current; none is left when the next one is listed and created.          *)
SessionSound ==
    /\ stage # "waiting" => gate # <<>>
    /\ private /\ current = 0 => stage = "cancelling"
    /\ stage \in {"cycle", "watch", "listing", "creating"} => ~private
    /\ stage = "creating" => current # 0

(* A watch that is past its loop's head is some session's; a request that  *)
(* started a cycle has been consumed.                                      *)
WatchSound ==
    /\ watch.at # "loop" => watch.session # 0
    /\ \A q \in Requests : retried[q] <= 1 /\ (retried[q] # 0 => q \in consumed)

BindingInv == BindingTypes /\ Exclusive /\ \A r \in Runtimes : JobSound(r)
WatchInv == WatchTypes /\ WatchSound

Inv ==
    /\ BindingInv /\ UserJobs
    /\ SessionTypes /\ SessionSound
    /\ CycleTypes /\ WatchInv /\ GateTypes /\ BoundTypes

-----------------------------------------------------------------------------
(* Sequences: an append keeps what a queue holds, a departure shifts it.   *)

LEMMA Appended ==
    ASSUME NEW S, NEW s \in Seq(S), NEW e \in S
    PROVE  /\ Append(s, e) \in Seq(S) /\ Append(s, e) # <<>>
           /\ Len(Append(s, e)) = Len(s) + 1
           /\ s # <<>> => Head(Append(s, e)) = Head(s)
           /\ \A i \in 1..Len(s) : Append(s, e)[i] = s[i]
           /\ Append(s, e)[Len(s) + 1] = e
<1>1. /\ Append(s, e) \in Seq(S) /\ Len(Append(s, e)) = Len(s) + 1
      /\ \A i \in 1..Len(s) : Append(s, e)[i] = s[i]
      /\ Append(s, e)[Len(s) + 1] = e
  BY AppendProperties
<1>2. Len(s) \in Nat /\ Append(s, e) # <<>>
  BY <1>1, AppendProperties, LenProperties
<1>3. s # <<>> => 1 \in 1..Len(s) /\ Head(s) = s[1]
  BY <1>2, LenProperties, EmptySeq
<1>4. Head(Append(s, e)) = Append(s, e)[1]
  BY <1>1, <1>2
<1> QED BY <1>1, <1>2, <1>3, <1>4

LEMMA Departed ==
    ASSUME NEW S, NEW s \in Seq(S), s # <<>>
    PROVE  /\ Head(s) \in S /\ Tail(s) \in Seq(S)
           /\ Head(s) = s[1] /\ Len(s) \in Nat \ {0}
           /\ Len(Tail(s)) = Len(s) - 1
           /\ \A i \in 1..Len(Tail(s)) : i + 1 \in 1..Len(s) /\ Tail(s)[i] = s[i + 1]
  BY SMT

-----------------------------------------------------------------------------
(* The bindings.  Nothing of the pairing matters to them but the jobs that *)
(* it hands over.                                                          *)

JobHandedOver ==
    /\ \E S \in SUBSET Runtimes, j \in Jobs : jobs' = Enqueued(S, j.op, j.session)
    /\ UNCHANGED <<binding, work, claim, faults>>

JobMoves(r) == JobGoesOn(r) \/ JobSucceeds(r) \/ JobFails(r)

LEMMA NoBindingType == NoBinding \in Bindings
  BY DEF NoBinding, Bindings

LEMMA NoWorkType == NoWork \in Positions /\ NoWork.at = "waiting"
  BY NoBindingType DEF NoWork, Positions

LEMMA InitBinding == BindingInit => BindingInv
<1> SUFFICES ASSUME BindingInit PROVE BindingInv
  OBVIOUS
<1>1. PICK S \in {{}} \cup {{r} : r \in Runtimes}, on \in BOOLEAN :
          binding = [r \in Runtimes |-> IF r \in S THEN [enabled |-> on, registration |-> "offline", token |-> 1] ELSE NoBinding]
  BY DEF BindingInit
<1>2. [enabled |-> on, registration |-> "offline", token |-> 1] \in Bindings
  BY DEF Bindings
<1>3. binding \in [Runtimes -> Bindings]
  BY <1>1, <1>2, NoBindingType
<1>4. BindingTypes
  BY <1>3, NoWorkType, EmptySeq DEF BindingInit, BindingTypes
<1>5. Exclusive
  BY <1>1 DEF BindingInit, Exclusive, Holds
<1>6. \A r \in Runtimes : JobSound(r)
  BY NoWorkType DEF BindingInit, JobSound
<1> QED BY <1>4, <1>5, <1>6 DEF BindingInv

LEMMA SameBinding == BindingInv /\ UNCHANGED bindingVars => BindingInv'
  BY DEF BindingInv, BindingTypes, Exclusive, Holds, JobSound, Job, bindingVars

LEMMA HandOver == BindingInv /\ JobHandedOver => BindingInv'
<1> SUFFICES ASSUME BindingInv, JobHandedOver PROVE BindingInv'
  OBVIOUS
<1>1. PICK S \in SUBSET Runtimes, j \in Jobs : jobs' = Enqueued(S, j.op, j.session)
  BY DEF JobHandedOver
<1>2. [op |-> j.op, session |-> j.session] \in Jobs
  BY DEF Jobs
<1>3. jobs \in [Runtimes -> Seq(Jobs)]
  BY DEF BindingInv, BindingTypes
<1>4. \A r \in Runtimes : jobs'[r] \in Seq(Jobs) /\ (jobs[r] # <<>> => jobs'[r] # <<>> /\ Head(jobs'[r]) = Head(jobs[r]))
  BY <1>1, <1>2, <1>3, Appended DEF Enqueued
<1>5. jobs' \in [Runtimes -> Seq(Jobs)]
  BY <1>1, <1>4 DEF Enqueued
<1>6. /\ binding' = binding /\ work' = work /\ claim' = claim /\ faults' = faults
  BY DEF JobHandedOver
<1>7. BindingTypes'
  BY <1>5, <1>6 DEF BindingInv, BindingTypes
<1>8. Exclusive'
  BY <1>6 DEF BindingInv, Exclusive, Holds
<1>9. \A r \in Runtimes : JobSound(r)'
  BY <1>4, <1>6 DEF BindingInv, JobSound, Job, Holds
<1> QED BY <1>7, <1>8, <1>9 DEF BindingInv

(* What a step of a runtime's job may do: it changes nothing of another    *)
(* runtime, lets its own hold the provider only if it did or if no other   *)
(* does, and ends a working binding only for disable.                      *)
OthersKept(r) ==
    \A other \in Runtimes \ {r} :
        /\ binding'[other] = binding[other] /\ work'[other] = work[other] /\ jobs'[other] = jobs[other]
        /\ other \in claim' <=> other \in claim

EndsOnlyDisabled(r) == Works(binding[r]) /\ ~Works(binding'[r]) => Job(r).op = "disable"

Moved(r) ==
    /\ BindingTypes' /\ OthersKept(r) /\ JobSound(r)' /\ EndsOnlyDisabled(r)
    /\ Holds(r)' => Holds(r) \/ ~Conflict(r)

LEMMA MovedSound ==
    ASSUME BindingInv, NEW r \in Runtimes, Moved(r)
    PROVE  BindingInv' /\ \A s \in Runtimes : EndsOnlyDisabled(s)
<1>1. \A s \in Runtimes \ {r} : Holds(s)' <=> Holds(s)
  BY DEF Moved, OthersKept, Holds
<1>2. \A s \in Runtimes \ {r} : JobSound(s)'
  BY <1>1 DEF Moved, OthersKept, BindingInv, JobSound, Job
<1>3. Exclusive'
  BY <1>1 DEF Moved, BindingInv, Exclusive, Holds, Conflict
<1>4. \A s \in Runtimes \ {r} : EndsOnlyDisabled(s)
  BY DEF Moved, OthersKept, EndsOnlyDisabled
<1> QED BY <1>2, <1>3, <1>4 DEF Moved, BindingInv

LEMMA SaveResult ==
    ASSUME BindingTypes, NEW r \in Runtimes, NEW new \in Bindings, NEW ok \in BOOLEAN, Save(r, new, ok)
    PROVE  /\ binding' \in [Runtimes -> Bindings] /\ faults' \in Nat
           /\ binding'[r] = IF ok THEN new ELSE binding[r]
           /\ \A other \in Runtimes \ {r} : binding'[other] = binding[other]
<1>0. binding \in [Runtimes -> Bindings] /\ faults \in Nat
  BY DEF BindingTypes
<1>1. CASE ok
  <2>1. binding' = [binding EXCEPT ![r] = new] /\ faults' = faults
    BY <1>1 DEF Save
  <2> QED BY <1>0, <1>1, <2>1
<1>2. CASE ~ok
  <2>1. binding' = binding /\ faults' = faults + 1
    BY <1>2 DEF Save
  <2> QED BY <1>0, <1>2, <2>1
<1> QED BY <1>1, <1>2

LEMMA GotoResult ==
    ASSUME BindingTypes, NEW r \in Runtimes, Goto(r, "remote") \/ Goto(r, "restoring") \/ Goto(r, "committing")
    PROVE  /\ work' \in [Runtimes -> Positions] /\ jobs' = jobs /\ claim' = claim
           /\ work'[r].previous = work[r].previous
           /\ work'[r].at \in {"remote", "restoring", "committing"}
           /\ \A other \in Runtimes \ {r} : work'[other] = work[other]
<1>1. PICK s \in {"remote", "restoring", "committing"} : Goto(r, s)
  OBVIOUS
<1>2. work \in [Runtimes -> Positions] /\ work[r] \in Positions
  BY DEF BindingTypes
<1> DEFINE p == [work[r] EXCEPT !.at = s]
<1>3. p \in Positions /\ p.at = s /\ p.previous = work[r].previous
  BY <1>2 DEF Positions
<1>4. work' = [work EXCEPT ![r] = p]
  BY <1>1, <1>2 DEF Goto
<1> HIDE DEF p
<1>5. work' \in [Runtimes -> Positions] /\ work'[r] = p /\ \A other \in Runtimes \ {r} : work'[other] = work[other]
  BY <1>2, <1>3, <1>4
<1> QED BY <1>1, <1>3, <1>5 DEF Goto

LEMMA DoneResult ==
    ASSUME BindingTypes, NEW r \in Runtimes, jobs[r] # <<>>, Done(r)
    PROVE  /\ work' \in [Runtimes -> Positions] /\ jobs' \in [Runtimes -> Seq(Jobs)] /\ claim' \in SUBSET Runtimes
           /\ work'[r].at = "waiting" /\ r \notin claim'
           /\ \A other \in Runtimes \ {r} : /\ work'[other] = work[other] /\ jobs'[other] = jobs[other]
                                            /\ other \in claim' <=> other \in claim
  BY NoWorkType, Departed DEF BindingTypes, Done

LEMMA BeginResult ==
    ASSUME BindingTypes, NEW r \in Runtimes, NEW s \in {"pending", "saving"}, Begin(r, s)
    PROVE  /\ work' \in [Runtimes -> Positions] /\ jobs' = jobs /\ binding' = binding /\ faults' = faults
           /\ work'[r].previous = binding[r] /\ work'[r].at = s
           /\ \A other \in Runtimes \ {r} : work'[other] = work[other]
<1> DEFINE p == [at |-> s, previous |-> binding[r]]
<1>1. p \in Positions /\ p.at = s /\ p.previous = binding[r]
  BY DEF BindingTypes, Positions
<1>2. work' = [work EXCEPT ![r] = p]
  BY DEF Begin
<1> HIDE DEF p
<1> QED BY <1>1, <1>2 DEF BindingTypes, Begin

(* What a job writes is a binding.                                         *)
LEMMA WriteTypes ==
    ASSUME BindingTypes, NEW r \in Runtimes
    PROVE  /\ binding[r] \in Bindings /\ work[r].previous \in Bindings
           /\ LET p == [work[r].previous EXCEPT !.registration = "registering"]
              IN  p \in Bindings /\ p # NoBinding /\ p.enabled = work[r].previous.enabled /\ p.token = work[r].previous.token
           /\ Failed(r) \in Bindings /\ Failed(r) # NoBinding
           /\ Complete(work[r].previous) => Failed(r) = work[r].previous
<1>1. binding[r] \in Bindings /\ work[r].previous \in Bindings
  BY DEF BindingTypes, Positions
<1> DEFINE p == [work[r].previous EXCEPT !.registration = "registering"]
           e == [work[r].previous EXCEPT !.enabled = FALSE, !.registration = "error"]
<1>2. p \in Bindings /\ p.registration = "registering" /\ p.enabled = work[r].previous.enabled /\ p.token = work[r].previous.token
  BY <1>1 DEF Bindings
<1>3. e \in Bindings /\ e.registration = "error"
  BY <1>1 DEF Bindings
<1>4. NoBinding.registration = "none" /\ NoBinding.token = 0
  BY DEF NoBinding
<1>5. Failed(r) = IF Complete(work[r].previous) THEN work[r].previous ELSE e
  BY DEF Failed
<1> HIDE DEF p, e
<1>6. p # NoBinding
  BY <1>2, <1>4
<1>7. Failed(r) \in Bindings /\ Failed(r) # NoBinding
  BY <1>1, <1>3, <1>4, <1>5 DEF Complete
<1> QED BY <1>1, <1>2, <1>5, <1>6, <1>7 DEF p

LEMMA SavedTypes ==
    ASSUME BindingTypes, NEW r \in Runtimes, Job(r).op \in {"enable", "disable", "mark"}
    PROVE  /\ Saved(r) \in Bindings /\ Saved(r) # NoBinding
           /\ Job(r).op # "disable" => (Works(binding[r]) => Works(Saved(r)))
<1>1. binding[r] \in Bindings
  BY DEF BindingTypes
<1>2. NoBinding.registration = "none"
  BY DEF NoBinding
<1>3. CASE Job(r).op = "enable"
  <2> DEFINE x == [binding[r] EXCEPT !.enabled = TRUE, !.registration = "offline"]
  <2>1. Saved(r) = x
    BY <1>3 DEF Saved
  <2>2. x \in Bindings /\ x.enabled = TRUE /\ x.registration = "offline" /\ x.token = binding[r].token
    BY <1>1 DEF Bindings
  <2> HIDE DEF x
  <2> QED BY <1>2, <2>1, <2>2 DEF Works
<1>4. CASE Job(r).op = "disable"
  <2> DEFINE x == [binding[r] EXCEPT !.enabled = FALSE,
                                     !.registration = IF Complete(binding[r]) THEN "offline" ELSE "unregistered"]
  <2>1. Saved(r) = x
    BY <1>4 DEF Saved
  <2>2. x \in Bindings /\ x.registration \in {"offline", "unregistered"}
    BY <1>1 DEF Bindings
  <2> HIDE DEF x
  <2> QED BY <1>2, <1>4, <2>1, <2>2
<1>5. CASE Job(r).op = "mark"
  <2> DEFINE x == [binding[r] EXCEPT !.registration = IF @ = "online" THEN "offline" ELSE "online"]
  <2>1. Saved(r) = x
    BY <1>5 DEF Saved
  <2>2. x \in Bindings /\ x.registration \in {"offline", "online"} /\ x.token = binding[r].token /\ x.enabled = binding[r].enabled
    BY <1>1 DEF Bindings
  <2> HIDE DEF x
  <2> QED BY <1>2, <2>1, <2>2 DEF Works
<1> QED BY <1>3, <1>4, <1>5

(* Each step of a job.                                                     *)

LEMMA BeginMoves ==
    ASSUME BindingInv, NEW r \in Runtimes, jobs[r] # <<>>,
           (\E s \in {"pending", "saving"} : BeginEnable(r, s)) \/ BeginReregister(r) \/ BeginSave(r)
    PROVE  Moved(r)
<1>1. PICK s \in {"pending", "saving"} : Begin(r, s)
  BY DEF BeginEnable, BeginReregister, BeginSave
<1>2. /\ work' \in [Runtimes -> Positions] /\ jobs' = jobs /\ binding' = binding /\ faults' = faults
      /\ work'[r].previous = binding[r] /\ work'[r].at = s
      /\ \A other \in Runtimes \ {r} : work'[other] = work[other]
  BY <1>1, BeginResult DEF BindingInv
<1>3. claim' \in SUBSET Runtimes /\ claim' \ {r} = claim \ {r}
  BY DEF BindingInv, BindingTypes, BeginEnable, BeginReregister, BeginSave
<1>4. BindingTypes' /\ OthersKept(r) /\ EndsOnlyDisabled(r)
  BY <1>2, <1>3 DEF BindingInv, BindingTypes, OthersKept, EndsOnlyDisabled
<1>5. NoBinding.registration = "none" /\ NoBinding.token = 0
  BY DEF NoBinding
<1>6. CASE \E a \in {"pending", "saving"} : BeginEnable(r, a)
  <2>1. PICK a \in {"pending", "saving"} : BeginEnable(r, a)
    BY <1>6
  <2>2. /\ work'[r].at = a /\ r \in claim' /\ ~Conflict(r) /\ Job(r).op \in {"enable", "pair"}
        /\ a = "saving" => Job(r).op = "enable"
    BY <2>1, BeginResult DEF BeginEnable, BindingInv
  <2>3. JobSound(r)'
    BY <1>2, <2>2 DEF JobSound, Job, Holds
  <2> QED BY <1>4, <2>2, <2>3 DEF Moved
<1>7. CASE BeginReregister(r)
  <2>1. claim' = claim /\ work'[r].at = "pending" /\ Job(r).op = "reregister" /\ binding[r] # NoBinding
    BY <1>5, <1>7, BeginResult DEF BeginReregister, Complete, BindingInv
  <2> QED BY <1>2, <1>4, <2>1 DEF Moved, JobSound, Job, Holds
<1>8. CASE BeginSave(r)
  <2>1. claim' = claim /\ work'[r].at = "saving" /\ Job(r).op \in {"disable", "mark"} /\ binding[r] # NoBinding
    BY <1>5, <1>8, BeginResult DEF BeginSave, BindingInv
  <2> QED BY <1>2, <1>4, <2>1 DEF Moved, JobSound, Job, Holds
<1> QED BY <1>6, <1>7, <1>8

LEMMA EndMoves ==
    ASSUME BindingInv, NEW r \in Runtimes, jobs[r] # <<>>, Done(r), UNCHANGED <<binding, faults>>
    PROVE  Moved(r)
<1>1. /\ work' \in [Runtimes -> Positions] /\ jobs' \in [Runtimes -> Seq(Jobs)] /\ claim' \in SUBSET Runtimes
      /\ work'[r].at = "waiting" /\ r \notin claim'
      /\ \A other \in Runtimes \ {r} : /\ work'[other] = work[other] /\ jobs'[other] = jobs[other]
                                       /\ other \in claim' <=> other \in claim
  BY DoneResult DEF BindingInv
<1> QED BY <1>1 DEF Moved, BindingInv, BindingTypes, OthersKept, EndsOnlyDisabled, JobSound, Holds

(* A job that ends with a write, of which it is known what it writes.      *)
LEMMA WriteEnds ==
    ASSUME BindingInv, NEW r \in Runtimes, work[r].at # "waiting", NEW new \in Bindings, NEW ok \in BOOLEAN,
           Save(r, new, ok), Done(r),
           Works(binding[r]) /\ ~Works(new) => Job(r).op = "disable"
    PROVE  Moved(r)
<1>1. jobs[r] # <<>> /\ Holds(r)
  BY DEF BindingInv, JobSound
<1>2. /\ work' \in [Runtimes -> Positions] /\ jobs' \in [Runtimes -> Seq(Jobs)] /\ claim' \in SUBSET Runtimes
      /\ work'[r].at = "waiting" /\ r \notin claim'
      /\ \A other \in Runtimes \ {r} : /\ work'[other] = work[other] /\ jobs'[other] = jobs[other]
                                       /\ other \in claim' <=> other \in claim
  BY <1>1, DoneResult DEF BindingInv
<1>3. /\ binding' \in [Runtimes -> Bindings] /\ faults' \in Nat
      /\ binding'[r] = IF ok THEN new ELSE binding[r]
      /\ \A other \in Runtimes \ {r} : binding'[other] = binding[other]
  BY SaveResult DEF BindingInv
<1>4. binding'[r] = new \/ binding'[r] = binding[r]
  BY <1>3
<1>5. BindingTypes' /\ OthersKept(r) /\ JobSound(r)'
  BY <1>2, <1>3 DEF BindingTypes, OthersKept, JobSound
<1>6. EndsOnlyDisabled(r)
  BY <1>4 DEF EndsOnlyDisabled
<1> QED BY <1>1, <1>5, <1>6 DEF Moved

LEMMA SaveMoves ==
    ASSUME BindingInv, NEW r \in Runtimes, NEW ok \in BOOLEAN, SaveEnds(r, ok)
    PROVE  Moved(r)
<1>1. work[r].at = "saving" /\ Save(r, Saved(r), ok) /\ Done(r)
  BY DEF SaveEnds
<1>2. Job(r).op \in {"enable", "disable", "mark"}
  BY <1>1 DEF BindingInv, JobSound
<1> QED BY <1>1, <1>2, SavedTypes, WriteEnds DEF BindingInv

LEMMA CommitMoves ==
    ASSUME BindingInv, NEW r \in Runtimes, Committed(r)
    PROVE  Moved(r)
<1> DEFINE on == Job(r).op # "reregister" \/ work[r].previous.enabled
           new == [enabled |-> on, registration |-> "offline", token |-> binding[r].token + 1]
<1>1. work[r].at = "committing" /\ Save(r, new, TRUE) /\ Done(r)
  BY DEF Committed
<1>2. binding[r] \in Bindings /\ binding[r].token \in Nat
  BY WriteTypes DEF BindingInv, Bindings
<1>3. on \in BOOLEAN
  OBVIOUS
<1>4. Works(binding[r]) => on
  BY <1>1 DEF BindingInv, JobSound, Works
<1> HIDE DEF on
<1>5. new \in Bindings /\ new.enabled = on /\ new.token = binding[r].token + 1
  BY <1>2, <1>3 DEF Bindings
<1> HIDE DEF new
<1>6. Works(binding[r]) => Works(new)
  BY <1>2, <1>4, <1>5 DEF Works
<1> QED BY <1>1, <1>5, <1>6, WriteEnds

LEMMA RestoreMoves ==
    ASSUME BindingInv, NEW r \in Runtimes, NEW ok \in BOOLEAN, Restored(r, ok)
    PROVE  Moved(r)
<1>1. work[r].at = "restoring" /\ Save(r, Failed(r), ok) /\ Done(r)
  BY DEF Restored
<1>2. Failed(r) \in Bindings /\ (Complete(work[r].previous) => Failed(r) = work[r].previous)
  BY WriteTypes DEF BindingInv
<1>3. work[r].previous.enabled = binding[r].enabled /\ work[r].previous.token = binding[r].token
  BY <1>1 DEF BindingInv, JobSound
<1>4. Works(binding[r]) => Works(Failed(r))
  BY <1>2, <1>3 DEF Works, Complete
<1> QED BY <1>1, <1>2, <1>4, WriteEnds

(* A registration goes from one request or write to the next.              *)
LEMMA GoesOnMoves ==
    ASSUME BindingInv, NEW r \in Runtimes,
           (\E ok \in BOOLEAN : PendingSaved(r, ok) \/ RemoteAnswers(r, ok)) \/ CommitFails(r)
    PROVE  Moved(r)
<1>1. work[r].at \in {"pending", "remote", "committing"}
  BY DEF PendingSaved, RemoteAnswers, CommitFails
<1>2. /\ jobs[r] # <<>> /\ Holds(r) /\ Job(r).op \in {"enable", "pair", "reregister"}
      /\ work[r].previous.enabled = binding[r].enabled /\ work[r].previous.token = binding[r].token
  BY <1>1 DEF BindingInv, JobSound
<1>3. Goto(r, "remote") \/ Goto(r, "restoring") \/ Goto(r, "committing")
  BY DEF PendingSaved, RemoteAnswers, CommitFails
<1>4. /\ work' \in [Runtimes -> Positions] /\ jobs' = jobs /\ claim' = claim
      /\ work'[r].previous = work[r].previous
      /\ work'[r].at \in {"remote", "restoring", "committing"}
      /\ \A other \in Runtimes \ {r} : work'[other] = work[other]
  BY <1>3, GotoResult DEF BindingInv
<1>5. /\ binding' \in [Runtimes -> Bindings] /\ faults' \in Nat
      /\ binding'[r].enabled = binding[r].enabled /\ binding'[r].token = binding[r].token
      /\ binding[r] # NoBinding => binding'[r] # NoBinding
      /\ \A other \in Runtimes \ {r} : binding'[other] = binding[other]
  <2>1. CASE \E ok \in BOOLEAN : PendingSaved(r, ok)
    <3>1. PICK ok \in BOOLEAN : Save(r, [work[r].previous EXCEPT !.registration = "registering"], ok)
      BY <2>1 DEF PendingSaved
    <3> DEFINE p == [work[r].previous EXCEPT !.registration = "registering"]
    <3>2. p \in Bindings /\ p # NoBinding /\ p.enabled = work[r].previous.enabled /\ p.token = work[r].previous.token
      BY WriteTypes DEF BindingInv
    <3>3. Save(r, p, ok)
      BY <3>1
    <3> HIDE DEF p
    <3>4. /\ binding' \in [Runtimes -> Bindings] /\ faults' \in Nat
          /\ binding'[r] = IF ok THEN p ELSE binding[r]
          /\ \A other \in Runtimes \ {r} : binding'[other] = binding[other]
      BY <3>2, <3>3, SaveResult DEF BindingInv
    <3>5. binding'[r] = p \/ binding'[r] = binding[r]
      BY <3>4
    <3> QED BY <1>2, <3>2, <3>4, <3>5
  <2>2. CASE \E ok \in BOOLEAN : RemoteAnswers(r, ok)
    BY <2>2 DEF RemoteAnswers, BindingInv, BindingTypes
  <2>3. CASE CommitFails(r)
    BY <2>3 DEF CommitFails, Save, BindingInv, BindingTypes
  <2> QED BY <2>1, <2>2, <2>3
<1>6. Holds(r)'
  BY <1>2, <1>4, <1>5 DEF Holds
<1>7. JobSound(r)'
  BY <1>2, <1>4, <1>5, <1>6 DEF JobSound, Job
<1>8. BindingTypes' /\ OthersKept(r) /\ EndsOnlyDisabled(r)
  BY <1>4, <1>5 DEF BindingInv, BindingTypes, OthersKept, EndsOnlyDisabled, Works
<1> QED BY <1>2, <1>7, <1>8 DEF Moved

LEMMA JobMovesSound ==
    ASSUME BindingInv, NEW r \in Runtimes, JobMoves(r)
    PROVE  BindingInv' /\ \A s \in Runtimes : EndsOnlyDisabled(s)
<1>0. jobs[r] # <<>>
  BY DEF JobMoves, JobGoesOn, JobSucceeds, JobFails
<1>1. CASE JobGoesOn(r)
  BY <1>0, <1>1, BeginMoves, GoesOnMoves, MovedSound DEF JobGoesOn
<1>2. CASE JobSucceeds(r)
  <2>1. CASE BeginEnabled(r) \/ BeginNothing(r)
    BY <1>0, <2>1, EndMoves, MovedSound DEF BeginEnabled, BeginNothing
  <2>2. CASE SaveEnds(r, TRUE) \/ Committed(r)
    BY <2>2, SaveMoves, CommitMoves, MovedSound
  <2> QED BY <1>2, <2>1, <2>2 DEF JobSucceeds
<1>3. CASE JobFails(r)
  <2>1. CASE BeginRefused(r)
    BY <1>0, <2>1, EndMoves, MovedSound DEF BeginRefused
  <2>2. CASE SaveEnds(r, FALSE) \/ \E ok \in BOOLEAN : Restored(r, ok)
    BY <2>2, SaveMoves, RestoreMoves, MovedSound
  <2> QED BY <1>3, <2>1, <2>2 DEF JobFails
<1> QED BY <1>1, <1>2, <1>3 DEF JobMoves

-----------------------------------------------------------------------------
(* The sessions, the cycles, the watch and the gate.                       *)

BindingStep == UNCHANGED bindingVars \/ JobHandedOver \/ \E r \in Runtimes : JobMoves(r)

LEMMA BindingStepSound ==
    ASSUME BindingInv, BindingStep
    PROVE  BindingInv' /\ \A s \in Runtimes : EndsOnlyDisabled(s)
<1>1. CASE UNCHANGED bindingVars
  BY <1>1, SameBinding DEF bindingVars, EndsOnlyDisabled
<1>2. CASE JobHandedOver
  BY <1>2, HandOver DEF JobHandedOver, EndsOnlyDisabled
<1>3. CASE \E r \in Runtimes : JobMoves(r)
  BY <1>3, JobMovesSound
<1> QED BY <1>1, <1>2, <1>3 DEF BindingStep

(* What every step guarantees.                                             *)
Silent == current = 0 => state' = state

BoundServes ==
    \A g \in Sessions, r \in Runtimes : results'[g][r] = "bound" /\ results[g][r] # "bound" => Works(binding[r])

Kept ==
    /\ BindingStep /\ UserJobs'
    /\ SessionTypes' /\ SessionSound' /\ Silent
    /\ CycleTypes' /\ BoundServes
    /\ WatchInv' /\ GateTypes' /\ BoundTypes'

(* What a step leaves alone stays sound.                                   *)
LEMMA Frames ==
    ASSUME Inv
    PROVE  /\ UNCHANGED bindingVars => BindingStep
           /\ UNCHANGED bindingVars /\ (stage' = stage \/ stage # "binding") => UserJobs'
           /\ UNCHANGED sessionVars => SessionTypes' /\ Silent
           /\ UNCHANGED cycleVars => CycleTypes' /\ BoundServes
           /\ UNCHANGED watchVars => WatchInv'
           /\ UNCHANGED gateVars => GateTypes'
           /\ UNCHANGED bounds => BoundTypes'
           /\ UNCHANGED sessionVars /\ UNCHANGED gateVars => SessionSound'
<1>1. UNCHANGED bindingVars /\ (stage' = stage \/ stage # "binding") => UserJobs'
  BY DEF Inv, UserJobs, UserJob, bindingVars
<1>2. UNCHANGED sessionVars => SessionTypes' /\ Silent
  BY DEF Inv, SessionTypes, sessionVars, Silent
<1>3. UNCHANGED cycleVars => CycleTypes' /\ BoundServes
  BY DEF Inv, CycleTypes, cycleVars, BoundServes
<1>4. UNCHANGED watchVars => WatchInv'
  BY DEF Inv, WatchInv, WatchTypes, WatchSound, watchVars
<1>5. UNCHANGED gateVars => GateTypes'
  BY DEF Inv, GateTypes, gateVars
<1>6. UNCHANGED bounds => BoundTypes'
  BY DEF Inv, BoundTypes, bounds
<1>7. UNCHANGED sessionVars /\ UNCHANGED gateVars => SessionSound'
  BY DEF Inv, SessionSound, sessionVars, gateVars
<1> QED BY <1>1, <1>2, <1>3, <1>4, <1>5, <1>6, <1>7 DEF BindingStep

(* Jobs that are not the user's come and go without touching the user's.   *)
LEMMA HandedUserJobs ==
    ASSUME BindingTypes, UserJobs, stage' = stage, NEW S \in SUBSET Runtimes, NEW j \in Jobs, j.op \notin UserOps,
           jobs' = Enqueued(S, j.op, j.session)
    PROVE  UserJobs'
<1> DEFINE e == [op |-> j.op, session |-> j.session]
<1>0. e \in Jobs /\ e.op = j.op
  BY DEF Jobs
<1>1. jobs \in [Runtimes -> Seq(Jobs)]
  BY DEF BindingTypes
<1>2. \A r \in Runtimes : jobs'[r] = IF r \in S THEN Append(jobs[r], e) ELSE jobs[r]
  BY DEF Enqueued
<1> HIDE DEF e
<1>3. ASSUME NEW r \in Runtimes, NEW i \in Nat, UserJob(r, i)'
      PROVE  UserJob(r, i)
  <2>1. i \in 1..Len(jobs'[r]) /\ jobs'[r][i].op \in UserOps
    BY <1>3 DEF UserJob
  <2>2. jobs[r] \in Seq(Jobs) /\ Len(jobs[r]) \in Nat
    BY <1>1, LenProperties
  <2>3. CASE r \in S
    <3>1. jobs'[r] = Append(jobs[r], e)
      BY <1>2, <2>3
    <3>2. /\ Len(jobs'[r]) = Len(jobs[r]) + 1 /\ jobs'[r][Len(jobs[r]) + 1] = e
          /\ \A k \in 1..Len(jobs[r]) : jobs'[r][k] = jobs[r][k]
      BY <1>0, <2>2, <3>1, Appended
    <3>3. i # Len(jobs[r]) + 1
      BY <1>0, <2>1, <3>2
    <3>4. i \in 1..Len(jobs[r])
      BY <2>1, <2>2, <3>2, <3>3
    <3> QED BY <2>1, <3>2, <3>4 DEF UserJob
  <2>4. CASE r \notin S
    BY <1>2, <2>1, <2>4 DEF UserJob
  <2> QED BY <2>3, <2>4
<1> QED BY <1>3 DEF UserJobs

LEMMA CalledUserJobs ==
    ASSUME BindingTypes, UserJobs, stage # "binding", stage' = "binding", NEW s \in Runtimes, NEW op \in UserOps,
           jobs' = Enqueued({s}, op, 0)
    PROVE  UserJobs'
<1> DEFINE e == [op |-> op, session |-> 0]
<1>0. e \in Jobs
  BY DEF Jobs
<1>1. jobs \in [Runtimes -> Seq(Jobs)]
  BY DEF BindingTypes
<1>2. \A r \in Runtimes : jobs'[r] = IF r = s THEN Append(jobs[r], e) ELSE jobs[r]
  BY DEF Enqueued
<1> HIDE DEF e
<1>3. ASSUME NEW r \in Runtimes, NEW i \in Nat, UserJob(r, i)'
      PROVE  r = s /\ i = Len(jobs[s]) + 1
  <2>1. i \in 1..Len(jobs'[r]) /\ jobs'[r][i].op \in UserOps
    BY <1>3 DEF UserJob
  <2>2. jobs[r] \in Seq(Jobs) /\ Len(jobs[r]) \in Nat
    BY <1>1, LenProperties
  <2>3. ~UserJob(r, i)
    BY DEF UserJobs
  <2>4. r = s
    BY <1>2, <2>1, <2>3 DEF UserJob
  <2>5. /\ Len(jobs'[r]) = Len(jobs[r]) + 1
        /\ \A k \in 1..Len(jobs[r]) : jobs'[r][k] = jobs[r][k]
    <3>1. jobs'[r] = Append(jobs[r], e)
      BY <1>2, <2>4
    <3>2. /\ Len(Append(jobs[r], e)) = Len(jobs[r]) + 1
          /\ \A k \in 1..Len(jobs[r]) : Append(jobs[r], e)[k] = jobs[r][k]
      BY <1>0, <2>2, Appended
    <3> QED BY <3>1, <3>2
  <2>6. i \notin 1..Len(jobs[r])
    BY <2>1, <2>3, <2>5 DEF UserJob
  <2> QED BY <2>1, <2>2, <2>4, <2>5, <2>6
<1> QED BY <1>3 DEF UserJobs

(* A job of the user's that ends was the only one.                         *)
LEMMA EndedUserJobs ==
    ASSUME BindingTypes, UserJobs, NEW s \in Runtimes, jobs[s] # <<>>,
           jobs' = [jobs EXCEPT ![s] = Tail(@)],
           Job(s).op \in UserOps \/ stage' = stage
    PROVE  UserJobs'
<1>1. jobs \in [Runtimes -> Seq(Jobs)]
  BY DEF BindingTypes
<1> DEFINE past(r, i) == IF r = s THEN i + 1 ELSE i
<1>2. Job(s).op \in UserOps => UserJob(s, 1)
  BY <1>1, Departed DEF UserJob, Job
<1>3. ASSUME NEW r \in Runtimes, NEW i \in Nat, UserJob(r, i)'
      PROVE  UserJob(r, past(r, i)) /\ past(r, i) \in Nat /\ (r = s => past(r, i) # 1)
  <2>1. i \in 1..Len(jobs'[r]) /\ jobs'[r][i].op \in UserOps
    BY <1>3 DEF UserJob
  <2>2. CASE r = s
    <3>1. jobs'[s] = Tail(jobs[s])
      BY <1>1
    <3>2. i + 1 \in 1..Len(jobs[s]) /\ jobs'[s][i] = jobs[s][i + 1]
      BY <1>1, <2>1, <2>2, <3>1, Departed
    <3>3. i + 1 \in Nat /\ i + 1 # 1
      BY <2>1
    <3> QED BY <2>1, <2>2, <3>2, <3>3 DEF UserJob
  <2>3. CASE r # s
    BY <1>1, <2>1, <2>3 DEF UserJob
  <2> QED BY <2>2, <2>3
<1>4. CASE Job(s).op \in UserOps
  <2>1. ASSUME NEW r \in Runtimes, NEW i \in Nat, UserJob(r, i)' PROVE FALSE
    BY <1>2, <1>3, <1>4, <2>1 DEF UserJobs
  <2> QED BY <2>1 DEF UserJobs
<1>5. CASE stage' = stage
  <2> SUFFICES ASSUME NEW r \in Runtimes, NEW i \in Nat, UserJob(r, i)'
               PROVE  /\ stage' = "binding"
                      /\ \A other \in Runtimes, k \in Nat : UserJob(other, k)' => other = r /\ k = i
    BY DEF UserJobs
  <2>1. stage' = "binding"
    BY <1>3, <1>5 DEF UserJobs
  <2>2. ASSUME NEW other \in Runtimes, NEW k \in Nat, UserJob(other, k)' PROVE other = r /\ k = i
    <3>1. other = r /\ past(other, k) = past(r, i)
      BY <1>3, <2>2 DEF UserJobs
    <3> QED BY <3>1
  <2> QED BY <2>1, <2>2
<1> QED BY <1>4, <1>5

(* The gate.                                                               *)
LEMMA RunningTypes ==
    ASSUME Inv, gate # <<>>
    PROVE  /\ Running \in Mutations
           /\ Running.op \in UserOps => Running.runtime \in Runtimes
           /\ Running.op \in {"activate", "verify"} => Running.runtime \in Runtimes /\ Running.session \in Sessions
<1>1. Running \in Mutations
  BY Departed DEF Inv, GateTypes, Running
<1> QED BY <1>1 DEF Mutations, UserOps

LEMMA LeaveTypes ==
    ASSUME Inv, gate # <<>>, Leave
    PROVE  GateTypes' /\ stage' = "waiting"
  BY Departed DEF Inv, GateTypes, Leave

LEMMA ProceedTypes ==
    ASSUME Inv, NEW at \in {"waiting", "binding", "reconciling", "cancelling", "cycle", "watch", "listing", "creating"},
           Proceed(at)
    PROVE  GateTypes' /\ stage' = at /\ gate' = gate
  BY DEF Inv, GateTypes, Proceed

LEMMA CallKept ==
    ASSUME Inv, NEW m \in Mutations, Call(m)
    PROVE  Kept
<1>1. GateTypes' /\ gate' # <<>> /\ stage' = stage
  BY Appended DEF Inv, GateTypes, Call
<1>2. BoundTypes'
  BY DEF Inv, BoundTypes, Call
<1>3. SessionSound'
  BY <1>1 DEF Inv, SessionSound, Call, sessionVars
<1> QED BY <1>1, <1>2, <1>3, Frames DEF Call, Kept

(* The gate moves, and nothing else but the session.                       *)
LEMMA GateOnlyKept ==
    ASSUME Inv, gate # <<>>,
           Reconciled \/ CancelNothing \/ CycleAwaited \/ ListFails
    PROVE  Kept
<1>0. UNCHANGED <<bindingVars, sessionVars, cycleVars, watchVars, bounds>>
  BY DEF Reconciled, CancelNothing, CycleAwaited, ListFails
<1>1. /\ Leave \/ Proceed("listing")
      /\ Proceed("listing") => ~private
      /\ stage # "binding" /\ stage # "cancelling"
  <2>1. CASE Reconciled
    BY <2>1, LeaveTypes DEF Reconciled, Proceed
  <2>2. CASE CancelNothing
    BY <2>2 DEF CancelNothing
  <2>3. CASE CycleAwaited
    BY <2>3 DEF CycleAwaited, Inv, SessionSound
  <2>4. CASE ListFails
    BY <2>4, LeaveTypes DEF ListFails, Proceed
  <2> QED BY <2>1, <2>2, <2>3, <2>4
<1>2. GateTypes' /\ (stage' = "waiting" \/ (stage' = "listing" /\ gate' = gate /\ ~private))
  BY <1>1, LeaveTypes, ProceedTypes
<1>3. SessionSound'
  BY <1>0, <1>1, <1>2 DEF Inv, SessionSound, sessionVars
<1> QED BY <1>0, <1>1, <1>2, <1>3, Frames DEF Kept

LEMMA MutateBindingKept == Inv /\ gate # <<>> /\ MutateBinding => Kept
<1> SUFFICES ASSUME Inv, gate # <<>>, MutateBinding PROVE Kept
  OBVIOUS
<1>1. Running.op \in UserOps /\ Running.runtime \in Runtimes
  BY RunningTypes DEF MutateBinding, UserOps
<1>2. GateTypes' /\ stage' = "binding" /\ gate' = gate /\ stage = "waiting"
  BY ProceedTypes DEF MutateBinding
<1>3. UserJobs'
  BY <1>1, <1>2, CalledUserJobs DEF MutateBinding, Inv, BindingInv
<1>4. JobHandedOver
  <2> DEFINE j == [op |-> Running.op, session |-> 0]
  <2>1. j \in Jobs /\ j.op = Running.op /\ j.session = 0
    BY <1>1 DEF Jobs
  <2>2. jobs' = Enqueued({Running.runtime}, j.op, j.session)
    BY <2>1 DEF MutateBinding
  <2> QED BY <1>1, <2>1, <2>2 DEF MutateBinding, JobHandedOver
<1>5. SessionSound'
  BY <1>2 DEF Inv, SessionSound, MutateBinding, sessionVars
<1> QED BY <1>2, <1>3, <1>4, <1>5, Frames DEF Kept, BindingStep, MutateBinding

LEMMA CancelKept == Inv /\ gate # <<>> /\ Cancel => Kept
<1> SUFFICES ASSUME Inv, gate # <<>>, Cancel PROVE Kept
  OBVIOUS
<1>1. stage = "waiting" /\ private /\ current' = 0 /\ current # 0
  BY DEF Cancel, Inv, SessionSound
<1>2. GateTypes' /\ gate' = gate /\ (stage' = "cancelling" \/ (stage' = "watch" /\ private' = FALSE))
  BY ProceedTypes DEF Cancel, Clear
<1>3. SessionTypes' /\ Silent
  BY <1>1 DEF Cancel, Clear, Inv, SessionTypes, Silent
<1>4. SessionSound'
  BY <1>1, <1>2 DEF SessionSound
<1> QED BY <1>1, <1>2, <1>3, <1>4, Frames DEF Cancel, Kept

LEMMA CancelledKept == ASSUME Inv, gate # <<>>, NEW ok \in BOOLEAN, Cancelled(ok) PROVE Kept
<1>1. stage = "cancelling" /\ private' = FALSE /\ current' = current
  BY DEF Cancelled, Clear
<1>2. GateTypes' /\ (stage' = "waiting" \/ (stage' = "cycle" /\ gate' = gate))
  BY LeaveTypes, ProceedTypes DEF Cancelled
<1>3. SessionTypes' /\ Silent
  BY DEF Cancelled, Clear, Inv, SessionTypes, Silent
<1>4. SessionSound'
  BY <1>1, <1>2 DEF SessionSound, Inv
<1> QED BY <1>1, <1>2, <1>3, <1>4, Frames DEF Cancelled, Kept

LEMMA ListedKept == Inv /\ gate # <<>> /\ Listed => Kept
<1> SUFFICES ASSUME Inv, gate # <<>>, Listed PROVE Kept
  OBVIOUS
<1>1. stage = "listing" /\ ~private /\ private' = private
  BY DEF Listed, Inv, SessionSound
<1>2. created + 1 \in Sessions /\ created' = created + 1 /\ current' = created + 1 /\ current' # 0
  BY PairingAssumption DEF Listed, Inv, BoundTypes, Sessions
<1>3. GateTypes' /\ stage' = "creating" /\ gate' = gate
  BY ProceedTypes DEF Listed
<1>4. SessionTypes' /\ Silent
  BY <1>2 DEF Listed, Inv, SessionTypes, Silent
<1>5. SessionSound'
  BY <1>1, <1>2, <1>3 DEF SessionSound
<1>6. WatchInv'
  BY DEF Listed, Inv, WatchInv, WatchTypes, WatchSound
<1>7. CycleTypes' /\ BoundServes
  BY DEF Listed, Inv, CycleTypes, BoundServes
<1>8. BoundTypes'
  BY <1>2 DEF Listed, Inv, BoundTypes
<1> QED BY <1>1, <1>3, <1>4, <1>5, <1>6, <1>7, <1>8, Frames DEF Listed, Kept

LEMMA CreatedKept == Inv /\ gate # <<>> /\ (Created \/ CreateFails) => Kept
<1> SUFFICES ASSUME Inv, gate # <<>>, Created \/ CreateFails PROVE Kept
  OBVIOUS
<1>1. stage = "creating" /\ ~private /\ current # 0 /\ current' = current
  BY DEF Created, CreateFails, Inv, SessionSound
<1>2. GateTypes' /\ stage' = "waiting"
  BY LeaveTypes DEF Created, CreateFails
<1>3. SessionTypes' /\ Silent
  BY <1>1 DEF Created, CreateFails, Inv, SessionTypes, Silent
<1>4. SessionSound'
  BY <1>1, <1>2 DEF SessionSound
<1>5. CycleTypes' /\ BoundServes
  BY <1>1 DEF Created, CreateFails, cycleVars, Inv, SessionTypes, CycleTypes, BoundServes
<1> QED BY <1>1, <1>2, <1>3, <1>4, <1>5, Frames DEF Created, CreateFails, Kept

(* The results and candidates of a cycle.                                  *)
LEMMA ResultTypes ==
    ASSUME Inv, NEW g \in Sessions, NEW r \in Runtimes, NEW status \in Statuses, Result(g, r, status)
    PROVE  /\ results' \in [Sessions -> [Runtimes -> Statuses]]
           /\ results'[g][r] = status
           /\ \A h \in Sessions, s \in Runtimes : h # g \/ s # r => results'[h][s] = results[h][s]
  BY DEF Inv, CycleTypes, Result

LEMMA StageTypes ==
    ASSUME Inv, NEW g \in Sessions, NEW r \in Runtimes,
           NEW at \in {"none", "enabling", "activating", "connecting", "verifying", "done"}, Stage(g, r, at)
    PROVE  candidate' \in [Sessions -> [Runtimes -> Candidates]]
<1>1. candidate \in [Sessions -> [Runtimes -> Candidates]] /\ candidate[g] \in [Runtimes -> Candidates] /\ candidate[g][r] \in Candidates
  BY DEF Inv, CycleTypes
<1> DEFINE c == [candidate[g][r] EXCEPT !.at = at]
<1>2. c \in Candidates
  BY <1>1 DEF Candidates
<1>3. candidate' = [candidate EXCEPT ![g] = [candidate[g] EXCEPT ![r] = c]]
  BY <1>1 DEF Stage
<1> HIDE DEF c
<1> QED BY <1>1, <1>2, <1>3

LEMMA ActivationFailsTypes ==
    ASSUME Inv, NEW g \in Sessions, NEW r \in Runtimes, ActivationFails(g, r), UNCHANGED <<cycle, selected>>
    PROVE  CycleTypes' /\ BoundServes
<1>1. candidate' \in [Sessions -> [Runtimes -> Candidates]]
  BY StageTypes DEF ActivationFails
<1>2. /\ results' \in [Sessions -> [Runtimes -> Statuses]]
      /\ results'[g][r] = "failed"
      /\ \A h \in Sessions, s \in Runtimes : h # g \/ s # r => results'[h][s] = results[h][s]
  BY ResultTypes DEF ActivationFails, Statuses
<1>3. BoundServes
  BY <1>2 DEF BoundServes
<1> QED BY <1>1, <1>2, <1>3 DEF CycleTypes, Inv

LEMMA StageOnlyTypes ==
    ASSUME Inv, NEW g \in Sessions, NEW r \in Runtimes,
           NEW at \in {"none", "enabling", "activating", "connecting", "verifying", "done"}, Stage(g, r, at),
           UNCHANGED <<cycle, selected, results>>
    PROVE  CycleTypes' /\ BoundServes
<1>1. candidate' \in [Sessions -> [Runtimes -> Candidates]]
  BY StageTypes
<1> QED BY <1>1 DEF CycleTypes, Inv, BoundServes

LEMMA RegisterKept ==
    ASSUME Inv, NEW g \in Sessions, NEW S \in SUBSET Runtimes, Register(g, S), stage' = stage,
           selected' \in SUBSET Runtimes
    PROVE  BindingStep /\ UserJobs' /\ CycleTypes' /\ BoundServes
<1> DEFINE called == S \cap ready
           j == [op |-> "pair", session |-> g]
<1>1. called \in SUBSET Runtimes
  OBVIOUS
<1>2. j \in Jobs /\ j.op = "pair" /\ j.session = g /\ j.op \notin UserOps
  BY DEF Jobs, UserOps
<1>3. jobs' = Enqueued(called, j.op, j.session)
  BY <1>2 DEF Register
<1> HIDE DEF j
<1>4. JobHandedOver
  BY <1>1, <1>2, <1>3 DEF JobHandedOver, Register
<1>5. UserJobs'
  BY <1>1, <1>2, <1>3, HandedUserJobs DEF Inv, BindingInv
<1>6. /\ results' \in [Sessions -> [Runtimes -> Statuses]]
      /\ \A h \in Sessions, r \in Runtimes : results'[h][r] = "bound" => results[h][r] = "bound"
  <2>1. results \in [Sessions -> [Runtimes -> Statuses]]
    BY DEF Inv, CycleTypes
  <2> DEFINE new == [r \in Runtimes |-> IF r \in called THEN "registering" ELSE IF r \in S THEN "rejected" ELSE results[g][r]]
  <2>2. results' = [results EXCEPT ![g] = new]
    BY <2>1 DEF Register
  <2>3. new \in [Runtimes -> Statuses] /\ \A r \in Runtimes : new[r] = "bound" => results[g][r] = "bound"
    BY <2>1 DEF Statuses
  <2> HIDE DEF new
  <2> QED BY <2>1, <2>2, <2>3
<1>7. candidate' \in [Sessions -> [Runtimes -> Candidates]]
  <2>1. candidate \in [Sessions -> [Runtimes -> Candidates]] /\ candidate[g] \in [Runtimes -> Candidates]
    BY DEF Inv, CycleTypes
  <2> DEFINE c(r) == [candidate[g][r] EXCEPT !.at = "enabling"]
             new == [r \in Runtimes |-> IF r \in called THEN c(r) ELSE candidate[g][r]]
  <2>2. \A r \in Runtimes : c(r) \in Candidates
    BY <2>1 DEF Candidates
  <2>3. candidate' = [candidate EXCEPT ![g] = new]
    BY <2>1 DEF Register
  <2> HIDE DEF c
  <2>4. new \in [Runtimes -> Candidates]
    BY <2>1, <2>2
  <2> HIDE DEF new
  <2> QED BY <2>1, <2>3, <2>4
<1>8. CycleTypes'
  BY <1>6, <1>7 DEF Inv, CycleTypes, Register
<1> QED BY <1>4, <1>5, <1>6, <1>8 DEF BindingStep, BoundServes

LEMMA RetryFailedKept ==
    ASSUME Inv, private => current # 0, NEW started \in BOOLEAN, RetryFailed(started), stage' = stage
    PROVE  /\ BindingStep /\ UserJobs' /\ CycleTypes' /\ BoundServes /\ SessionTypes' /\ Silent
           /\ current' = current /\ (private' => private)
<1>0. current \in {0} \cup Sessions /\ private \in BOOLEAN
  BY DEF Inv, SessionTypes
<1>1. CASE /\ started /\ state = "partial" /\ private /\ ~Expired /\ Retryable # {}
           /\ state' = "processing"
           /\ Register(current, Retryable)
           /\ UNCHANGED <<current, private, ready, selected>>
  <2>1. current \in Sessions
    BY <1>0, <1>1
  <2>2. Retryable \in SUBSET Runtimes /\ selected' \in SUBSET Runtimes
    BY <1>1 DEF Retryable, Inv, CycleTypes
  <2>3. BindingStep /\ UserJobs' /\ CycleTypes' /\ BoundServes
    BY <1>1, <2>1, <2>2, RegisterKept
  <2>4. SessionTypes' /\ Silent
    BY <1>1, <2>1 DEF SessionTypes, Silent, Inv
  <2> QED BY <1>1, <2>3, <2>4
<1>2. CASE /\ ~started /\ state = "partial" /\ private /\ Expired
           /\ Ends("expired")
           /\ UNCHANGED <<cycleVars, bindingVars>>
  <2>1. SessionTypes' /\ Silent /\ current' = current /\ private' = FALSE
    BY <1>0, <1>2 DEF SessionTypes, Silent, Ends, Clear, Inv
  <2> QED BY <1>2, <2>1, Frames
<1>3. CASE UNCHANGED <<sessionVars, cycleVars, bindingVars>>
  BY <1>3, Frames DEF sessionVars
<1> QED BY <1>1, <1>2, <1>3 DEF RetryFailed

LEMMA RetryKept == Inv /\ gate # <<>> /\ Retry => Kept
<1> SUFFICES ASSUME Inv, gate # <<>>, Retry PROVE Kept
  OBVIOUS
<1>1. PICK started \in BOOLEAN : RetryFailed(started)
  BY DEF Retry
<1>2. GateTypes' /\ stage' = "waiting" /\ stage = "waiting" /\ (private => current # 0)
  BY LeaveTypes DEF Retry, Inv, SessionSound
<1>3. /\ BindingStep /\ UserJobs' /\ CycleTypes' /\ BoundServes /\ SessionTypes' /\ Silent
      /\ current' = current /\ (private' => private)
  BY <1>1, <1>2, RetryFailedKept
<1>4. SessionSound'
  BY <1>2, <1>3 DEF SessionSound
<1> QED BY <1>2, <1>3, <1>4, Frames DEF Kept, Retry

LEMMA ActivateKept == Inv /\ gate # <<>> /\ Activate => Kept
<1> SUFFICES ASSUME Inv, gate # <<>>, Activate PROVE Kept
  OBVIOUS
<1>1. Running.runtime \in Runtimes /\ Running.session \in Sessions
  BY RunningTypes DEF Activate
<1>2. GateTypes' /\ (stage' = "waiting" \/ (stage' = "reconciling" /\ gate' = gate)) /\ stage = "waiting"
  BY LeaveTypes, ProceedTypes DEF Activate
<1>3. CycleTypes' /\ BoundServes
  <2>1. CASE UNCHANGED <<candidate, results>>
    BY <2>1, Frames DEF Activate, cycleVars
  <2>2. CASE ActivationFails(Running.session, Running.runtime)
    BY <1>1, <2>2, ActivationFailsTypes DEF Activate
  <2> QED BY <2>1, <2>2 DEF Activate
<1>4. SessionSound'
  BY <1>2 DEF Activate, Inv, SessionSound, sessionVars
<1> QED BY <1>2, <1>3, <1>4, Frames DEF Kept, Activate

LEMMA ActivatedKept == ASSUME Inv, gate # <<>>, NEW ok \in BOOLEAN, Activated(ok) PROVE Kept
<1>1. Running.runtime \in Runtimes /\ Running.session \in Sessions
  BY RunningTypes DEF Activated
<1>2. GateTypes' /\ stage' = "waiting" /\ stage = "reconciling"
  BY LeaveTypes DEF Activated
<1>3. CycleTypes' /\ BoundServes
  <2>1. CASE Stage(Running.session, Running.runtime, "connecting") /\ UNCHANGED results
    BY <1>1, <2>1, StageOnlyTypes DEF Activated
  <2>2. CASE ActivationFails(Running.session, Running.runtime)
    BY <1>1, <2>2, ActivationFailsTypes DEF Activated
  <2> QED BY <2>1, <2>2 DEF Activated
<1>4. SessionSound'
  BY <1>2 DEF Activated, Inv, SessionSound, sessionVars
<1> QED BY <1>2, <1>3, <1>4, Frames DEF Kept, Activated

(* A candidate becomes bound only here, in the gate.                       *)
LEMMA VerifyKept == ASSUME Inv, gate # <<>>, NEW ok \in BOOLEAN, Verify(ok) PROVE Kept
<1>1. Running.runtime \in Runtimes /\ Running.session \in Sessions
  BY RunningTypes DEF Verify
<1>2. GateTypes' /\ stage' = "waiting" /\ stage = "waiting"
  BY LeaveTypes DEF Verify
<1>3. CycleTypes' /\ BoundServes
  <2>1. CASE Served(Running.session, Running.runtime) /\ Result(Running.session, Running.runtime, "bound")
             /\ Stage(Running.session, Running.runtime, "done")
    <3>1. candidate' \in [Sessions -> [Runtimes -> Candidates]]
      BY <1>1, <2>1, StageTypes
    <3>2. /\ results' \in [Sessions -> [Runtimes -> Statuses]]
          /\ \A h \in Sessions, s \in Runtimes :
                h # Running.session \/ s # Running.runtime => results'[h][s] = results[h][s]
      BY <1>1, <2>1, ResultTypes DEF Statuses
    <3>3. BoundServes
      BY <1>1, <2>1, <3>2 DEF BoundServes, Served
    <3> QED BY <3>1, <3>2, <3>3 DEF CycleTypes, Verify, Inv
  <2>2. CASE ActivationFails(Running.session, Running.runtime)
    BY <1>1, <2>2, ActivationFailsTypes DEF Verify
  <2> QED BY <2>1, <2>2 DEF Verify
<1>4. SessionSound'
  BY <1>2 DEF Verify, Inv, SessionSound, sessionVars
<1> QED BY <1>2, <1>3, <1>4, Frames DEF Kept, Verify

(* The jobs.                                                               *)
LEMMA JobStepKept == ASSUME Inv, NEW r \in Runtimes, JobStep(r) PROVE Kept
<1>1. BindingStep
  BY DEF JobStep, BindingStep, JobMoves
<1>2. jobs' = jobs /\ stage' = stage
  BY DEF JobStep, gateVars, JobGoesOn, BeginEnable, BeginReregister, BeginSave, Begin, PendingSaved, RemoteAnswers, CommitFails, Goto
<1>3. UserJobs'
  BY <1>2 DEF Inv, UserJobs, UserJob
<1> QED BY <1>1, <1>3, Frames DEF Kept, JobStep

LEMMA JobEndsKept == ASSUME Inv, NEW r \in Runtimes, JobEnds(r) PROVE Kept
<1>1. PICK ok \in BOOLEAN : Returned(r, ok)
  BY DEF JobEnds
<1>2. JobMoves(r) /\ jobs[r] # <<>> /\ Done(r)
  BY DEF JobEnds, JobMoves, JobSucceeds, JobFails, BeginEnabled, BeginNothing, SaveEnds, Committed, BeginRefused, Restored
<1>3. BindingStep
  BY <1>2 DEF BindingStep
<1>4. binding' \in [Runtimes -> Bindings]
  BY <1>3, BindingStepSound DEF Inv, BindingInv, BindingTypes
<1>5. Job(r) \in Jobs /\ Job(r) = jobs[r][1] /\ 1 \in 1..Len(jobs[r])
  BY <1>2, Departed DEF Inv, BindingInv, BindingTypes, Job
<1>6. Job(r).op \in UserOps => stage = "binding"
  BY <1>5 DEF Inv, UserJobs, UserJob
<1>7. Job(r).op \in UserOps \cup {"mark", "pair"} /\ (Job(r).op = "pair" => Job(r).session \in Sessions)
  BY <1>5 DEF Jobs, UserOps
<1>8. jobs' = [jobs EXCEPT ![r] = Tail(@)]
  BY <1>2 DEF Done
<1>9. Job(r).op \in UserOps \/ stage' = stage => UserJobs'
  BY <1>2, <1>8, EndedUserJobs DEF Inv, BindingInv
<1>10. UNCHANGED <<cycle, selected, sessionVars, watchVars, bounds>>
  BY DEF JobEnds
<1> DEFINE g == Job(r).session
<1>11. CASE Job(r).op = "pair" /\ current # g
  <2>1. Stage(g, r, "done") /\ UNCHANGED <<results, gateVars>>
    BY <1>1, <1>11 DEF Returned
  <2>2. CycleTypes' /\ BoundServes
    BY <1>7, <1>10, <1>11, <2>1, StageOnlyTypes
  <2>3. UserJobs'
    BY <1>9, <2>1 DEF gateVars
  <2> QED BY <1>3, <1>10, <2>1, <2>2, <2>3, Frames DEF Kept
<1>12. CASE Job(r).op = "pair" /\ current = g /\ ok
  <2>1. /\ candidate' = [candidate EXCEPT ![g][r] = [at |-> "activating", binding |-> binding'[r]]]
        /\ gate' = Append(gate, Mutation("activate", r, g))
        /\ UNCHANGED <<results, stage>>
    BY <1>1, <1>12 DEF Returned
  <2>2. [at |-> "activating", binding |-> binding'[r]] \in Candidates
    BY <1>4 DEF Candidates
  <2>3. CycleTypes' /\ BoundServes
    BY <1>7, <1>10, <1>12, <2>1, <2>2 DEF Inv, CycleTypes, BoundServes
  <2>4. Mutation("activate", r, g) \in Mutations
    BY <1>7, <1>12 DEF Mutation, Mutations
  <2>5. GateTypes' /\ gate' # <<>>
    BY <2>1, <2>4, Appended DEF Inv, GateTypes
  <2>6. SessionSound'
    BY <1>10, <2>1, <2>5 DEF Inv, SessionSound, sessionVars
  <2> QED BY <1>3, <1>9, <1>10, <2>1, <2>3, <2>5, <2>6, Frames DEF Kept
<1>13. CASE Job(r).op = "pair" /\ current = g /\ ~ok
  <2>1. PICK status \in {"failed", "rejected"} : Result(g, r, status) /\ Stage(g, r, "done") /\ UNCHANGED gateVars
    BY <1>1, <1>13 DEF Returned
  <2>2. candidate' \in [Sessions -> [Runtimes -> Candidates]]
    BY <1>7, <1>13, <2>1, StageTypes
  <2>3. /\ results' \in [Sessions -> [Runtimes -> Statuses]]
        /\ results'[g][r] = status
        /\ \A h \in Sessions, s \in Runtimes : h # g \/ s # r => results'[h][s] = results[h][s]
    BY <1>7, <1>13, <2>1, ResultTypes DEF Statuses
  <2>4. BoundServes
    BY <2>3 DEF BoundServes
  <2>5. CycleTypes'
    BY <1>10, <2>2, <2>3 DEF CycleTypes, Inv
  <2>6. UserJobs'
    BY <1>9, <2>1 DEF gateVars
  <2> QED BY <1>3, <1>10, <2>1, <2>4, <2>5, <2>6, Frames DEF Kept
<1>14. CASE Job(r).op = "mark"
  <2>1. UNCHANGED <<candidate, results, gateVars>>
    BY <1>1, <1>14 DEF Returned
  <2>2. UserJobs'
    BY <1>9, <2>1 DEF gateVars
  <2>3. UNCHANGED cycleVars
    BY <1>10, <2>1 DEF cycleVars
  <2> QED BY <1>3, <1>10, <2>1, <2>2, <2>3, Frames DEF Kept
<1>15. CASE Job(r).op \in UserOps
  <2>1. (Proceed("reconciling") \/ Leave) /\ UNCHANGED <<candidate, results>>
    BY <1>1, <1>15 DEF Returned, UserOps
  <2>2. stage = "binding" /\ gate # <<>> /\ (private => current # 0)
    BY <1>6, <1>15 DEF Inv, SessionSound
  <2>3. GateTypes' /\ (stage' = "waiting" \/ (stage' = "reconciling" /\ gate' = gate))
    BY <2>1, <2>2, LeaveTypes, ProceedTypes
  <2>4. SessionSound'
    BY <1>10, <2>2, <2>3 DEF SessionSound, sessionVars
  <2>5. UNCHANGED cycleVars
    BY <1>10, <2>1 DEF cycleVars
  <2> QED BY <1>3, <1>9, <1>10, <1>15, <2>3, <2>4, <2>5, Frames DEF Kept
<1> QED BY <1>7, <1>11, <1>12, <1>13, <1>14, <1>15

LEMMA MarkKept == ASSUME Inv, NEW r \in Runtimes, Mark(r) PROVE Kept
<1> DEFINE j == [op |-> "mark", session |-> 0]
<1>1. j \in Jobs /\ j.op = "mark" /\ j.session = 0 /\ j.op \notin UserOps
  BY DEF Jobs, UserOps
<1>2. {r} \in SUBSET Runtimes /\ jobs' = Enqueued({r}, j.op, j.session) /\ stage' = stage
  BY <1>1 DEF Mark, gateVars
<1> HIDE DEF j
<1>3. BindingStep
  BY <1>1, <1>2 DEF BindingStep, JobHandedOver, Mark
<1>4. UserJobs'
  BY <1>1, <1>2, HandedUserJobs DEF Inv, BindingInv
<1>5. BoundTypes'
  BY DEF Mark, Inv, BoundTypes
<1> QED BY <1>3, <1>4, <1>5, Frames DEF Kept, Mark

(* The cycles.                                                             *)
LEMMA PollEndsKept == ASSUME Inv, NEW g \in Sessions, PollEnds(g) PROVE Kept
<1>1. CycleTypes' /\ BoundServes
  BY DEF PollEnds, CycleOver, Inv, CycleTypes, BoundServes
<1>2. g # 0
  BY PairingAssumption DEF Sessions
<1>3. SessionTypes' /\ Silent /\ current' = current /\ (private' => private)
  <2>1. CASE UNCHANGED sessionVars
    BY <2>1, Frames DEF sessionVars
  <2>2. CASE current = g /\ \E final \in {"cancelled", "expired", "completed"} : Ends(final)
    BY <1>2, <2>2 DEF Ends, Clear, Inv, SessionTypes, Silent
  <2> QED BY <2>1, <2>2 DEF PollEnds
<1>4. SessionSound'
  BY <1>3 DEF SessionSound, Inv, PollEnds, gateVars
<1> QED BY <1>1, <1>3, <1>4, Frames DEF Kept, PollEnds, gateVars

LEMMA SelectedKept == ASSUME Inv, NEW g \in Sessions, NEW S \in SUBSET Runtimes, Selected(g, S) PROVE Kept
<1>1. stage' = stage /\ gate' = gate /\ private' = private /\ current' = current
  BY DEF Selected, gateVars
<1>2. BindingStep /\ UserJobs' /\ CycleTypes' /\ BoundServes
  BY <1>1, RegisterKept DEF Selected
<1>3. g # 0
  BY PairingAssumption DEF Sessions
<1>4. SessionTypes' /\ Silent
  BY <1>3 DEF Selected, Inv, SessionTypes, Silent
<1>5. SessionSound'
  BY <1>1 DEF SessionSound, Inv
<1> QED BY <1>2, <1>4, <1>5, Frames DEF Kept, Selected

LEMMA OnlineKept == ASSUME Inv, NEW g \in Sessions, NEW r \in Runtimes, Online(g, r) PROVE Kept
<1>1. Mutation("verify", r, g) \in Mutations
  BY DEF Mutation, Mutations
<1>2. GateTypes' /\ gate' # <<>> /\ stage' = stage
  BY <1>1, Appended DEF Online, Inv, GateTypes
<1>3. CycleTypes' /\ BoundServes
  BY StageOnlyTypes DEF Online
<1>4. SessionSound'
  BY <1>2 DEF SessionSound, Inv, Online, sessionVars
<1> QED BY <1>2, <1>3, <1>4, Frames DEF Kept, Online

LEMMA NotOnlineKept == ASSUME Inv, NEW g \in Sessions, NEW r \in Runtimes, NotOnline(g, r) PROVE Kept
<1>1. CycleTypes' /\ BoundServes
  BY ActivationFailsTypes DEF NotOnline
<1> QED BY <1>1, Frames DEF Kept, NotOnline, gateVars

LEMMA CycleEndsKept == ASSUME Inv, NEW g \in Sessions, CycleEnds(g) PROVE Kept
<1>1. CycleTypes' /\ BoundServes
  BY DEF CycleEnds, CycleOver, Inv, CycleTypes, BoundServes
<1>2. g # 0
  BY PairingAssumption DEF Sessions
<1>3. SessionTypes' /\ Silent /\ current' = current /\ (private' => private)
  <2>1. CASE UNCHANGED sessionVars
    BY <2>1, Frames DEF sessionVars
  <2>2. CASE current = g /\ FinishedAny(g)
    BY <1>2, <2>2 DEF FinishedAny, Ends, Clear, Inv, SessionTypes, Silent
  <2> QED BY <2>1, <2>2 DEF CycleEnds, Finished
<1>4. SessionSound'
  BY <1>3 DEF SessionSound, Inv, CycleEnds, gateVars
<1>5. WatchInv'
  <2> DEFINE w == [NoWatch EXCEPT !.session = g]
  <2>1. w \in [session : {0} \cup Sessions, at : {"loop", "polling", "cycle", "acking"}, request : {0} \cup Requests] /\ w.at = "loop"
    BY DEF NoWatch
  <2>2. watch' = watch \/ watch' = w
    BY DEF CycleEnds, Finished, FinishedAny, StartWatch
  <2> HIDE DEF w
  <2> QED BY <2>1, <2>2 DEF CycleEnds, Inv, WatchInv, WatchTypes, WatchSound
<1> QED BY <1>1, <1>3, <1>4, <1>5, Frames DEF Kept, CycleEnds, gateVars

(* The watch.                                                              *)
Watches == [session : {0} \cup Sessions, at : {"loop", "polling", "cycle", "acking"}, request : {0} \cup Requests]

(* What the watch may do to the session.                                   *)
Calm == SessionTypes' /\ Silent /\ current' = current /\ (private' => private)

LEMMA CalmEnds ==
    ASSUME Inv
    PROVE  /\ UNCHANGED sessionVars => Calm
           /\ \A final \in Over : current # 0 /\ (Ends(final) \/ EndsInError(final)) => Calm
           /\ WatchOver => Calm
<1>1. UNCHANGED sessionVars => Calm
  BY Frames DEF Calm, sessionVars
<1>2. ASSUME NEW final \in Over, current # 0, Ends(final) PROVE Calm
  BY <1>2 DEF Over, Ends, Clear, Calm, Inv, SessionTypes, Silent
<1>3. Clear /\ UNCHANGED <<state, current>> => Calm
  BY DEF Clear, Calm, Inv, SessionTypes, Silent
<1>4. ASSUME NEW final \in Over, current # 0, EndsInError(final) PROVE Calm
  BY <1>1, <1>2, <1>3, <1>4 DEF EndsInError
<1> QED BY <1>1, <1>2, <1>3, <1>4 DEF WatchOver

LEMMA WatchMoves ==
    ASSUME Inv, UNCHANGED <<consumed, retried, WatchOnly>>, Calm,
           watch' \in Watches, watch'.at # "loop" => watch'.session # 0
    PROVE  Kept
<1>1. WatchInv'
  BY DEF Inv, WatchInv, WatchTypes, WatchSound, Watches
<1>2. UNCHANGED <<cycleVars, bindingVars, gateVars, bounds>>
  BY DEF WatchOnly
<1>3. stage' = stage /\ gate' = gate
  BY <1>2 DEF gateVars
<1>4. SessionSound'
  BY <1>3 DEF Inv, SessionSound, Calm
<1> QED BY <1>1, <1>2, <1>3, <1>4, Frames DEF Kept, Calm

LEMMA WatchValues ==
    ASSUME Inv
    PROVE  /\ watch \in Watches /\ NoWatch \in Watches /\ NoWatch.at = "loop"
           /\ \A at \in {"loop", "polling", "acking"} :
                 LET w == [watch EXCEPT !.at = at] IN w \in Watches /\ w.at = at /\ w.session = watch.session
           /\ \A at \in {"loop", "cycle", "acking"}, q \in {0} \cup Requests :
                 LET w == [watch EXCEPT !.at = at, !.request = q] IN w \in Watches /\ w.at = at /\ w.session = watch.session
<1>1. watch \in Watches
  BY DEF Inv, WatchInv, WatchTypes, Watches
<1>2. NoWatch \in Watches /\ NoWatch.at = "loop"
  BY DEF NoWatch, Watches
<1>3. ASSUME NEW at \in {"loop", "polling", "acking"}
      PROVE  LET w == [watch EXCEPT !.at = at] IN w \in Watches /\ w.at = at /\ w.session = watch.session
  BY <1>1 DEF Watches
<1>4. ASSUME NEW at \in {"loop", "cycle", "acking"}, NEW q \in {0} \cup Requests
      PROVE  LET w == [watch EXCEPT !.at = at, !.request = q] IN w \in Watches /\ w.at = at /\ w.session = watch.session
  BY <1>1 DEF Watches
<1> QED BY <1>1, <1>2, <1>3, <1>4

LEMMA WatchLoopKept == Inv /\ WatchLoop => Kept
<1> SUFFICES ASSUME Inv, WatchLoop PROVE Kept
  OBVIOUS
<1>1. watch.session # 0 /\ UNCHANGED <<consumed, retried, WatchOnly>>
  BY DEF WatchLoop, Watching
<1>2. CASE WatchOver
  BY <1>1, <1>2, CalmEnds, WatchValues, WatchMoves DEF WatchOver
<1>3. CASE current = watch.session /\ Ends("expired") /\ watch' = NoWatch
  BY <1>1, <1>3, CalmEnds, WatchValues, WatchMoves DEF Over
<1>4. CASE WatchAt("polling") /\ UNCHANGED sessionVars
  <2> DEFINE w == [watch EXCEPT !.at = "polling"]
  <2>1. watch' = w
    BY <1>4 DEF WatchAt
  <2>2. w \in Watches /\ w.session = watch.session
    BY WatchValues
  <2> HIDE DEF w
  <2> QED BY <1>1, <1>4, <2>1, <2>2, CalmEnds, WatchMoves
<1> QED BY <1>2, <1>3, <1>4 DEF WatchLoop

LEMMA WatchSessionSet == Inv /\ watch.at # "loop" => watch.session # 0
  BY DEF Inv, WatchInv, WatchSound

LEMMA PollRetryFailsKept == ASSUME Inv, NEW final \in {"none"} \cup Over, PollRetryFails(final) PROVE Kept
<1>1. watch.session # 0 /\ UNCHANGED <<consumed, retried, WatchOnly>>
  BY WatchSessionSet DEF PollRetryFails
<1>2. CASE WatchOver
  BY <1>1, <1>2, CalmEnds, WatchValues, WatchMoves DEF WatchOver
<1>3. CASE current = watch.session /\ final = "none"
  <2> DEFINE w == [watch EXCEPT !.at = "loop"]
  <2>1. watch' = w /\ UNCHANGED sessionVars
    BY <1>3 DEF PollRetryFails, WatchAt
  <2>2. w \in Watches /\ w.session = watch.session
    BY WatchValues
  <2> HIDE DEF w
  <2> QED BY <1>1, <2>1, <2>2, CalmEnds, WatchMoves
<1>4. CASE current = watch.session /\ final = "expired"
  <2>1. Ends("expired") /\ watch' = NoWatch
    BY <1>4 DEF PollRetryFails
  <2> QED BY <1>1, <1>4, <2>1, CalmEnds, WatchValues, WatchMoves DEF Over
<1>5. CASE current = watch.session /\ final = "cancelled"
  <2>1. EndsInError("cancelled") /\ watch' = NoWatch
    BY <1>5 DEF PollRetryFails
  <2> QED BY <1>1, <1>5, <2>1, CalmEnds, WatchValues, WatchMoves DEF Over
<1> QED BY <1>2, <1>3, <1>4, <1>5 DEF PollRetryFails, Over

LEMMA WatchCycleKept == Inv /\ WatchCycle => Kept
<1> SUFFICES ASSUME Inv, WatchCycle PROVE Kept
  OBVIOUS
<1>1. watch.session # 0 /\ UNCHANGED <<sessionVars, consumed, retried, WatchOnly>>
  BY WatchSessionSet DEF WatchCycle
<1> DEFINE w == [watch EXCEPT !.at = "acking"]
<1>2. watch' = w
  BY DEF WatchCycle, WatchAt
<1>3. w \in Watches /\ w.session = watch.session
  BY WatchValues
<1> HIDE DEF w
<1> QED BY <1>1, <1>2, <1>3, CalmEnds, WatchMoves

LEMMA AckRetryKept == ASSUME Inv, NEW final \in {"none"} \cup Over, AckRetry(final) PROVE Kept
<1>1. watch.session # 0 /\ UNCHANGED <<consumed, retried, WatchOnly>>
  BY WatchSessionSet DEF AckRetry
<1>2. CASE WatchOver
  BY <1>1, <1>2, CalmEnds, WatchValues, WatchMoves DEF WatchOver
<1>3. CASE current = watch.session /\ final # "none" /\ EndsInError(final) /\ watch' = NoWatch
  BY <1>1, <1>3, CalmEnds, WatchValues, WatchMoves
<1>4. CASE watch' = [watch EXCEPT !.at = "loop", !.request = 0] /\ UNCHANGED sessionVars
  <2> DEFINE w == [watch EXCEPT !.at = "loop", !.request = 0]
  <2>1. watch' = w
    BY <1>4
  <2>2. w \in Watches /\ w.session = watch.session
    BY WatchValues
  <2> HIDE DEF w
  <2> QED BY <1>1, <1>4, <2>1, <2>2, CalmEnds, WatchMoves
<1> QED BY <1>2, <1>3, <1>4 DEF AckRetry

(* A request that was consumed starts no cycle; one that was not has never *)
(* started one.                                                            *)
LEMMA RetryRequestedKept == ASSUME Inv, NEW q \in Requests, RetryRequested(q) PROVE Kept
<1>1. watch.session # 0 /\ current = watch.session /\ stage' = stage /\ gate' = gate /\ UNCHANGED <<gateVars, bounds>>
  BY WatchSessionSet DEF RetryRequested, gateVars
<1>2. CASE q \in consumed
  <2> DEFINE w == [watch EXCEPT !.at = "acking", !.request = q]
  <2>1. watch' = w /\ UNCHANGED <<consumed, retried, sessionVars, cycleVars, bindingVars>>
    BY <1>2 DEF RetryRequested
  <2>2. w \in Watches /\ w.session = watch.session
    BY WatchValues
  <2> HIDE DEF w
  <2> QED BY <1>1, <2>1, <2>2, CalmEnds, WatchMoves DEF WatchOnly
<1>3. CASE q \notin consumed
  <2>1. PICK started \in BOOLEAN :
          /\ RetryFailed(started)
          /\ watch' = [watch EXCEPT !.at = IF started THEN "cycle" ELSE "acking", !.request = q]
          /\ retried' = IF started THEN [retried EXCEPT ![q] = @ + 1] ELSE retried
    BY <1>3 DEF RetryRequested
  <2>2. consumed' = consumed \cup {q}
    BY <1>3 DEF RetryRequested, Consume
  <2>3. /\ BindingStep /\ UserJobs' /\ CycleTypes' /\ BoundServes /\ SessionTypes' /\ Silent
        /\ current' = current /\ (private' => private)
    BY <1>1, <2>1, RetryFailedKept
  <2>4. watch' \in Watches /\ watch'.session = watch.session
    <3>1. PICK at \in {"cycle", "acking"} : watch' = [watch EXCEPT !.at = at, !.request = q]
      BY <2>1
    <3>2. CASE at = "cycle"
      <4> DEFINE w == [watch EXCEPT !.at = "cycle", !.request = q]
      <4>1. w \in Watches /\ w.session = watch.session
        BY WatchValues
      <4> QED BY <3>1, <3>2, <4>1
    <3>3. CASE at = "acking"
      <4> DEFINE w == [watch EXCEPT !.at = "acking", !.request = q]
      <4>1. w \in Watches /\ w.session = watch.session
        BY WatchValues
      <4> QED BY <3>1, <3>3, <4>1
    <3> QED BY <3>2, <3>3
  <2>5. retried \in [Requests -> Nat] /\ retried[q] = 0
    BY <1>3 DEF Inv, WatchInv, WatchTypes, WatchSound
  <2>6. retried' \in [Requests -> Nat] /\ retried'[q] <= 1 /\ \A p \in Requests \ {q} : retried'[p] = retried[p]
    <3>1. CASE started
      BY <2>1, <2>5, <3>1
    <3>2. CASE ~started
      BY <2>1, <2>5, <3>2
    <3> QED BY <3>1, <3>2
  <2>7. WatchInv'
    BY <1>1, <2>2, <2>4, <2>6 DEF Inv, WatchInv, WatchTypes, WatchSound, Watches
  <2>8. SessionSound'
    BY <1>1, <2>3 DEF Inv, SessionSound
  <2> QED BY <1>1, <2>3, <2>7, <2>8, Frames DEF Kept
<1> QED BY <1>2, <1>3

(* The clock.                                                              *)
LEMMA ExpiryTimerKept == Inv /\ ExpiryTimer => Kept
<1> SUFFICES ASSUME Inv, ExpiryTimer PROVE Kept
  OBVIOUS
<1>1. SessionTypes' /\ Silent /\ private' = FALSE
  BY DEF ExpiryTimer, Clear, Inv, SessionTypes, Silent
<1>2. SessionSound'
  BY <1>1 DEF ExpiryTimer, Inv, SessionSound, gateVars
<1> QED BY <1>1, <1>2, Frames DEF Kept, ExpiryTimer, gateVars

LEMMA TimePassesKept == Inv /\ TimePasses => Kept
<1> SUFFICES ASSUME Inv, TimePasses PROVE Kept
  OBVIOUS
<1>1. BoundTypes'
  BY DEF TimePasses, Inv, BoundTypes
<1> QED BY <1>1, Frames DEF Kept, TimePasses, gateVars

-----------------------------------------------------------------------------
(* The invariant, and what follows from it.                                *)

LEMMA InitInv == Init => Inv
<1> SUFFICES ASSUME Init PROVE Inv
  OBVIOUS
<1>1. BindingInv
  BY InitBinding DEF Init
<1>2. UserJobs
  BY DEF Init, BindingInit, UserJobs, UserJob
<1>3. SessionTypes /\ SessionSound
  BY DEF Init, SessionTypes, SessionSound
<1>4. CycleTypes
  <2>1. [at |-> "none", binding |-> NoBinding] \in Candidates
    BY NoBindingType DEF Candidates
  <2> QED BY <2>1 DEF Init, CycleTypes, Statuses
<1>5. WatchInv
  BY DEF Init, WatchInv, WatchTypes, WatchSound, NoWatch
<1>6. GateTypes /\ BoundTypes
  BY EmptySeq DEF Init, GateTypes, BoundTypes
<1> QED BY <1>1, <1>2, <1>3, <1>4, <1>5, <1>6 DEF Inv

LEMMA StepKept == Inv /\ [Next]_vars => Kept
<1> SUFFICES ASSUME Inv, [Next]_vars PROVE Kept
  OBVIOUS
<1>1. CASE UNCHANGED vars
  BY <1>1, Frames DEF vars, Kept, gateVars
<1>2. CASE GateStep
  BY <1>2, GateOnlyKept, MutateBindingKept, RetryKept, CancelKept, CancelledKept, ListedKept, CreatedKept,
     ActivateKept, ActivatedKept, VerifyKept DEF GateStep
<1>3. CASE \E r \in Runtimes : \E op \in UserOps : CallBinding(op, r)
  <2>1. PICK r \in Runtimes, op \in UserOps : CallBinding(op, r)
    BY <1>3
  <2>2. Mutation(op, r, 0) \in Mutations
    BY DEF Mutation, Mutations
  <2> QED BY <2>1, <2>2, CallKept DEF CallBinding
<1>4. CASE \E op \in {"start", "cancel", "retry"} : CallPairing(op)
  <2>1. PICK op \in {"start", "cancel", "retry"} : CallPairing(op)
    BY <1>4
  <2>2. Mutation(op, "any", 0) \in Mutations
    BY DEF Mutation, Mutations
  <2> QED BY <2>1, <2>2, CallKept DEF CallPairing
<1>5. CASE \E r \in Runtimes : JobStep(r) \/ JobEnds(r) \/ Mark(r)
  BY <1>5, JobStepKept, JobEndsKept, MarkKept
<1>6. CASE \E g \in Sessions : \/ PollEnds(g) \/ CycleEnds(g)
                               \/ \E S \in SUBSET Runtimes \ {{}} : Selected(g, S)
                               \/ \E r \in Runtimes : CandidateStep(g, r)
  BY <1>6, PollEndsKept, CycleEndsKept, SelectedKept, OnlineKept, NotOnlineKept DEF CandidateStep
<1>7. CASE WatchStep
  BY <1>7, WatchLoopKept, WatchCycleKept, PollRetryFailsKept, AckRetryKept DEF WatchStep
<1>8. CASE \E q \in Requests : RetryRequested(q)
  BY <1>8, RetryRequestedKept
<1>9. CASE ExpiryTimer \/ TimePasses
  BY <1>9, ExpiryTimerKept, TimePassesKept
<1> QED BY <1>1, <1>2, <1>3, <1>4, <1>5, <1>6, <1>7, <1>8, <1>9 DEF Next, UserOps

LEMMA NextInv == Inv /\ [Next]_vars => Inv'
  BY StepKept, BindingStepSound DEF Kept, Inv

LEMMA Invariance == Spec => []Inv
  BY InitInv, NextInv, PTL DEF Spec

(* Every variable has a value of its type: no mutation, job, result or     *)
(* watch of bindings/service.ts and pairing/service.ts is ever in a state  *)
(* that the code does not name.                                            *)
THEOREM TypeCorrect == Spec => []TypeOK
<1>1. Inv => TypeOK
  BY DEF Inv, BindingInv, WatchInv, TypeOK
<1> QED BY <1>1, Invariance, PTL

(* #providerClaims: at most one runtime of a provider ever has a binding,  *)
(* whatever registrations, pairings, connection events and failing writes  *)
(* overlap.                                                                *)
THEOREM OneBindingPerProviderHolds == Spec => []OneBindingPerProvider
<1>1. Inv => OneBindingPerProvider
  BY DEF Inv, BindingInv, Exclusive, Holds, OneBindingPerProvider
<1> QED BY <1>1, Invariance, PTL

(* #consumedRetryRequestIds: a retry request starts at most one cycle,     *)
(* however often it is delivered.                                          *)
THEOREM RetryOnceHolds == Spec => []RetryOnce
<1>1. Inv => RetryOnce
  BY DEF Inv, WatchInv, WatchSound, RetryOnce
<1> QED BY <1>1, Invariance, PTL

(* #register and reregister: only disable() ends a binding that works; a   *)
(* registration that fails at any of its requests or writes does not.      *)
THEOREM KeepsWorkingHolds == Spec => KeepsWorking
<1>1. Inv /\ [Next]_vars =>
        [\A r \in Runtimes : Works(binding[r]) /\ ~Works(binding'[r]) => Job(r).op = "disable"]_bindingVars
  BY StepKept, BindingStepSound DEF Kept, Inv, EndsOnlyDisabled
<1> QED BY <1>1, Invariance, PTL DEF Spec, KeepsWorking

(* createPairingBindingActivator: a candidate is reported as bound only    *)
(* while its binding is enabled and has its credential.                    *)
THEOREM BoundMeansServingHolds == Spec => BoundMeansServing
<1>1. Inv /\ [Next]_vars =>
        [\A g \in Sessions, r \in Runtimes :
            results'[g][r] = "bound" /\ results[g][r] # "bound" => Works(binding[r])]_vars
  BY StepKept DEF Kept, BoundServes
<1> QED BY <1>1, Invariance, PTL DEF Spec, BoundMeansServing

(* A step that changes the state shown is no step of an older session.     *)
Fresh ==
    \A g \in Sessions \ {current} : cycle'[g] = cycle[g] /\ (watch.session = g => watch' = watch)

LEMMA ShownByCurrent ==
    ASSUME Inv, Next, state' # state
    PROVE  Fresh
<1>1. cycle \in [Sessions -> {"none", "polling", "registering", "over"}]
  BY DEF Inv, CycleTypes
<1>2. \A g \in Sessions : CycleOver(g) => \A h \in Sessions \ {g} : cycle'[h] = cycle[h]
  BY <1>1 DEF CycleOver
<1>3. \A g, S : Register(g, S) => \A h \in Sessions \ {g} : cycle'[h] = cycle[h]
  BY <1>1 DEF Register
<1>4. ~UNCHANGED sessionVars
  BY DEF sessionVars
<1>5. ASSUME UNCHANGED <<cycle, watch>> PROVE Fresh
  BY <1>5 DEF Fresh
<1>6. CASE GateStep
  <2>1. CASE Retry
    <3>1. UNCHANGED watch /\ \A h \in Sessions \ {current} : cycle'[h] = cycle[h]
      BY <1>3, <2>1 DEF Retry, RetryFailed, cycleVars, watchVars
    <3> QED BY <3>1 DEF Fresh
  <2>2. CASE Created
    <3>1. UNCHANGED watch /\ \A h \in Sessions \ {current} : cycle'[h] = cycle[h]
      BY <1>1, <2>2 DEF Created, watchVars
    <3> QED BY <3>1 DEF Fresh
  <2>3. CASE Cancel \/ CreateFails
    BY <1>5, <2>3 DEF Cancel, CreateFails, cycleVars, watchVars
  <2>4. CASE \/ MutateBinding \/ Reconciled \/ CancelNothing \/ CycleAwaited \/ ListFails \/ Activate
             \/ \E ok \in BOOLEAN : Activated(ok) \/ Verify(ok)
    BY <1>4, <2>4 DEF MutateBinding, Reconciled, CancelNothing, CycleAwaited, ListFails, Activate, Activated, Verify
  <2>5. CASE Listed \/ \E ok \in BOOLEAN : Cancelled(ok)
    BY <2>5 DEF Listed, Cancelled
  <2> QED BY <1>6, <2>1, <2>2, <2>3, <2>4, <2>5 DEF GateStep
<1>7. ASSUME NEW g \in Sessions, \/ PollEnds(g) \/ CycleEnds(g)
                                 \/ \E S \in SUBSET Runtimes \ {{}} : Selected(g, S)
      PROVE  Fresh
  <2>1. current = g
    BY <1>4, <1>7 DEF PollEnds, CycleEnds, Finished, Selected
  <2>2. \A h \in Sessions \ {g} : cycle'[h] = cycle[h]
    BY <1>2, <1>3, <1>7 DEF PollEnds, CycleEnds, Selected
  <2>3. watch' = watch \/ watch.session = 0
    BY <1>4, <1>7 DEF PollEnds, Selected, watchVars, CycleEnds, Finished, FinishedAny, StartWatch
  <2>4. 0 \notin Sessions
    BY PairingAssumption DEF Sessions
  <2> QED BY <2>1, <2>2, <2>3, <2>4 DEF Fresh
<1>8. CASE WatchStep
  <2>1. current = watch.session
    BY <1>8 DEF WatchStep, WatchLoop, WatchCycle, PollRetryFails, AckRetry, WatchOver, sessionVars
  <2>2. UNCHANGED cycle
    BY <1>8 DEF WatchStep, WatchLoop, WatchCycle, PollRetryFails, AckRetry, WatchOnly, cycleVars
  <2> QED BY <2>1, <2>2 DEF Fresh
<1>9. CASE \E q \in Requests : RetryRequested(q)
  <2>1. current = watch.session
    BY <1>9 DEF RetryRequested
  <2>2. \A h \in Sessions \ {current} : cycle'[h] = cycle[h]
    BY <1>3, <1>9 DEF RetryRequested, RetryFailed, cycleVars
  <2> QED BY <2>1, <2>2 DEF Fresh
<1>10. CASE ExpiryTimer
  BY <1>5, <1>10 DEF ExpiryTimer, cycleVars, watchVars
<1>11. ASSUME NEW r \in Runtimes, \/ JobStep(r) \/ JobEnds(r) \/ Mark(r)
                                  \/ \E op \in {"enable", "disable", "reregister"} : CallBinding(op, r)
                                  \/ \E g \in Sessions : CandidateStep(g, r)
       PROVE  Fresh
  BY <1>4, <1>11 DEF JobStep, JobEnds, Mark, CallBinding, Call, CandidateStep, Online, NotOnline
<1>12. CASE TimePasses \/ \E op \in {"start", "cancel", "retry"} : CallPairing(op)
  BY <1>4, <1>12 DEF TimePasses, CallPairing, Call
<1> QED BY <1>6, <1>7, <1>8, <1>9, <1>10, <1>11, <1>12 DEF Next

(* #generation: after cancel() or the expiry timer the state shown stays   *)
(* until the next start, and after another start no step of an older       *)
(* session's cycle or watch changes it.                                    *)
THEOREM StaleIsSilentHolds == Spec => StaleIsSilent
<1>1. Inv /\ [Next]_vars =>
        [/\ current = 0 => state' = state
         /\ \A g \in Sessions \ {current} :
               cycle'[g] # cycle[g] \/ (watch.session = g /\ watch' # watch) => state' = state]_vars
  BY StepKept, ShownByCurrent DEF Kept, Silent, Fresh
<1> QED BY <1>1, Invariance, PTL DEF Spec, StaleIsSilent

=============================================================================
