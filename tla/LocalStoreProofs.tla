--------------------------- MODULE LocalStoreProofs ---------------------------
(***************************************************************************)
(* What the local store guarantees across failed writes, unreadable files  *)
(* and crashes, for every set of runtimes, providers, nodes, token         *)
(* references and identities.                                              *)
(***************************************************************************)
EXTENDS LocalStore, FiniteSetTheorems, TLAPS

-----------------------------------------------------------------------------
(* The inductive invariant.                                                *)

Readable == disk.corrupt \cap {"state", "credentials"} = {}
Loaded == pc \notin {"closed", "read"}
Open == {"ready"} \cup Operations

(* What the process holds: the bindings that it works with agree with the  *)
(* tokens beside them, and so does every pair that the operation under way *)
(* is about to make current.                                               *)
MemorySound ==
    /\ ~Loaded => mem.state = Missing /\ mem.credentials = Missing
    /\ Loaded => mem.state \in StateFiles /\ mem.credentials \in CredentialFiles
    /\ pc \in {"reconcile", "orphans"} \cup Open => CrossFile(mem.state.bindings, mem.credentials.tokens)
    /\ pc \in {"save", "removeState"} => CrossFile(draft.bindings, mem.credentials.tokens)
    /\ pc \in {"commitCredentials", "commitState"} => CrossFile(draft.bindings, draft.tokens)
    /\ pc \in {"commitCleanup", "removeCredentials"} => CrossFile(mem.state.bindings, draft.tokens)

(* The identity in the files is the one handed out; only an open() that    *)
(* finds no file, or no credentials beside a state, draws one.             *)
IdentitySound ==
    /\ \A k, l \in known : k = l
    /\ Readable /\ known # {} =>
          /\ disk.state # Missing /\ disk.credentials # Missing
          /\ \A k \in known : k = <<disk.state.install, disk.credentials.secret>>
    /\ Loaded => Readable
    /\ pc = "initState" => disk.state = Missing /\ disk.credentials = Missing
    /\ pc = "initCredentials" =>
          disk.state # Missing /\ disk.credentials = Missing /\ disk.state.install = mem.state.install
    /\ Loaded /\ pc \notin {"initState", "initCredentials"} =>
          /\ disk.state # Missing /\ disk.state.install = mem.state.install
          /\ disk.credentials # Missing /\ disk.credentials.secret = mem.credentials.secret

(* Every token of the first is a token of the second.                      *)
Covers(tokens, more) == \A ref \in Refs : tokens[ref] # NoOwner => more[ref] = tokens[ref]

IsSettled(bindings) == \A r \in Bound(bindings) : bindings[r].registration \notin {"online", "registering"}

(* An operation changes one binding.                                       *)
OneChange == \E r \in Runtimes : \A other \in Runtimes \ {r} : draft.bindings[other] = mem.state.bindings[other]

(* What the files hold, at each step of open() and of the operations.      *)
FilesSound ==
    /\ Openable
    /\ pc = "initState" => mem.state.bindings = NoBindings
    /\ pc = "initCredentials" => disk.state = mem.state /\ Bound(mem.state.bindings) = {}
    /\ pc \in {"settle", "orphans"} => disk.state = mem.state /\ disk.credentials = mem.credentials
    /\ pc = "orphans" => IsSettled(mem.state.bindings)
    /\ pc = "reconcile" =>
          /\ disk.credentials = mem.credentials
          /\ mem.state.bindings = [r \in Runtimes |-> Settled(disk.state.bindings[r], disk.credentials.tokens)]
    /\ pc \in Open => disk.state = mem.state /\ Covers(mem.credentials.tokens, disk.credentials.tokens)
    /\ pc \in {"commitCredentials", "commitState"} => Covers(mem.credentials.tokens, draft.tokens)
    /\ pc = "commitState" => disk.credentials.tokens = draft.tokens
    /\ pc \in {"save", "commitCredentials", "commitState", "removeState"} => OneChange

-----------------------------------------------------------------------------
(* The values of the variables, and what one step does to them.            *)

Disks == [state : StateFiles \cup {Missing}, credentials : CredentialFiles \cup {Missing},
          config : BOOLEAN, corrupt : SUBSET {"state", "credentials", "config"}]
Memories == [state : StateFiles \cup {Missing}, credentials : CredentialFiles \cup {Missing}, warning : BOOLEAN]
TokenMaps == [Refs -> Owners \cup {NoOwner}]
Drafts == [bindings : BindingMaps, tokens : TokenMaps]

LEMMA TypeParts ==
    TypeOK <=> /\ disk \in Disks /\ mem \in Memories /\ draft \in Drafts
               /\ pc \in {"closed", "ready"} \cup Opening \cup Operations
               /\ known \in SUBSET (Ids \X Ids)
  BY DEF TypeOK, Disks, Memories, Drafts, TokenMaps

LEMMA StateWritten ==
    ASSUME disk \in Disks, NEW v \in StateFiles, NEW outcome \in Outcomes, AtomicWrite("state", v, outcome)
    PROVE  /\ disk' \in Disks
           /\ disk'.credentials = disk.credentials /\ disk'.corrupt = disk.corrupt
           /\ disk'.state = IF outcome = "failed" THEN disk.state ELSE v
<1>1. CASE outcome = "failed"
  BY <1>1 DEF AtomicWrite
<1>2. CASE outcome # "failed"
  <2>1. disk' = [disk EXCEPT !["state"] = v]
    BY <1>2 DEF AtomicWrite
  <2>2. disk' = [disk EXCEPT !.state = v]
    BY <2>1
  <2> QED BY <1>2, <2>2 DEF Disks
<1> QED BY <1>1, <1>2

LEMMA CredentialsWritten ==
    ASSUME disk \in Disks, NEW v \in CredentialFiles, NEW outcome \in Outcomes, AtomicWrite("credentials", v, outcome)
    PROVE  /\ disk' \in Disks
           /\ disk'.state = disk.state /\ disk'.corrupt = disk.corrupt
           /\ disk'.credentials = IF outcome = "failed" THEN disk.credentials ELSE v
<1>1. CASE outcome = "failed"
  BY <1>1 DEF AtomicWrite
<1>2. CASE outcome # "failed"
  <2>1. disk' = [disk EXCEPT !["credentials"] = v]
    BY <1>2 DEF AtomicWrite
  <2>2. disk' = [disk EXCEPT !.credentials = v]
    BY <2>1
  <2> QED BY <1>2, <2>2 DEF Disks
<1> QED BY <1>1, <1>2

LEMMA ConfigSetAside ==
    ASSUME disk \in Disks, Quarantine("config", FALSE)
    PROVE  disk' \in Disks /\ disk'.state = disk.state /\ disk'.credentials = disk.credentials /\ (Readable' <=> Readable)
<1>1. CASE disk' = disk
  BY <1>1 DEF Readable
<1>2. CASE disk' = [disk EXCEPT !["config"] = FALSE, !.corrupt = @ \cup {"config"}]
  <2>1. disk' = [disk EXCEPT !.config = FALSE, !.corrupt = disk.corrupt \cup {"config"}]
    BY <1>2
  <2>2. disk.corrupt \cup {"config"} \in SUBSET {"state", "credentials", "config"}
    BY DEF Disks
  <2>3. disk' \in Disks /\ disk'.state = disk.state /\ disk'.credentials = disk.credentials
        /\ disk'.corrupt = disk.corrupt \cup {"config"}
    BY <2>1, <2>2 DEF Disks
  <2> QED BY <2>3 DEF Readable
<1> QED BY <1>1, <1>2 DEF Quarantine

LEMMA FileSetAside ==
    ASSUME disk \in Disks, NEW file \in {"state", "credentials"}, Quarantine(file, Missing)
    PROVE  disk' \in Disks /\ (disk' = disk \/ ~Readable')
<1>1. CASE disk' = disk
  BY <1>1
<1>2. CASE file = "state" /\ disk' = [disk EXCEPT ![file] = Missing, !.corrupt = @ \cup {file}]
  <2>1. disk' = [disk EXCEPT !.state = Missing, !.corrupt = disk.corrupt \cup {"state"}]
    BY <1>2
  <2>2. disk.corrupt \cup {"state"} \in SUBSET {"state", "credentials", "config"}
    BY DEF Disks
  <2>3. disk' \in Disks /\ disk'.corrupt = disk.corrupt \cup {"state"}
    BY <2>1, <2>2 DEF Disks
  <2> QED BY <2>3 DEF Readable
<1>3. CASE file = "credentials" /\ disk' = [disk EXCEPT ![file] = Missing, !.corrupt = @ \cup {file}]
  <2>1. disk' = [disk EXCEPT !.credentials = Missing, !.corrupt = disk.corrupt \cup {"credentials"}]
    BY <1>3
  <2>2. disk.corrupt \cup {"credentials"} \in SUBSET {"state", "credentials", "config"}
    BY DEF Disks
  <2>3. disk' \in Disks /\ disk'.corrupt = disk.corrupt \cup {"credentials"}
    BY <2>1, <2>2 DEF Disks
  <2> QED BY <2>3 DEF Readable
<1> QED BY <1>1, <1>2, <1>3 DEF Quarantine

LEMMA NothingTypes == NoBindings \in BindingMaps /\ NoTokens \in TokenMaps /\ Nothing \in Drafts
<1>1. NoBindings \in BindingMaps /\ NoTokens \in TokenMaps
  BY DEF NoBindings, BindingMaps, NoTokens, TokenMaps
<1> QED BY <1>1 DEF Nothing, Drafts

LEMMA UnloadedTypes == Unloaded \in Memories /\ Unloaded.state = Missing /\ Unloaded.credentials = Missing
  BY DEF Unloaded, Memories

LEMMA FileFields ==
    /\ \A s \in StateFiles : s.install \in Ids /\ s.bindings \in BindingMaps /\ s # Missing
    /\ \A c \in CredentialFiles : c.secret \in Ids /\ c.tokens \in TokenMaps /\ c # Missing
  BY UndefinedAssumption DEF StateFiles, CredentialFiles, TokenMaps

(* A file with other bindings, or other tokens.                            *)
WithBindings(s, m) == [s EXCEPT !.bindings = m]
WithTokens(c, t) == [c EXCEPT !.tokens = t]

LEMMA WithBindingsTypes ==
    ASSUME NEW s \in StateFiles, NEW m \in BindingMaps
    PROVE  /\ WithBindings(s, m) \in StateFiles
           /\ WithBindings(s, m).bindings = m /\ WithBindings(s, m).install = s.install
  BY DEF WithBindings, StateFiles

LEMMA WithTokensTypes ==
    ASSUME NEW c \in CredentialFiles, NEW t \in TokenMaps
    PROVE  /\ WithTokens(c, t) \in CredentialFiles
           /\ WithTokens(c, t).tokens = t /\ WithTokens(c, t).secret = c.secret
  BY DEF WithTokens, CredentialFiles, TokenMaps

LEMMA MemoryBindings ==
    ASSUME mem \in Memories, mem.state \in StateFiles, NEW m \in BindingMaps,
           mem' = [mem EXCEPT !.state.bindings = m]
    PROVE  mem' \in Memories /\ mem'.state = WithBindings(mem.state, m) /\ mem'.credentials = mem.credentials
<1> DEFINE s == WithBindings(mem.state, m)
<1>1. mem' = [mem EXCEPT !.state = s]
  BY DEF WithBindings
<1>2. s \in StateFiles
  BY WithBindingsTypes
<1> HIDE DEF s
<1>3. mem' \in Memories /\ mem'.state = s /\ mem'.credentials = mem.credentials
  BY <1>1, <1>2 DEF Memories
<1> QED BY <1>3 DEF s

LEMMA MemoryTokens ==
    ASSUME mem \in Memories, mem.credentials \in CredentialFiles, NEW t \in TokenMaps,
           mem' = [mem EXCEPT !.credentials.tokens = t]
    PROVE  mem' \in Memories /\ mem'.credentials = WithTokens(mem.credentials, t) /\ mem'.state = mem.state
<1> DEFINE c == WithTokens(mem.credentials, t)
<1>1. mem' = [mem EXCEPT !.credentials = c]
  BY DEF WithTokens
<1>2. c \in CredentialFiles
  BY WithTokensTypes
<1> HIDE DEF c
<1>3. mem' \in Memories /\ mem'.credentials = c /\ mem'.state = mem.state
  BY <1>1, <1>2 DEF Memories
<1> QED BY <1>3 DEF c

LEMMA MemoryBoth ==
    ASSUME mem \in Memories, mem.state \in StateFiles, mem.credentials \in CredentialFiles,
           NEW m \in BindingMaps, NEW t \in TokenMaps,
           mem' = [mem EXCEPT !.state.bindings = m, !.credentials.tokens = t]
    PROVE  mem' \in Memories /\ mem'.state = WithBindings(mem.state, m) /\ mem'.credentials = WithTokens(mem.credentials, t)
<1> DEFINE s == WithBindings(mem.state, m)
           c == WithTokens(mem.credentials, t)
<1>1. mem' = [mem EXCEPT !.state = s, !.credentials = c]
  BY DEF WithBindings, WithTokens, Memories
<1>2. s \in StateFiles /\ c \in CredentialFiles
  BY WithBindingsTypes, WithTokensTypes
<1> HIDE DEF s, c
<1>3. mem' \in Memories /\ mem'.state = s /\ mem'.credentials = c
  BY <1>1, <1>2 DEF Memories
<1> QED BY <1>3 DEF s, c

-----------------------------------------------------------------------------
(* Bindings and tokens that agree.                                         *)

Owner(r, b) == [runtime |-> r, provider |-> b.provider, node |-> b.node]

LEMMA BindingFields ==
    ASSUME NEW m \in BindingMaps, NEW r \in Bound(m)
    PROVE  /\ r \in Runtimes /\ m[r] \in Bindings /\ m[r] # NoBinding
           /\ m[r].ref \in Refs \cup {NoRef}
           /\ Owner(r, m[r]) # NoOwner
           /\ m[r].enabled => m[r].ref # NoRef
<1>1. r \in Runtimes /\ m[r] \in Bindings /\ m[r] # NoBinding
  BY DEF Bound, BindingMaps
<1>2. m[r].ref \in Refs \cup {NoRef} /\ m[r].provider \in Providers /\ m[r].node \in Nodes \cup {NoNode}
  BY <1>1 DEF Bindings
<1>3. m[r].enabled => m[r].ref # NoRef
  BY <1>1 DEF Bindings, ValidBinding, Complete
<1>4. Owner(r, m[r]) \in [runtime : Runtimes, provider : Providers, node : Nodes \cup {NoNode}]
  BY <1>1, <1>2 DEF Owner
<1> QED BY <1>1, <1>2, <1>3, <1>4, UndefinedAssumption

LEMMA CoversCross ==
    ASSUME NEW m \in BindingMaps, NEW t \in TokenMaps, NEW u \in TokenMaps, CrossFile(m, t), Covers(t, u)
    PROVE  CrossFile(m, u)
<1>1. ASSUME NEW r \in Bound(m), m[r].ref # NoRef PROVE u[m[r].ref] = Owner(r, m[r])
  <2>1. m[r].ref \in Refs /\ Owner(r, m[r]) # NoOwner
    BY <1>1, BindingFields
  <2>2. t[m[r].ref] = Owner(r, m[r])
    BY <1>1 DEF CrossFile, Owner
  <2> QED BY <2>1, <2>2 DEF Covers
<1> QED BY <1>1 DEF CrossFile, Owner

LEMMA OnlyTypes == ASSUME NEW t \in TokenMaps, NEW keep PROVE Only(t, keep) \in TokenMaps
  BY DEF Only, TokenMaps

LEMMA OnlyCross ==
    ASSUME NEW m \in BindingMaps, NEW t \in TokenMaps, NEW keep, CrossFile(m, t), Referenced(m) \subseteq keep
    PROVE  CrossFile(m, Only(t, keep))
<1>1. ASSUME NEW r \in Bound(m), m[r].ref # NoRef PROVE Only(t, keep)[m[r].ref] = Owner(r, m[r])
  <2>1. m[r].ref \in Refs
    BY <1>1, BindingFields
  <2>2. m[r].ref \in keep
    BY <1>1 DEF Referenced
  <2>3. t[m[r].ref] = Owner(r, m[r])
    BY <1>1 DEF CrossFile, Owner
  <2> QED BY <2>1, <2>2, <2>3 DEF Only
<1> QED BY <1>1 DEF CrossFile, Owner

LEMMA UnboundCross ==
    ASSUME NEW m \in BindingMaps, NEW t, Bound(m) = {}
    PROVE  CrossFile(m, t)
  BY DEF CrossFile

LEMMA RemovedCross ==
    ASSUME NEW m \in BindingMaps, NEW t, CrossFile(m, t), NEW r \in Runtimes
    PROVE  [m EXCEPT ![r] = NoBinding] \in BindingMaps /\ CrossFile([m EXCEPT ![r] = NoBinding], t)
<1> DEFINE n == [m EXCEPT ![r] = NoBinding]
<1>1. n \in BindingMaps
  BY DEF BindingMaps
<1>2. \A s \in Bound(n) : s \in Bound(m) /\ n[s] = m[s]
  BY DEF Bound, BindingMaps
<1>3. CrossFile(n, t)
  BY <1>2 DEF CrossFile
<1> QED BY <1>1, <1>3

(* What an open() makes of a binding.                                      *)
LEMMA SettledBinding ==
    ASSUME NEW b \in Bindings, NEW t
    PROVE  /\ Settled(b, t) \in Bindings /\ Settled(b, t) # NoBinding
           /\ Settled(b, t).provider = b.provider /\ Settled(b, t).node = b.node /\ Settled(b, t).ref = b.ref
           /\ Settled(b, t).registration \notin {"online", "registering"}
<1> DEFINE All == [provider : Providers, node : Nodes \cup {NoNode}, ref : Refs \cup {NoRef},
                   enabled : BOOLEAN, registration : RegistrationStates]
           off == [b EXCEPT !.registration = "offline"]
           err == [b EXCEPT !.registration = "error", !.enabled = FALSE]
<1>0. b \in All /\ ValidBinding(b) /\ b # NoBinding
  BY UndefinedAssumption DEF Bindings
<1>1. /\ off \in All /\ off.provider = b.provider /\ off.node = b.node /\ off.ref = b.ref
      /\ off.registration = "offline"
  BY <1>0 DEF RegistrationStates
<1>2. /\ err \in All /\ err.provider = b.provider /\ err.node = b.node /\ err.ref = b.ref
      /\ err.registration = "error" /\ err.enabled = FALSE
  BY <1>0 DEF RegistrationStates
<1>3. Settled(b, t) = IF b.registration \notin {"online", "registering"} THEN b
                      ELSE IF b.registration = "online" \/ (Complete(b) /\ t[b.ref] # NoOwner) THEN off ELSE err
  BY <1>0 DEF Settled
<1>4. Bindings = {x \in All : ValidBinding(x)}
  BY DEF Bindings
<1> HIDE DEF off, err, All
<1>5. Complete(b) => ValidBinding(off)
  BY <1>0, <1>1 DEF ValidBinding, Complete
<1>6. ValidBinding(err)
  BY <1>0, <1>2 DEF ValidBinding, Complete
<1>7. b.registration = "online" => Complete(b)
  BY <1>0 DEF ValidBinding
<1>8. CASE b.registration \notin {"online", "registering"}
  BY <1>0, <1>3, <1>8
<1>9. CASE b.registration \in {"online", "registering"} /\ (b.registration = "online" \/ (Complete(b) /\ t[b.ref] # NoOwner))
  <2>1. Settled(b, t) = off
    BY <1>3, <1>9
  <2>2. off \in Bindings
    BY <1>1, <1>4, <1>5, <1>7, <1>9
  <2> QED BY <1>1, <2>1, <2>2, UndefinedAssumption
<1>10. CASE b.registration \in {"online", "registering"} /\ ~(b.registration = "online" \/ (Complete(b) /\ t[b.ref] # NoOwner))
  <2>1. Settled(b, t) = err
    BY <1>3, <1>10
  <2>2. err \in Bindings
    BY <1>2, <1>4, <1>6
  <2> QED BY <1>2, <2>1, <2>2, UndefinedAssumption
<1> QED BY <1>8, <1>9, <1>10

LEMMA SettledMap ==
    ASSUME NEW m \in BindingMaps, NEW t, CrossFile(m, t)
    PROVE  LET n == [r \in Runtimes |-> Settled(m[r], t)]
           IN  n \in BindingMaps /\ CrossFile(n, t) /\ IsSettled(n)
<1> DEFINE n == [r \in Runtimes |-> Settled(m[r], t)]
<1>1. Settled(NoBinding, t) = NoBinding
  BY DEF Settled
<1>2. \A r \in Runtimes : m[r] = NoBinding \/ m[r] \in Bindings
  BY DEF BindingMaps
<1>3. \A r \in Runtimes : n[r] \in Bindings \cup {NoBinding} /\ (m[r] = NoBinding => n[r] = NoBinding)
  BY <1>1, <1>2, SettledBinding
<1>4. n \in BindingMaps
  BY <1>3 DEF BindingMaps
<1>5. \A r \in Bound(n) : /\ r \in Bound(m) /\ n[r].registration \notin {"online", "registering"}
                          /\ n[r].provider = m[r].provider /\ n[r].node = m[r].node /\ n[r].ref = m[r].ref
  BY <1>2, <1>3, SettledBinding DEF Bound
<1> HIDE DEF n
<1>6. CrossFile(n, t) /\ IsSettled(n)
  BY <1>5 DEF CrossFile, IsSettled
<1> QED BY <1>4, <1>6 DEF n

-----------------------------------------------------------------------------
(* What holds whatever fails, and, while no directory sync fails, what a   *)
(* step does to the bindings on disk and in memory.                        *)

Core == TypeOK /\ MemorySound /\ IdentitySound

OnDisk == IF disk.state = Missing THEN NoBindings ELSE disk.state.bindings

Stays ==
    /\ Readable' <=> Readable
    /\ Readable => OnDisk' = OnDisk
    /\ pc' \in Open => pc \in Open /\ mem'.state.bindings = mem.state.bindings

Loses == pc \notin Open /\ pc' \notin Open /\ ~Readable'

Settles ==
    /\ pc \notin Open /\ pc' \notin Open /\ Readable /\ Readable'
    /\ disk.state # Missing /\ disk.credentials # Missing
    /\ OnDisk' = [r \in Runtimes |-> Settled(OnDisk[r], disk.credentials.tokens)]

Opens ==
    /\ pc \notin Open /\ pc' \in Open /\ Readable /\ Readable'
    /\ OnDisk' = OnDisk /\ mem'.state.bindings = OnDisk /\ IsSettled(OnDisk)

Puts ==
    /\ pc \in Open /\ pc' \in Open /\ Readable /\ Readable'
    /\ OnDisk' = mem'.state.bindings
    /\ \E r \in Runtimes : \A other \in Runtimes \ {r} : mem'.state.bindings[other] = mem.state.bindings[other]

TableStep == Stays \/ Loses \/ Settles \/ Opens \/ Puts

(* The table keeps its bindings, but for a process that ends.              *)
Kept == Core' /\ (FilesSound /\ ~SyncMayFail => FilesSound' /\ TableStep)

LEMMA SyncedOutcomes == ASSUME ~SyncMayFail, NEW outcome \in Outcomes PROVE outcome \in {"done", "failed"}
  BY DEF Outcomes

LEMMA CoreTypes ==
    ASSUME Core
    PROVE  /\ disk \in Disks /\ mem \in Memories /\ draft \in Drafts
           /\ known \in SUBSET (Ids \X Ids)
           /\ pc \in {"closed", "ready"} \cup Opening \cup Operations
           /\ draft.bindings \in BindingMaps /\ draft.tokens \in TokenMaps
           /\ disk.state # Missing => disk.state \in StateFiles /\ disk.state.bindings \in BindingMaps
           /\ disk.credentials # Missing => disk.credentials \in CredentialFiles /\ disk.credentials.tokens \in TokenMaps
           /\ Loaded => /\ mem.state \in StateFiles /\ mem.credentials \in CredentialFiles
                        /\ mem.state.bindings \in BindingMaps /\ mem.credentials.tokens \in TokenMaps
                        /\ mem.state.install \in Ids /\ mem.credentials.secret \in Ids
<1>1. /\ disk \in Disks /\ mem \in Memories /\ draft \in Drafts /\ known \in SUBSET (Ids \X Ids)
      /\ pc \in {"closed", "ready"} \cup Opening \cup Operations
  BY TypeParts DEF Core
<1>2. draft.bindings \in BindingMaps /\ draft.tokens \in TokenMaps
  BY <1>1 DEF Drafts
<1>3. /\ disk.state # Missing => disk.state \in StateFiles
      /\ disk.credentials # Missing => disk.credentials \in CredentialFiles
  BY <1>1 DEF Disks
<1>4. Loaded => mem.state \in StateFiles /\ mem.credentials \in CredentialFiles
  BY DEF Core, MemorySound
<1> QED BY <1>1, <1>2, <1>3, <1>4, FileFields

(* The types of a step's result.                                           *)
LEMMA NextTypes ==
    ASSUME disk' \in Disks, mem' \in Memories, draft' \in Drafts, known' \in SUBSET (Ids \X Ids),
           pc' \in {"closed", "ready"} \cup Opening \cup Operations
    PROVE  TypeOK'
  BY DEF TypeOK, Disks, Memories, Drafts, TokenMaps

(* The process is gone; what it leaves must be what was handed out.        *)
LEMMA CloseCore ==
    ASSUME Core, Close, disk' \in Disks,
           Readable' /\ known # {} =>
               /\ disk'.state # Missing /\ disk'.credentials # Missing
               /\ \A k \in known : k = <<disk'.state.install, disk'.credentials.secret>>
    PROVE  Core' /\ pc' \notin Open /\ (Openable' => FilesSound')
<1>1. /\ mem' \in Memories /\ mem'.state = Missing /\ mem'.credentials = Missing
      /\ draft' \in Drafts /\ pc' = "closed" /\ known' = known
  BY UnloadedTypes, NothingTypes DEF Close
<1>2. TypeOK'
  BY <1>1, NextTypes, CoreTypes DEF Opening
<1>3. MemorySound'
  BY <1>1 DEF MemorySound, Loaded, Open, Operations
<1>4. IdentitySound'
  BY <1>1 DEF IdentitySound, Core, Loaded
<1>5. Openable' => FilesSound'
  BY <1>1 DEF FilesSound, Open, Operations
<1> QED BY <1>1, <1>2, <1>3, <1>4, <1>5 DEF Core, Open, Operations

(* ... in particular when it leaves the files alone.                       *)
LEMMA CloseKept ==
    ASSUME Core, Close, disk' \in Disks, disk'.state = disk.state, disk'.credentials = disk.credentials,
           disk'.corrupt = disk.corrupt
    PROVE  Kept
<1>1. Readable' <=> Readable
  BY DEF Readable
<1>2. Core' /\ pc' \notin Open /\ (Openable' => FilesSound')
  BY <1>1, CloseCore DEF Core, IdentitySound
<1>3. Openable => Openable'
  BY DEF Openable
<1>4. Stays
  BY <1>1, <1>2 DEF Stays, OnDisk
<1> QED BY <1>2, <1>3, <1>4 DEF Kept, FilesSound, TableStep

LEMMA OpenConfigKept == Core /\ OpenConfig => Kept
<1> SUFFICES ASSUME Core, OpenConfig PROVE Kept
  OBVIOUS
<1>1. pc = "closed" /\ pc' = "read" /\ draft' = draft /\ known' = known
  BY DEF OpenConfig
<1>2. mem' \in Memories /\ mem'.state = Missing /\ mem'.credentials = Missing
  <2> DEFINE w == "config" \in disk.corrupt
  <2>1. mem' = [Unloaded EXCEPT !.warning = w] \/ mem' = [Unloaded EXCEPT !.warning = TRUE]
    BY DEF OpenConfig
  <2>2. w \in BOOLEAN
    OBVIOUS
  <2> HIDE DEF w
  <2> QED BY <2>1, <2>2, UnloadedTypes DEF Memories
<1>3. disk' \in Disks /\ disk'.state = disk.state /\ disk'.credentials = disk.credentials /\ (Readable' <=> Readable)
  <2>1. CASE disk' = disk
    BY <2>1, CoreTypes DEF Readable
  <2>2. CASE Quarantine("config", FALSE)
    BY <2>2, ConfigSetAside, CoreTypes
  <2> QED BY <2>1, <2>2 DEF OpenConfig
<1>4. TypeOK'
  BY <1>1, <1>2, <1>3, NextTypes, CoreTypes DEF Opening
<1>5. MemorySound'
  BY <1>1, <1>2 DEF MemorySound, Loaded, Open, Operations
<1>6. IdentitySound'
  BY <1>1, <1>3 DEF Core, IdentitySound, Loaded
<1>7. FilesSound => FilesSound'
  BY <1>1, <1>3 DEF FilesSound, Openable, Readable, Open, Operations
<1>8. Stays
  BY <1>1, <1>3 DEF Stays, OnDisk, Open, Operations
<1> QED BY <1>4, <1>5, <1>6, <1>7, <1>8 DEF Kept, Core, TableStep

LEMMA EndsKept == Core /\ (OpenRefused \/ Crash) => Kept
  BY CloseKept, CoreTypes DEF OpenRefused, Crash

LEMMA OpenUnreadableKept == Core /\ OpenUnreadable => Kept
<1> SUFFICES ASSUME Core, OpenUnreadable PROVE Kept
  OBVIOUS
<1>1. Close /\ pc = "read"
  BY DEF OpenUnreadable
<1>2. PICK file \in {"state", "credentials"} : Quarantine(file, Missing)
  BY DEF OpenUnreadable
<1>3. disk' \in Disks /\ (disk' = disk \/ ~Readable')
  BY <1>2, FileSetAside, CoreTypes
<1>4. CASE disk' = disk
  BY <1>1, <1>3, <1>4, CloseKept
<1>5. CASE ~Readable'
  <2>1. Core' /\ pc' \notin Open /\ (Openable' => FilesSound')
    BY <1>1, <1>3, <1>5, CloseCore
  <2>2. Openable'
    BY <1>5 DEF Openable, Readable
  <2>3. Loses
    BY <1>1, <1>5, <2>1 DEF Loses, Open, Operations
  <2> QED BY <2>1, <2>2, <2>3 DEF Kept, TableStep
<1> QED BY <1>3, <1>4, <1>5

LEMMA NoneBound == Bound(NoBindings) = {} /\ \A m \in BindingMaps : Bound(m) = {} => m = NoBindings
  BY DEF Bound, NoBindings, BindingMaps

LEMMA OpenReadKept == Core /\ OpenRead => Kept
<1> SUFFICES ASSUME Core, OpenRead PROVE Kept
  OBVIOUS
<1>0. pc = "read" /\ Readable /\ disk' = disk /\ draft' = draft /\ known' = known
  BY DEF OpenRead, Readable
<1>1. CASE /\ disk.state = Missing /\ disk.credentials = Missing
           /\ \E id \in FreshIds :
                 mem' = [mem EXCEPT
                     !.state = [install |-> id, bindings |-> NoBindings],
                     !.credentials = [secret |-> id, tokens |-> NoTokens]]
           /\ pc' = "initState"
  <2>1. PICK id \in FreshIds : mem' = [mem EXCEPT !.state = [install |-> id, bindings |-> NoBindings],
                                                 !.credentials = [secret |-> id, tokens |-> NoTokens]]
    BY <1>1
  <2> DEFINE s == [install |-> id, bindings |-> NoBindings]
             c == [secret |-> id, tokens |-> NoTokens]
  <2>2. s \in StateFiles /\ s.bindings = NoBindings /\ c \in CredentialFiles
    BY NothingTypes DEF FreshIds, StateFiles, CredentialFiles, TokenMaps
  <2>3. mem' = [mem EXCEPT !.state = s, !.credentials = c]
    BY <2>1
  <2> HIDE DEF s, c
  <2>4. mem' \in Memories /\ mem'.state = s /\ mem'.credentials = c
    BY <2>2, <2>3, CoreTypes DEF Memories
  <2>5. TypeOK'
    BY <1>0, <1>1, <2>4, NextTypes, CoreTypes DEF Opening
  <2>6. MemorySound' /\ IdentitySound'
    BY <1>0, <1>1, <2>2, <2>4 DEF MemorySound, IdentitySound, Core, Loaded, Open, Operations, Readable
  <2>7. FilesSound => FilesSound'
    BY <1>0, <1>1, <2>2, <2>4 DEF FilesSound, Openable, Open, Operations
  <2>8. Stays
    BY <1>0, <1>1 DEF Stays, OnDisk, Readable, Open, Operations
  <2> QED BY <2>5, <2>6, <2>7, <2>8 DEF Kept, Core, TableStep
<1>2. CASE /\ disk.state # Missing /\ disk.credentials = Missing
           /\ Bound(disk.state.bindings) = {}
           /\ \E id \in FreshIds :
                 mem' = [mem EXCEPT !.state = disk.state, !.credentials = [secret |-> id, tokens |-> NoTokens]]
           /\ pc' = "initCredentials"
  <2>1. PICK id \in FreshIds : mem' = [mem EXCEPT !.state = disk.state, !.credentials = [secret |-> id, tokens |-> NoTokens]]
    BY <1>2
  <2> DEFINE c == [secret |-> id, tokens |-> NoTokens]
  <2>2. disk.state \in StateFiles /\ c \in CredentialFiles
    BY <1>2, NothingTypes, CoreTypes DEF FreshIds, CredentialFiles, TokenMaps
  <2>3. mem' = [mem EXCEPT !.state = disk.state, !.credentials = c]
    BY <2>1
  <2> HIDE DEF c
  <2>4. mem' \in Memories /\ mem'.state = disk.state /\ mem'.credentials = c
    BY <2>2, <2>3, CoreTypes DEF Memories
  <2>5. TypeOK'
    BY <1>0, <1>2, <2>4, NextTypes, CoreTypes DEF Opening
  <2>6. MemorySound' /\ IdentitySound'
    BY <1>0, <1>2, <2>2, <2>4 DEF MemorySound, IdentitySound, Core, Loaded, Open, Operations, Readable
  <2>7. FilesSound => FilesSound'
    BY <1>0, <1>2, <2>4 DEF FilesSound, Openable, Open, Operations
  <2>8. Stays
    BY <1>0, <1>2 DEF Stays, OnDisk, Readable, Open, Operations
  <2> QED BY <2>5, <2>6, <2>7, <2>8 DEF Kept, Core, TableStep
<1>3. CASE /\ disk.state # Missing /\ disk.credentials # Missing
           /\ mem' = [mem EXCEPT !.state = disk.state, !.credentials = disk.credentials]
           /\ pc' = "settle"
  <2>1. disk.state \in StateFiles /\ disk.credentials \in CredentialFiles
    BY <1>3, CoreTypes
  <2>2. mem' \in Memories /\ mem'.state = disk.state /\ mem'.credentials = disk.credentials
    BY <1>3, <2>1, CoreTypes DEF Memories
  <2>3. TypeOK'
    BY <1>0, <1>3, <2>2, NextTypes, CoreTypes DEF Opening
  <2>4. MemorySound' /\ IdentitySound'
    BY <1>0, <1>3, <2>1, <2>2 DEF MemorySound, IdentitySound, Core, Loaded, Open, Operations, Readable
  <2>5. FilesSound => FilesSound'
    BY <1>0, <1>3, <2>2 DEF FilesSound, Openable, Open, Operations
  <2>6. Stays
    BY <1>0, <1>3 DEF Stays, OnDisk, Readable, Open, Operations
  <2> QED BY <2>3, <2>4, <2>5, <2>6 DEF Kept, Core, TableStep
<1> QED BY <1>1, <1>2, <1>3 DEF OpenRead

LEMMA OpenInitStateKept == ASSUME Core, NEW outcome \in Outcomes, OpenInitState(outcome) PROVE Kept
<1>1. /\ pc = "initState" /\ AtomicWrite("state", mem.state, outcome)
      /\ \/ outcome = "done" /\ pc' = "initCredentials" /\ UNCHANGED <<mem, draft, known>>
         \/ outcome # "done" /\ Close
  BY DEF OpenInitState
<1>2. mem.state \in StateFiles /\ mem.state.bindings \in BindingMaps
  BY <1>1, CoreTypes DEF Loaded
<1>3. /\ disk' \in Disks /\ disk'.credentials = disk.credentials /\ disk'.corrupt = disk.corrupt
      /\ disk'.state = IF outcome = "failed" THEN disk.state ELSE mem.state
  BY <1>1, <1>2, StateWritten, CoreTypes
<1>4. disk.state = Missing /\ disk.credentials = Missing /\ Readable /\ known = {}
  BY <1>1 DEF Core, IdentitySound, Loaded
<1>5. Readable' /\ mem.state # Missing
  BY <1>2, <1>3, <1>4, FileFields DEF Readable
<1>6. FilesSound => OnDisk' = OnDisk /\ Bound(mem.state.bindings) = {}
  BY <1>1, <1>3, <1>4, NoneBound DEF OnDisk, FilesSound
<1>7. CASE outcome = "done"
  <2>1. pc' = "initCredentials" /\ mem' = mem /\ draft' = draft /\ known' = known /\ disk'.state = mem.state
    BY <1>1, <1>3, <1>7
  <2>2. TypeOK'
    BY <1>3, <2>1, NextTypes, CoreTypes DEF Opening
  <2>3. MemorySound' /\ IdentitySound'
    BY <1>1, <1>3, <1>4, <1>5, <2>1 DEF MemorySound, IdentitySound, Core, Loaded, Open, Operations
  <2>4. FilesSound => FilesSound'
    BY <1>3, <1>4, <1>5, <1>6, <2>1 DEF FilesSound, Openable, Open, Operations
  <2>5. FilesSound => Stays
    BY <1>4, <1>5, <1>6, <2>1 DEF Stays, Open, Operations
  <2> QED BY <2>2, <2>3, <2>4, <2>5 DEF Kept, Core, TableStep
<1>8. CASE outcome # "done"
  <2>1. Core' /\ pc' \notin Open /\ (Openable' => FilesSound')
    BY <1>1, <1>3, <1>4, <1>8, CloseCore
  <2>2. FilesSound => Openable'
    BY <1>3, <1>4, <1>6 DEF Openable, FilesSound
  <2>3. FilesSound => Stays
    BY <1>4, <1>5, <1>6, <2>1 DEF Stays
  <2> QED BY <2>1, <2>2, <2>3 DEF Kept, TableStep
<1> QED BY <1>7, <1>8

LEMMA OpenInitCredentialsKept == ASSUME Core, NEW outcome \in Outcomes, OpenInitCredentials(outcome) PROVE Kept
<1>1. /\ pc = "initCredentials" /\ AtomicWrite("credentials", mem.credentials, outcome)
      /\ \/ outcome = "done" /\ pc' = "settle" /\ UNCHANGED <<mem, draft, known>>
         \/ outcome # "done" /\ Close
  BY DEF OpenInitCredentials
<1>2. mem.credentials \in CredentialFiles /\ mem.state.bindings \in BindingMaps
  BY <1>1, CoreTypes DEF Loaded
<1>3. /\ disk' \in Disks /\ disk'.state = disk.state /\ disk'.corrupt = disk.corrupt
      /\ disk'.credentials = IF outcome = "failed" THEN disk.credentials ELSE mem.credentials
  BY <1>1, <1>2, CredentialsWritten, CoreTypes
<1>4. /\ disk.state # Missing /\ disk.state.install = mem.state.install /\ disk.credentials = Missing
      /\ Readable /\ known = {}
  BY <1>1 DEF Core, IdentitySound, Loaded
<1>5. Readable' /\ mem.credentials # Missing
  BY <1>2, <1>3, <1>4, FileFields DEF Readable
<1>6. FilesSound => disk.state = mem.state /\ CrossFile(mem.state.bindings, mem.credentials.tokens)
  BY <1>1, <1>2, UnboundCross DEF FilesSound
<1>7. OnDisk' = OnDisk
  BY <1>3 DEF OnDisk
<1>8. FilesSound => Openable'
  BY <1>1, <1>3, <1>4, <1>6 DEF Openable, FilesSound
<1>9. CASE outcome = "done"
  <2>1. pc' = "settle" /\ mem' = mem /\ draft' = draft /\ known' = known /\ disk'.credentials = mem.credentials
    BY <1>1, <1>3, <1>9
  <2>2. TypeOK'
    BY <1>3, <2>1, NextTypes, CoreTypes DEF Opening
  <2>3. MemorySound' /\ IdentitySound'
    BY <1>1, <1>3, <1>4, <1>5, <2>1 DEF MemorySound, IdentitySound, Core, Loaded, Open, Operations
  <2>4. FilesSound => FilesSound'
    BY <1>3, <1>6, <1>8, <2>1 DEF FilesSound, Open, Operations
  <2>5. Stays
    BY <1>4, <1>5, <1>7, <2>1 DEF Stays, Open, Operations
  <2> QED BY <2>2, <2>3, <2>4, <2>5 DEF Kept, Core, TableStep
<1>10. CASE outcome # "done"
  <2>1. Core' /\ pc' \notin Open /\ (Openable' => FilesSound')
    BY <1>1, <1>3, <1>4, <1>10, CloseCore
  <2>2. Stays
    BY <1>4, <1>5, <1>7, <2>1 DEF Stays
  <2> QED BY <1>8, <2>1, <2>2 DEF Kept, TableStep
<1> QED BY <1>9, <1>10

LEMMA SameBindings == ASSUME NEW s \in StateFiles PROVE WithBindings(s, s.bindings) = s
  BY DEF WithBindings, StateFiles

LEMMA OpenSettleKept == Core /\ OpenSettle => Kept
<1> SUFFICES ASSUME Core, OpenSettle PROVE Kept
  OBVIOUS
<1>0. pc = "settle" /\ disk' = disk
  BY DEF OpenSettle
<1>1. CASE ~CrossFile(mem.state.bindings, mem.credentials.tokens)
  <2>1. Close
    BY <1>1 DEF OpenSettle
  <2> QED BY <1>0, <2>1, CloseKept, CoreTypes
<1>2. CASE CrossFile(mem.state.bindings, mem.credentials.tokens)
  <2> DEFINE settled == [r \in Runtimes |-> Settled(mem.state.bindings[r], mem.credentials.tokens)]
  <2>1. /\ mem' = [mem EXCEPT !.state.bindings = settled]
        /\ pc' = IF settled = mem.state.bindings THEN "orphans" ELSE "reconcile"
        /\ draft' = draft /\ known' = known
    BY <1>2 DEF OpenSettle
  <2>2. mem.state \in StateFiles /\ mem.credentials \in CredentialFiles /\ mem.state.bindings \in BindingMaps
    BY <1>0, CoreTypes DEF Loaded
  <2>3. settled \in BindingMaps /\ CrossFile(settled, mem.credentials.tokens) /\ IsSettled(settled)
    BY <1>2, <2>2, SettledMap
  <2> HIDE DEF settled
  <2>4. mem' \in Memories /\ mem'.state = WithBindings(mem.state, settled) /\ mem'.credentials = mem.credentials
    BY <2>1, <2>2, <2>3, MemoryBindings, CoreTypes
  <2>5. mem'.state \in StateFiles /\ mem'.state.bindings = settled /\ mem'.state.install = mem.state.install
    BY <2>2, <2>3, <2>4, WithBindingsTypes
  <2>6. pc' \in {"orphans", "reconcile"} /\ (pc' = "orphans" => mem'.state = mem.state)
    BY <2>1, <2>2, <2>4, SameBindings
  <2>7. TypeOK'
    BY <1>0, <2>1, <2>4, <2>6, NextTypes, CoreTypes DEF Opening
  <2>8. MemorySound'
    BY <2>2, <2>3, <2>4, <2>5, <2>6 DEF MemorySound, Loaded, Open, Operations
  <2>9. IdentitySound'
    BY <1>0, <2>1, <2>4, <2>5, <2>6 DEF IdentitySound, Core, Loaded, Readable
  <2>10. FilesSound => FilesSound'
    <3> SUFFICES ASSUME FilesSound PROVE FilesSound'
      OBVIOUS
    <3>1. disk.state = mem.state /\ disk.credentials = mem.credentials /\ Openable'
      BY <1>0 DEF FilesSound, Openable
    <3>2. mem'.state.bindings = [r \in Runtimes |-> Settled(disk'.state.bindings[r], disk'.credentials.tokens)]
      BY <1>0, <2>5, <3>1 DEF settled
    <3> QED BY <1>0, <2>3, <2>4, <2>5, <2>6, <3>1, <3>2 DEF FilesSound, Open, Operations
  <2>11. Stays
    BY <1>0, <2>6 DEF Stays, OnDisk, Readable, Open, Operations
  <2> QED BY <2>7, <2>8, <2>9, <2>10, <2>11 DEF Kept, Core, TableStep
<1> QED BY <1>1, <1>2

LEMMA OpenReconcileKept == ASSUME Core, NEW outcome \in Outcomes, OpenReconcile(outcome) PROVE Kept
<1>1. /\ pc = "reconcile" /\ AtomicWrite("state", mem.state, outcome)
      /\ \/ outcome = "done" /\ pc' = "orphans" /\ UNCHANGED <<mem, draft, known>>
         \/ outcome # "done" /\ Close
  BY DEF OpenReconcile
<1>2. mem.state \in StateFiles /\ mem.state.bindings \in BindingMaps /\ mem.state # Missing
  BY <1>1, CoreTypes, FileFields DEF Loaded
<1>3. /\ disk' \in Disks /\ disk'.credentials = disk.credentials /\ disk'.corrupt = disk.corrupt
      /\ disk'.state = IF outcome = "failed" THEN disk.state ELSE mem.state
  BY <1>1, <1>2, StateWritten, CoreTypes
<1>4. /\ disk.state # Missing /\ disk.state.install = mem.state.install
      /\ disk.credentials # Missing /\ disk.credentials.secret = mem.credentials.secret
      /\ Readable /\ Readable'
  BY <1>1, <1>3 DEF Core, IdentitySound, Loaded, Readable
<1>5. disk'.state # Missing /\ disk'.state.install = disk.state.install
  BY <1>2, <1>3, <1>4
<1>6. CASE outcome = "done"
  <2>1. pc' = "orphans" /\ mem' = mem /\ draft' = draft /\ known' = known /\ disk'.state = mem.state
    BY <1>1, <1>3, <1>6
  <2>2. TypeOK'
    BY <1>3, <2>1, NextTypes, CoreTypes DEF Opening
  <2>3. MemorySound' /\ IdentitySound'
    BY <1>1, <1>3, <1>4, <1>5, <2>1 DEF MemorySound, IdentitySound, Core, Loaded, Open, Operations
  <2>4. FilesSound => FilesSound' /\ Settles
    <3> SUFFICES ASSUME FilesSound PROVE FilesSound' /\ Settles
      OBVIOUS
    <3>1. /\ disk.credentials = mem.credentials
          /\ mem.state.bindings = [r \in Runtimes |-> Settled(disk.state.bindings[r], disk.credentials.tokens)]
          /\ CrossFile(disk.state.bindings, disk.credentials.tokens)
      BY <1>1, <1>4 DEF FilesSound, Openable, Readable
    <3>2. disk.state.bindings \in BindingMaps
      BY <1>4, CoreTypes
    <3>3. IsSettled(mem.state.bindings) /\ CrossFile(mem.state.bindings, disk.credentials.tokens)
      BY <3>1, <3>2, SettledMap
    <3>4. Openable'
      BY <1>3, <1>4, <1>5, <2>1, <3>3 DEF Openable
    <3>5. FilesSound'
      BY <1>3, <2>1, <3>1, <3>3, <3>4 DEF FilesSound, Open, Operations
    <3>6. OnDisk = disk.state.bindings /\ OnDisk' = mem.state.bindings
      BY <1>4, <1>5, <2>1 DEF OnDisk
    <3>7. Settles
      BY <1>1, <1>4, <2>1, <3>1, <3>6 DEF Settles, Open, Operations
    <3> QED BY <3>5, <3>7
  <2> QED BY <2>2, <2>3, <2>4 DEF Kept, Core, TableStep
<1>7. CASE outcome # "done"
  <2>1. Core' /\ pc' \notin Open /\ (Openable' => FilesSound')
    BY <1>1, <1>3, <1>4, <1>5, <1>7, CloseCore DEF Core, IdentitySound
  <2>2. ASSUME FilesSound, ~SyncMayFail PROVE FilesSound' /\ Stays
    <3>1. disk'.state = disk.state
      BY <1>3, <1>7, <2>2, SyncedOutcomes
    <3>2. Openable'
      BY <1>3, <2>2, <3>1 DEF Openable, FilesSound
    <3>3. Stays
      BY <1>4, <2>1, <3>1 DEF Stays, OnDisk
    <3> QED BY <2>1, <3>2, <3>3
  <2> QED BY <2>1, <2>2 DEF Kept, TableStep
<1> QED BY <1>6, <1>7

LEMMA OpenOrphansKept == ASSUME Core, NEW outcome \in Outcomes, OpenOrphans(outcome) PROVE Kept
<1> DEFINE kept == Only(mem.credentials.tokens, Referenced(mem.state.bindings))
           opened == [mem EXCEPT !.credentials.tokens = kept]
<1>1. /\ pc = "orphans"
      /\ IF kept = mem.credentials.tokens THEN outcome = "done" /\ UNCHANGED disk
         ELSE AtomicWrite("credentials", opened.credentials, outcome)
      /\ \/ /\ outcome = "done" /\ mem' = opened /\ pc' = "ready"
            /\ known' = known \cup {<<mem.state.install, mem.credentials.secret>>}
            /\ UNCHANGED draft
         \/ outcome # "done" /\ Close
  BY DEF OpenOrphans
<1>2. /\ mem.state \in StateFiles /\ mem.credentials \in CredentialFiles
      /\ mem.state.bindings \in BindingMaps /\ mem.credentials.tokens \in TokenMaps /\ mem \in Memories
      /\ <<mem.state.install, mem.credentials.secret>> \in Ids \X Ids
  BY <1>1, CoreTypes DEF Loaded
<1>3. kept \in TokenMaps /\ CrossFile(mem.state.bindings, kept)
  BY <1>1, <1>2, OnlyTypes, OnlyCross DEF Core, MemorySound
<1> DEFINE c == WithTokens(mem.credentials, kept)
<1> HIDE DEF kept
<1>4. opened = [mem EXCEPT !.credentials = c]
  BY DEF WithTokens
<1>5. c \in CredentialFiles /\ c.tokens = kept /\ c.secret = mem.credentials.secret /\ c # Missing
  BY <1>2, <1>3, WithTokensTypes, FileFields
<1> HIDE DEF c
<1>6. opened \in Memories /\ opened.state = mem.state /\ opened.credentials = c
  BY <1>2, <1>4, <1>5 DEF Memories
<1> HIDE DEF opened
<1>7. /\ disk.state # Missing /\ disk.state.install = mem.state.install
      /\ disk.credentials # Missing /\ disk.credentials.secret = mem.credentials.secret /\ Readable
  BY <1>1 DEF Core, IdentitySound, Loaded
<1>8. /\ disk' \in Disks /\ disk'.state = disk.state /\ disk'.corrupt = disk.corrupt
      /\ disk'.credentials # Missing /\ disk'.credentials.secret = mem.credentials.secret
      /\ disk'.credentials = c \/ (disk'.credentials = disk.credentials /\ (outcome = "failed" \/ kept = mem.credentials.tokens))
  <2>1. CASE kept = mem.credentials.tokens
    BY <1>1, <1>7, <2>1, CoreTypes
  <2>2. CASE kept # mem.credentials.tokens
    <3>1. AtomicWrite("credentials", c, outcome)
      BY <1>1, <1>6, <2>2
    <3> QED BY <1>5, <1>7, <3>1, CredentialsWritten, CoreTypes
  <2> QED BY <2>1, <2>2
<1>9. Readable' /\ OnDisk' = OnDisk /\ OnDisk = disk.state.bindings
  BY <1>7, <1>8 DEF Readable, OnDisk
<1>10. CASE outcome = "done"
  <2>1. mem' = opened /\ pc' = "ready" /\ draft' = draft /\ known' = known \cup {<<mem.state.install, mem.credentials.secret>>}
    BY <1>1, <1>10
  <2>2. TypeOK'
    BY <1>2, <1>6, <1>8, <2>1, NextTypes, CoreTypes
  <2>3. MemorySound'
    BY <1>2, <1>3, <1>5, <1>6, <2>1 DEF MemorySound, Loaded, Open, Operations
  <2>4. IdentitySound'
    <3>1. \A k \in known' : k = <<disk.state.install, mem.credentials.secret>>
      BY <1>7, <2>1 DEF Core, IdentitySound
    <3> QED BY <1>5, <1>6, <1>7, <1>8, <1>9, <2>1, <3>1 DEF IdentitySound, Loaded
  <2>5. FilesSound => FilesSound' /\ Opens
    <3> SUFFICES ASSUME FilesSound PROVE FilesSound' /\ Opens
      OBVIOUS
    <3>1. disk.state = mem.state /\ disk.credentials = mem.credentials /\ IsSettled(mem.state.bindings)
      BY <1>1 DEF FilesSound
    <3>2. disk'.credentials.tokens = kept
      BY <1>5, <1>8, <1>10, <3>1
    <3>3. Openable'
      BY <1>3, <1>7, <1>8, <3>1, <3>2 DEF Openable
    <3>4. FilesSound'
      BY <1>5, <1>6, <1>8, <2>1, <3>1, <3>2, <3>3 DEF FilesSound, Covers, Open, Operations
    <3>5. Opens
      BY <1>1, <1>6, <1>7, <1>9, <2>1, <3>1 DEF Opens, Open, Operations, Opening
    <3> QED BY <3>4, <3>5
  <2> QED BY <2>2, <2>3, <2>4, <2>5 DEF Kept, Core, TableStep
<1>11. CASE outcome # "done"
  <2>1. Core' /\ pc' \notin Open /\ (Openable' => FilesSound')
    BY <1>1, <1>7, <1>8, <1>11, CloseCore DEF Core, IdentitySound
  <2>2. FilesSound => Openable'
    <3> SUFFICES ASSUME FilesSound PROVE Openable'
      OBVIOUS
    <3>1. disk.state = mem.state /\ disk.credentials = mem.credentials /\ CrossFile(disk.state.bindings, disk.credentials.tokens)
      BY <1>1, <1>7 DEF FilesSound, Openable, Readable
    <3>2. CrossFile(disk.state.bindings, disk'.credentials.tokens)
      BY <1>3, <1>5, <1>8, <3>1
    <3> QED BY <1>7, <1>8, <3>2 DEF Openable
  <2>3. Stays
    BY <1>7, <1>9, <2>1 DEF Stays
  <2> QED BY <2>1, <2>2, <2>3 DEF Kept, TableStep
<1> QED BY <1>10, <1>11

(* The operations of an open store.                                        *)

(* The files agree if memory does and they hold what memory does.          *)
LEMMA OpenOpenable ==
    Core /\ pc \in Open /\ disk.state = mem.state /\ Covers(mem.credentials.tokens, disk.credentials.tokens) => Openable
<1> SUFFICES ASSUME Core, pc \in Open, disk.state = mem.state, Covers(mem.credentials.tokens, disk.credentials.tokens)
             PROVE  Openable
  OBVIOUS
<1>1. Loaded /\ pc \notin {"initState", "initCredentials"}
  BY DEF Loaded, Open, Operations
<1>2. disk.state # Missing /\ disk.credentials # Missing
  BY <1>1 DEF Core, IdentitySound
<1>3. /\ mem.state.bindings \in BindingMaps /\ mem.credentials.tokens \in TokenMaps
      /\ disk.credentials.tokens \in TokenMaps /\ CrossFile(mem.state.bindings, mem.credentials.tokens)
  BY <1>1, <1>2, CoreTypes DEF Core, MemorySound
<1>4. CrossFile(disk.state.bindings, disk.credentials.tokens)
  BY <1>3, CoversCross
<1> QED BY <1>2, <1>4 DEF Openable

LEMMA OpenOpenableNext ==
    Core' /\ pc' \in Open /\ disk'.state = mem'.state /\ Covers(mem'.credentials.tokens, disk'.credentials.tokens) => Openable'
<1>1. (Core /\ pc \in Open /\ disk.state = mem.state /\ Covers(mem.credentials.tokens, disk.credentials.tokens) => Openable)'
  BY OpenOpenable, PTL
<1> QED BY <1>1 DEF Open, Operations, Covers

LEMMA OpenFacts ==
    ASSUME Core, pc \in Open
    PROVE  /\ disk \in Disks /\ mem \in Memories /\ draft \in Drafts /\ Readable
           /\ disk.state # Missing /\ disk.state.install = mem.state.install
           /\ disk.credentials # Missing /\ disk.credentials.secret = mem.credentials.secret
           /\ disk.credentials \in CredentialFiles
           /\ mem.state \in StateFiles /\ mem.credentials \in CredentialFiles
           /\ mem.state.bindings \in BindingMaps /\ mem.credentials.tokens \in TokenMaps
           /\ draft.bindings \in BindingMaps /\ draft.tokens \in TokenMaps
           /\ CrossFile(mem.state.bindings, mem.credentials.tokens)
           /\ OnDisk = disk.state.bindings
<1>1. Loaded /\ pc \notin {"initState", "initCredentials"}
  BY DEF Loaded, Open, Operations
<1>2. /\ disk.state # Missing /\ disk.credentials # Missing /\ disk.state.install = mem.state.install
      /\ disk.credentials.secret = mem.credentials.secret /\ Readable
  BY <1>1 DEF Core, IdentitySound
<1>3. CrossFile(mem.state.bindings, mem.credentials.tokens)
  BY DEF Core, MemorySound
<1> QED BY <1>1, <1>2, <1>3, CoreTypes DEF OnDisk

(* A step of an operation keeps the identity, in memory and in the files.  *)
SameIdentity ==
    /\ disk' \in Disks /\ (Readable' <=> Readable)
    /\ disk'.state # Missing /\ disk'.state.install = disk.state.install
    /\ disk'.credentials # Missing /\ disk'.credentials.secret = disk.credentials.secret
    /\ mem' \in Memories /\ mem'.state \in StateFiles /\ mem'.credentials \in CredentialFiles
    /\ mem'.state.install = mem.state.install /\ mem'.credentials.secret = mem.credentials.secret
    /\ known' = known

LEMMA OpenStep ==
    ASSUME Core, pc \in Open, pc' \in Open, SameIdentity, draft' \in Drafts,
           CrossFile(mem'.state.bindings, mem'.credentials.tokens),
           pc' \in {"save", "removeState"} => CrossFile(draft'.bindings, mem'.credentials.tokens),
           pc' \in {"commitCredentials", "commitState"} => CrossFile(draft'.bindings, draft'.tokens),
           pc' \in {"commitCleanup", "removeCredentials"} => CrossFile(mem'.state.bindings, draft'.tokens)
    PROVE  Core' /\ Readable'
<1>1. TypeOK'
  BY NextTypes, CoreTypes DEF Open, SameIdentity
<1>2. MemorySound'
  BY DEF MemorySound, Loaded, Open, Operations, SameIdentity
<1>3. Readable' /\ Readable
  BY OpenFacts DEF SameIdentity
<1>4. IdentitySound'
  BY <1>3, OpenFacts DEF IdentitySound, Core, Loaded, Open, Operations, SameIdentity
<1> QED BY <1>1, <1>2, <1>3, <1>4 DEF Core

(* A step that is no write.                                                *)
LEMMA SameIdentityIdle ==
    ASSUME Core, pc \in Open, UNCHANGED <<disk, mem, known>>
    PROVE  SameIdentity
  BY OpenFacts DEF SameIdentity, Readable

LEMMA SaveConfigKept == Core /\ SaveConfig => Kept
<1> SUFFICES ASSUME Core, SaveConfig PROVE Kept
  OBVIOUS
<1>1. pc = "ready" /\ pc' = "ready" /\ draft' = draft /\ known' = known /\ pc \in Open /\ pc' \in Open
  BY DEF SaveConfig, Open
<1>2. mem' \in Memories /\ mem'.state = mem.state /\ mem'.credentials = mem.credentials
  <2>1. mem' = mem \/ mem' = [mem EXCEPT !.warning = FALSE]
    BY DEF SaveConfig
  <2> QED BY <1>1, <2>1, OpenFacts DEF Memories
<1>3. disk' \in Disks /\ disk'.state = disk.state /\ disk'.credentials = disk.credentials /\ (Readable' <=> Readable)
  <2> DEFINE less == disk.corrupt \ {"config"}
  <2>1. disk' = [disk EXCEPT !.config = TRUE] \/ disk' = [disk EXCEPT !.config = TRUE, !.corrupt = less]
    BY DEF SaveConfig
  <2>2. less \in SUBSET {"state", "credentials", "config"}
    BY <1>1, OpenFacts DEF Disks
  <2> HIDE DEF less
  <2>3. /\ disk' \in Disks /\ disk'.state = disk.state /\ disk'.credentials = disk.credentials
        /\ disk'.corrupt = disk.corrupt \/ disk'.corrupt = less
    BY <1>1, <2>1, <2>2, OpenFacts DEF Disks
  <2> QED BY <2>3 DEF Readable, less
<1>4. SameIdentity
  BY <1>1, <1>2, <1>3, OpenFacts DEF SameIdentity
<1>5. Core' /\ Readable'
  BY <1>1, <1>2, <1>4, OpenStep, OpenFacts
<1>6. FilesSound => FilesSound'
  BY <1>1, <1>2, <1>3, <1>5, OpenOpenableNext DEF FilesSound, Open, Operations, Covers
<1>7. Stays
  BY <1>1, <1>2, <1>3 DEF Stays, OnDisk
<1> QED BY <1>5, <1>6, <1>7 DEF Kept, TableStep

(* An operation that has checked its input and begins.                     *)
LEMMA BeginsKept ==
    ASSUME Core, pc = "ready", UNCHANGED <<disk, mem, known>>, draft' \in Drafts,
           \/ pc' \in {"save", "removeState"} /\ CrossFile(draft'.bindings, mem.credentials.tokens)
           \/ /\ pc' = "commitCredentials" /\ CrossFile(draft'.bindings, draft'.tokens)
              /\ Covers(mem.credentials.tokens, draft'.tokens),
           \E r \in Runtimes : \A other \in Runtimes \ {r} : draft'.bindings[other] = mem.state.bindings[other]
    PROVE  Kept
<1>1. pc \in Open /\ pc' \in Open
  BY DEF Open, Operations
<1>2. Core' /\ Readable'
  BY <1>1, SameIdentityIdle, OpenStep, OpenFacts
<1>3. OneChange'
  BY DEF OneChange
<1>4. FilesSound => FilesSound'
  <2> SUFFICES ASSUME FilesSound PROVE FilesSound'
    OBVIOUS
  <2>1. disk.state = mem.state /\ Covers(mem.credentials.tokens, disk.credentials.tokens)
    BY <1>1 DEF FilesSound
  <2>2. Openable'
    BY <1>1, <1>2, <2>1, OpenOpenableNext
  <2> QED BY <1>1, <1>3, <2>1, <2>2 DEF FilesSound, Open, Operations
<1>5. Stays
  BY <1>1 DEF Stays, OnDisk, Readable
<1> QED BY <1>2, <1>4, <1>5 DEF Kept, TableStep

LEMMA SaveBindingKept == ASSUME Core, NEW r \in Runtimes, NEW b \in Bindings, SaveBinding(r, b) PROVE Kept
<1>0. pc = "ready" /\ pc \in Open
  BY DEF SaveBinding, Open
<1> DEFINE m == [mem.state.bindings EXCEPT ![r] = b]
<1>1. m \in BindingMaps /\ \A other \in Runtimes \ {r} : m[other] = mem.state.bindings[other]
  BY <1>0, OpenFacts DEF BindingMaps
<1>2. draft' = [draft EXCEPT !.bindings = m]
  BY DEF SaveBinding
<1> HIDE DEF m
<1>3. draft' \in Drafts /\ draft'.bindings = m
  BY <1>0, <1>1, <1>2, OpenFacts DEF Drafts
<1>4. pc' = "save" /\ CrossFile(draft'.bindings, mem.credentials.tokens) /\ UNCHANGED <<disk, mem, known>>
  BY DEF SaveBinding
<1> QED BY <1>0, <1>1, <1>3, <1>4, BeginsKept

LEMMA RemoveBindingKept == ASSUME Core, NEW r \in Runtimes, RemoveBinding(r) PROVE Kept
<1>0. pc = "ready" /\ pc \in Open
  BY DEF RemoveBinding, Open
<1> DEFINE m == [mem.state.bindings EXCEPT ![r] = NoBinding]
<1>1. /\ m \in BindingMaps /\ CrossFile(m, mem.credentials.tokens)
      /\ \A other \in Runtimes \ {r} : m[other] = mem.state.bindings[other]
  <2>1. m \in BindingMaps /\ CrossFile(m, mem.credentials.tokens)
    BY <1>0, OpenFacts, RemovedCross
  <2>2. \A other \in Runtimes \ {r} : m[other] = mem.state.bindings[other]
    BY <1>0, OpenFacts DEF BindingMaps
  <2> QED BY <2>1, <2>2
<1>2. draft' = [draft EXCEPT !.bindings = m]
  BY DEF RemoveBinding
<1> HIDE DEF m
<1>3. draft' \in Drafts /\ draft'.bindings = m
  BY <1>0, <1>1, <1>2, OpenFacts DEF Drafts
<1>4. pc' = "removeState" /\ UNCHANGED <<disk, mem, known>>
  BY DEF RemoveBinding
<1> QED BY <1>0, <1>1, <1>3, <1>4, BeginsKept

LEMMA CommitRegistrationKept ==
    ASSUME Core, NEW r \in Runtimes, NEW b \in Bindings, NEW ref \in Refs, CommitRegistration(r, b, ref)
    PROVE  Kept
<1>0. pc = "ready" /\ pc \in Open /\ pc' = "commitCredentials" /\ UNCHANGED <<disk, mem, known>>
  BY DEF CommitRegistration, Open
<1> DEFINE new == [b EXCEPT !.ref = ref]
           m == [mem.state.bindings EXCEPT ![r] = new]
           o == [runtime |-> r, provider |-> b.provider, node |-> b.node]
           t == [mem.credentials.tokens EXCEPT ![ref] = o]
<1>1. /\ new \in Bindings /\ b.node # NoNode /\ ref \in FreshRefs /\ draft' = [bindings |-> m, tokens |-> t]
      /\ CrossFile(draft'.bindings, draft'.tokens)
  BY DEF CommitRegistration
<1>2. o \in Owners
  BY <1>1 DEF Bindings, Owners
<1>3. mem.credentials.tokens[ref] = NoOwner
  BY <1>1 DEF FreshRefs
<1> HIDE DEF new, o
<1>4. m \in BindingMaps /\ \A other \in Runtimes \ {r} : m[other] = mem.state.bindings[other]
  BY <1>0, <1>1, OpenFacts DEF BindingMaps
<1>5. t \in TokenMaps /\ Covers(mem.credentials.tokens, t)
  BY <1>0, <1>2, <1>3, OpenFacts DEF TokenMaps, Covers
<1> HIDE DEF m, t
<1>6. draft' \in Drafts /\ draft'.bindings = m /\ draft'.tokens = t
  BY <1>1, <1>4, <1>5 DEF Drafts
<1> QED BY <1>0, <1>1, <1>4, <1>5, <1>6, BeginsKept

(* The write of the bindings that the operation has prepared.              *)
LEMMA StateWrite ==
    ASSUME Core, pc \in Open, NEW outcome \in Outcomes,
           AtomicWrite("state", [mem.state EXCEPT !.bindings = draft.bindings], outcome)
    PROVE  LET s == WithBindings(mem.state, draft.bindings)
           IN  /\ s \in StateFiles /\ s.bindings = draft.bindings /\ s.install = mem.state.install
               /\ disk' \in Disks /\ disk'.credentials = disk.credentials /\ (Readable' <=> Readable)
               /\ disk'.state = IF outcome = "failed" THEN disk.state ELSE s
               /\ disk'.state # Missing /\ disk'.state.install = disk.state.install
<1> DEFINE s == WithBindings(mem.state, draft.bindings)
<1>1. s \in StateFiles /\ s.bindings = draft.bindings /\ s.install = mem.state.install /\ s # Missing
  BY OpenFacts, WithBindingsTypes, FileFields
<1>2. AtomicWrite("state", s, outcome)
  BY DEF WithBindings
<1> HIDE DEF s
<1>3. /\ disk' \in Disks /\ disk'.credentials = disk.credentials /\ disk'.corrupt = disk.corrupt
      /\ disk'.state = IF outcome = "failed" THEN disk.state ELSE s
  BY <1>1, <1>2, OpenFacts, StateWritten
<1>4. disk'.state # Missing /\ disk'.state.install = disk.state.install /\ (Readable' <=> Readable)
  BY <1>1, <1>3, OpenFacts DEF Readable
<1> QED BY <1>1, <1>3, <1>4 DEF s

LEMMA StateWriteFails ==
    ASSUME Core, pc \in Open, NEW outcome \in Outcomes, outcome # "done",
           AtomicWrite("state", [mem.state EXCEPT !.bindings = draft.bindings], outcome),
           mem' = mem, draft' = Nothing, pc' = "ready", known' = known
    PROVE  Kept
<1>1. /\ disk' \in Disks /\ disk'.credentials = disk.credentials /\ (Readable' <=> Readable)
      /\ outcome = "failed" => disk'.state = disk.state
      /\ disk'.state # Missing /\ disk'.state.install = disk.state.install
  BY StateWrite
<1>2. SameIdentity /\ draft' \in Drafts /\ pc' \in Open
  BY <1>1, OpenFacts, NothingTypes DEF SameIdentity, Open
<1>3. Core' /\ Readable'
  BY <1>2, OpenStep, OpenFacts
<1>4. ASSUME FilesSound, ~SyncMayFail PROVE FilesSound' /\ Stays
  <2>1. disk'.state = disk.state
    BY <1>1, <1>4, SyncedOutcomes
  <2>2. disk.state = mem.state /\ Covers(mem.credentials.tokens, disk.credentials.tokens)
    BY <1>4 DEF FilesSound
  <2>3. Openable'
    BY <1>1, <1>2, <1>3, <2>1, <2>2, OpenOpenableNext
  <2>4. FilesSound'
    BY <1>1, <2>1, <2>2, <2>3 DEF FilesSound, Open, Operations
  <2>5. Stays
    BY <1>1, <2>1 DEF Stays, OnDisk
  <2> QED BY <2>4, <2>5
<1> QED BY <1>3, <1>4 DEF Kept, TableStep

(* It succeeds: memory follows, and maybe an old token is left to drop.    *)
LEMMA StateWriteSucceeds ==
    ASSUME Core, pc \in Open, "done" \in Outcomes,
           AtomicWrite("state", [mem.state EXCEPT !.bindings = draft.bindings], "done"),
           mem' \in Memories, mem'.state = WithBindings(mem.state, draft.bindings),
           mem'.credentials \in CredentialFiles, mem'.credentials.secret = mem.credentials.secret,
           CrossFile(draft.bindings, mem'.credentials.tokens), draft' \in Drafts, known' = known,
           \/ pc' = "ready"
           \/ pc' \in {"commitCleanup", "removeCredentials"} /\ CrossFile(draft.bindings, draft'.tokens),
           FilesSound => OneChange /\ Covers(mem'.credentials.tokens, disk.credentials.tokens)
    PROVE  Kept
<1> DEFINE s == WithBindings(mem.state, draft.bindings)
<1>1. /\ s \in StateFiles /\ s.bindings = draft.bindings /\ s.install = mem.state.install
      /\ disk' \in Disks /\ disk'.credentials = disk.credentials /\ (Readable' <=> Readable)
      /\ disk'.state = s /\ disk'.state # Missing /\ disk'.state.install = disk.state.install
  BY StateWrite
<1>2. mem'.state = s
  OBVIOUS
<1> HIDE DEF s
<1>3. SameIdentity /\ pc' \in Open
  BY <1>1, <1>2, OpenFacts DEF SameIdentity, Open, Operations
<1>4. Core' /\ Readable'
  BY <1>1, <1>2, <1>3, OpenStep
<1>5. FilesSound => FilesSound'
  <2> SUFFICES ASSUME FilesSound PROVE FilesSound'
    OBVIOUS
  <2>1. Covers(mem'.credentials.tokens, disk'.credentials.tokens) /\ disk'.state = mem'.state
    BY <1>1, <1>2
  <2>2. Openable'
    BY <1>3, <1>4, <2>1, OpenOpenableNext
  <2> QED BY <2>1, <2>2 DEF FilesSound, Open, Operations
<1>6. FilesSound => Puts
  BY <1>1, <1>2, <1>3, <1>4, OpenFacts DEF Puts, OneChange, OnDisk
<1> QED BY <1>4, <1>5, <1>6 DEF Kept, TableStep

LEMMA SaveStateKept == ASSUME Core, NEW outcome \in Outcomes, SaveState(outcome) PROVE Kept
<1>1. /\ pc = "save" /\ pc \in Open /\ draft' = Nothing /\ pc' = "ready" /\ known' = known
      /\ AtomicWrite("state", [mem.state EXCEPT !.bindings = draft.bindings], outcome)
      /\ mem' = IF outcome = "done" THEN [mem EXCEPT !.state.bindings = draft.bindings] ELSE mem
  BY DEF SaveState, Open, Operations
<1>2. CASE outcome # "done"
  BY <1>1, <1>2, StateWriteFails
<1>3. CASE outcome = "done"
  <2>1. mem' \in Memories /\ mem'.state = WithBindings(mem.state, draft.bindings) /\ mem'.credentials = mem.credentials
    BY <1>1, <1>3, MemoryBindings, OpenFacts
  <2>2. CrossFile(draft.bindings, mem'.credentials.tokens)
    BY <1>1, <2>1 DEF Core, MemorySound
  <2>3. FilesSound => OneChange /\ Covers(mem'.credentials.tokens, disk.credentials.tokens)
    BY <1>1, <2>1 DEF FilesSound
  <2> QED BY <1>1, <1>3, <2>1, <2>2, <2>3, StateWriteSucceeds, OpenFacts, NothingTypes
<1> QED BY <1>2, <1>3

(* What the new bindings refer to is never dropped.                        *)
LEMMA DroppedCross ==
    ASSUME NEW m \in BindingMaps, NEW n \in BindingMaps, NEW t \in TokenMaps, CrossFile(n, t)
    PROVE  Only(t, Refs \ Dropped(m, n)) \in TokenMaps /\ CrossFile(n, Only(t, Refs \ Dropped(m, n)))
<1>1. Referenced(n) \subseteq Refs \ Dropped(m, n)
  <2>1. Referenced(n) \subseteq Refs
    BY BindingFields DEF Referenced
  <2> QED BY <2>1 DEF Dropped
<1> QED BY <1>1, OnlyCross, OnlyTypes

LEMMA RemoveStateKept == ASSUME Core, NEW outcome \in Outcomes, RemoveState(outcome) PROVE Kept
<1> DEFINE dropped == Dropped(mem.state.bindings, draft.bindings)
           cleaned == Only(mem.credentials.tokens, Refs \ dropped)
<1>1. /\ pc = "removeState" /\ pc \in Open /\ known' = known
      /\ AtomicWrite("state", [mem.state EXCEPT !.bindings = draft.bindings], outcome)
      /\ mem' = IF outcome = "done" THEN [mem EXCEPT !.state.bindings = draft.bindings] ELSE mem
      /\ IF outcome = "done" /\ dropped # {} THEN pc' = "removeCredentials" /\ draft' = [draft EXCEPT !.tokens = cleaned]
         ELSE pc' = "ready" /\ draft' = Nothing
  BY DEF RemoveState, Open, Operations
<1>2. CASE outcome # "done"
  BY <1>1, <1>2, StateWriteFails
<1>3. CASE outcome = "done"
  <2>1. mem' \in Memories /\ mem'.state = WithBindings(mem.state, draft.bindings) /\ mem'.credentials = mem.credentials
    BY <1>1, <1>3, MemoryBindings, OpenFacts
  <2>2. CrossFile(draft.bindings, mem'.credentials.tokens)
    BY <1>1, <2>1 DEF Core, MemorySound
  <2>3. FilesSound => OneChange /\ Covers(mem'.credentials.tokens, disk.credentials.tokens)
    BY <1>1, <2>1 DEF FilesSound
  <2>4. cleaned \in TokenMaps /\ CrossFile(draft.bindings, cleaned)
    BY <1>1, <2>1, <2>2, DroppedCross, OpenFacts
  <2> HIDE DEF cleaned, dropped
  <2>5. /\ draft' \in Drafts
        /\ pc' = "ready" \/ (pc' = "removeCredentials" /\ draft'.tokens = cleaned)
    BY <1>1, <2>4, OpenFacts, NothingTypes DEF Drafts
  <2> QED BY <1>1, <1>3, <2>1, <2>2, <2>3, <2>4, <2>5, StateWriteSucceeds, OpenFacts
<1> QED BY <1>2, <1>3

LEMMA CommitStateKept == ASSUME Core, NEW outcome \in Outcomes, CommitState(outcome) PROVE Kept
<1> DEFINE dropped == Dropped(mem.state.bindings, draft.bindings)
           cleaned == Only(draft.tokens, Refs \ dropped)
<1>1. /\ pc = "commitState" /\ pc \in Open /\ known' = known
      /\ AtomicWrite("state", [mem.state EXCEPT !.bindings = draft.bindings], outcome)
      /\ mem' = IF outcome = "done" THEN [mem EXCEPT !.state.bindings = draft.bindings, !.credentials.tokens = draft.tokens] ELSE mem
      /\ IF outcome = "done" /\ dropped # {} THEN pc' = "commitCleanup" /\ draft' = [draft EXCEPT !.tokens = cleaned]
         ELSE pc' = "ready" /\ draft' = Nothing
  BY DEF CommitState, Open, Operations
<1>2. CASE outcome # "done"
  BY <1>1, <1>2, StateWriteFails
<1>3. CASE outcome = "done"
  <2>0. mem' \in Memories /\ mem'.state = WithBindings(mem.state, draft.bindings)
        /\ mem'.credentials = WithTokens(mem.credentials, draft.tokens)
    BY <1>1, <1>3, MemoryBoth, OpenFacts
  <2>1. /\ mem'.credentials \in CredentialFiles /\ mem'.credentials.tokens = draft.tokens
        /\ mem'.credentials.secret = mem.credentials.secret
    BY <1>1, <2>0, WithTokensTypes, OpenFacts
  <2>2. CrossFile(draft.bindings, mem'.credentials.tokens)
    BY <1>1, <2>1 DEF Core, MemorySound
  <2>3. FilesSound => OneChange /\ Covers(mem'.credentials.tokens, disk.credentials.tokens)
    BY <1>1, <2>1 DEF FilesSound, Covers
  <2>4. cleaned \in TokenMaps /\ CrossFile(draft.bindings, cleaned)
    BY <1>1, <2>1, <2>2, DroppedCross, OpenFacts
  <2> HIDE DEF cleaned, dropped
  <2>5. /\ draft' \in Drafts
        /\ pc' = "ready" \/ (pc' = "commitCleanup" /\ draft'.tokens = cleaned)
    BY <1>1, <2>4, OpenFacts, NothingTypes DEF Drafts
  <2> QED BY <1>1, <1>3, <2>0, <2>1, <2>2, <2>3, <2>4, <2>5, StateWriteSucceeds
<1> QED BY <1>2, <1>3

(* The write of the tokens that the operation has prepared.                *)
LEMMA CredentialsWrite ==
    ASSUME Core, pc \in Open, NEW outcome \in Outcomes,
           AtomicWrite("credentials", [mem.credentials EXCEPT !.tokens = draft.tokens], outcome)
    PROVE  /\ disk' \in Disks /\ disk'.state = disk.state /\ (Readable' <=> Readable)
           /\ disk'.credentials # Missing /\ disk'.credentials.secret = disk.credentials.secret
           /\ disk'.credentials.tokens = IF outcome = "failed" THEN disk.credentials.tokens ELSE draft.tokens
<1> DEFINE c == WithTokens(mem.credentials, draft.tokens)
<1>1. c \in CredentialFiles /\ c.tokens = draft.tokens /\ c.secret = mem.credentials.secret /\ c # Missing
  BY OpenFacts, WithTokensTypes, FileFields
<1>2. AtomicWrite("credentials", c, outcome)
  BY DEF WithTokens
<1> HIDE DEF c
<1>3. /\ disk' \in Disks /\ disk'.state = disk.state /\ disk'.corrupt = disk.corrupt
      /\ disk'.credentials = IF outcome = "failed" THEN disk.credentials ELSE c
  BY <1>1, <1>2, OpenFacts, CredentialsWritten
<1> QED BY <1>1, <1>3, OpenFacts DEF Readable

LEMMA CommitCredentialsKept == ASSUME Core, NEW outcome \in Outcomes, CommitCredentials(outcome) PROVE Kept
<1>1. /\ pc = "commitCredentials" /\ pc \in Open /\ mem' = mem /\ known' = known
      /\ AtomicWrite("credentials", [mem.credentials EXCEPT !.tokens = draft.tokens], outcome)
      /\ \/ outcome = "done" /\ pc' = "commitState" /\ draft' = draft
         \/ outcome # "done" /\ pc' = "ready" /\ draft' = Nothing
  BY DEF CommitCredentials, Open, Operations
<1>2. /\ disk' \in Disks /\ disk'.state = disk.state /\ (Readable' <=> Readable)
      /\ disk'.credentials # Missing /\ disk'.credentials.secret = disk.credentials.secret
      /\ disk'.credentials.tokens = IF outcome = "failed" THEN disk.credentials.tokens ELSE draft.tokens
  BY <1>1, CredentialsWrite
<1>3. SameIdentity /\ draft' \in Drafts /\ pc' \in Open
  BY <1>1, <1>2, OpenFacts, NothingTypes DEF SameIdentity, Open, Operations
<1>4. CrossFile(draft.bindings, draft.tokens)
  BY <1>1 DEF Core, MemorySound
<1>5. Core' /\ Readable'
  BY <1>1, <1>3, <1>4, OpenStep, OpenFacts
<1>6. FilesSound => FilesSound'
  <2> SUFFICES ASSUME FilesSound PROVE FilesSound'
    OBVIOUS
  <2>1. /\ disk.state = mem.state /\ Covers(mem.credentials.tokens, disk.credentials.tokens)
        /\ Covers(mem.credentials.tokens, draft.tokens) /\ OneChange
    BY <1>1 DEF FilesSound
  <2>2. Covers(mem'.credentials.tokens, disk'.credentials.tokens) /\ disk'.state = mem'.state
    BY <1>1, <1>2, <2>1
  <2>3. Openable'
    BY <1>3, <1>5, <2>2, OpenOpenableNext
  <2>4. pc' = "commitState" => OneChange' /\ disk'.credentials.tokens = draft'.tokens /\ Covers(mem'.credentials.tokens, draft'.tokens)
    BY <1>1, <1>2, <2>1 DEF OneChange
  <2> QED BY <1>1, <2>2, <2>3, <2>4 DEF FilesSound, Open, Operations
<1>7. Stays
  BY <1>1, <1>2, <1>3 DEF Stays, OnDisk
<1> QED BY <1>5, <1>6, <1>7 DEF Kept, TableStep

LEMMA DropTokenKept ==
    ASSUME Core, NEW outcome \in Outcomes, NEW at \in {"commitCleanup", "removeCredentials"}, DropToken(at, outcome)
    PROVE  Kept
<1>1. /\ pc = at /\ pc \in Open /\ draft' = Nothing /\ pc' = "ready" /\ known' = known
      /\ AtomicWrite("credentials", [mem.credentials EXCEPT !.tokens = draft.tokens], outcome)
      /\ mem' = IF outcome = "done" THEN [mem EXCEPT !.credentials.tokens = draft.tokens] ELSE mem
  BY DEF DropToken, Open, Operations
<1>2. /\ disk' \in Disks /\ disk'.state = disk.state /\ (Readable' <=> Readable)
      /\ disk'.credentials # Missing /\ disk'.credentials.secret = disk.credentials.secret
      /\ disk'.credentials.tokens = IF outcome = "failed" THEN disk.credentials.tokens ELSE draft.tokens
  BY <1>1, CredentialsWrite
<1>3. /\ mem' \in Memories /\ mem'.state = mem.state /\ mem'.credentials \in CredentialFiles
      /\ mem'.credentials.secret = mem.credentials.secret
      /\ mem'.credentials.tokens = IF outcome = "done" THEN draft.tokens ELSE mem.credentials.tokens
  <2>1. CASE outcome = "done"
    <3>1. mem' \in Memories /\ mem'.credentials = WithTokens(mem.credentials, draft.tokens) /\ mem'.state = mem.state
      BY <1>1, <2>1, MemoryTokens, OpenFacts
    <3> QED BY <1>1, <2>1, <3>1, WithTokensTypes, OpenFacts
  <2>2. CASE outcome # "done"
    BY <1>1, <2>2, OpenFacts
  <2> QED BY <2>1, <2>2
<1>4. SameIdentity /\ draft' \in Drafts /\ pc' \in Open
  BY <1>1, <1>2, <1>3, OpenFacts, NothingTypes DEF SameIdentity, Open
<1>5. CrossFile(mem'.state.bindings, mem'.credentials.tokens)
  BY <1>1, <1>3, OpenFacts DEF Core, MemorySound
<1>6. Core' /\ Readable'
  BY <1>1, <1>4, <1>5, OpenStep
<1>7. ASSUME FilesSound, ~SyncMayFail PROVE FilesSound'
  <2>1. disk.state = mem.state /\ Covers(mem.credentials.tokens, disk.credentials.tokens)
    BY <1>1, <1>7 DEF FilesSound
  <2>2. outcome \in {"done", "failed"}
    BY <1>7, SyncedOutcomes
  <2>3. Covers(mem'.credentials.tokens, disk'.credentials.tokens) /\ disk'.state = mem'.state
    BY <1>2, <1>3, <2>1, <2>2 DEF Covers
  <2>4. Openable'
    BY <1>4, <1>6, <2>3, OpenOpenableNext
  <2> QED BY <1>1, <2>3, <2>4 DEF FilesSound, Open, Operations
<1>8. Stays
  BY <1>1, <1>2, <1>3, <1>4 DEF Stays, OnDisk
<1> QED BY <1>6, <1>7, <1>8 DEF Kept, TableStep

-----------------------------------------------------------------------------
(* Every step, and the invariants.                                         *)

LEMMA WriteKept == ASSUME Core, NEW outcome \in Outcomes, Write(outcome) PROVE Kept
  BY OpenInitStateKept, OpenInitCredentialsKept, OpenReconcileKept, OpenOrphansKept, SaveStateKept,
     CommitCredentialsKept, CommitStateKept, RemoveStateKept, DropTokenKept
     DEF Write, CommitCleanup, RemoveCredentials

LEMMA StutterKept == Core /\ UNCHANGED vars => Kept
<1> SUFFICES ASSUME Core, UNCHANGED vars PROVE Kept
  OBVIOUS
<1>1. disk' = disk /\ mem' = mem /\ draft' = draft /\ pc' = pc /\ known' = known
  BY DEF vars
<1>2. Core'
  BY <1>1 DEF Core, TypeOK, MemorySound, IdentitySound, Loaded, Readable, CrossFile, Bound
<1>3. FilesSound => FilesSound'
  BY <1>1 DEF FilesSound, Openable, OneChange, Covers, IsSettled, Bound, CrossFile
<1>4. Stays
  BY <1>1 DEF Stays, Readable, OnDisk
<1> QED BY <1>2, <1>3, <1>4 DEF Kept, TableStep

LEMMA StepKept == Core /\ [Next]_vars => Kept
<1> SUFFICES ASSUME Core, [Next]_vars PROVE Kept
  OBVIOUS
<1>1. CASE OpenConfig \/ OpenRefused \/ OpenUnreadable \/ OpenRead \/ OpenSettle \/ SaveConfig \/ Crash
  BY <1>1, OpenConfigKept, EndsKept, OpenUnreadableKept, OpenReadKept, OpenSettleKept, SaveConfigKept
<1>2. CASE \E r \in Runtimes, b \in Bindings : SaveBinding(r, b)
  BY <1>2, SaveBindingKept
<1>3. CASE \E r \in Runtimes, b \in Bindings, ref \in Refs : CommitRegistration(r, b, ref)
  BY <1>3, CommitRegistrationKept
<1>4. CASE \E r \in Runtimes : RemoveBinding(r)
  BY <1>4, RemoveBindingKept
<1>5. CASE \E outcome \in Outcomes : Write(outcome)
  BY <1>5, WriteKept
<1>6. CASE UNCHANGED vars
  BY <1>6, StutterKept
<1> QED BY <1>1, <1>2, <1>3, <1>4, <1>5, <1>6 DEF Next

LEMMA InitSound == Init => Core /\ FilesSound
<1> SUFFICES ASSUME Init PROVE Core /\ FilesSound
  OBVIOUS
<1>1. /\ disk.state = Missing /\ disk.credentials = Missing /\ disk.corrupt = {}
      /\ disk \in Disks /\ mem = Unloaded /\ draft = Nothing /\ pc = "closed" /\ known = {}
  BY DEF Init, Disks
<1>2. TypeOK
  BY <1>1, TypeParts, UnloadedTypes, NothingTypes
<1>3. MemorySound
  BY <1>1, UnloadedTypes DEF MemorySound, Loaded, Open, Operations
<1>4. IdentitySound
  BY <1>1 DEF IdentitySound, Loaded
<1>5. FilesSound
  BY <1>1 DEF FilesSound, Openable, Open, Operations
<1> QED BY <1>2, <1>3, <1>4, <1>5 DEF Core

LEMMA CoreInvariant == Spec => []Core
<1>1. Init => Core
  BY InitSound
<1>2. Core /\ [Next]_vars => Core'
  BY StepKept DEF Kept
<1> QED BY <1>1, <1>2, PTL DEF Spec

LEMMA FilesInvariant == ASSUME ~SyncMayFail PROVE Spec => [](Core /\ FilesSound)
<1>1. Init => Core /\ FilesSound
  BY InitSound
<1>2. Core /\ FilesSound /\ [Next]_vars => (Core /\ FilesSound)'
  BY StepKept DEF Kept
<1> QED BY <1>1, <1>2, PTL DEF Spec

(* The files, the memory and the operation under way are always what the   *)
(* schemas of the files and the program's types allow.                     *)
THEOREM TypeCorrect == Spec => []TypeOK
<1>1. Core => TypeOK
  BY DEF Core
<1> QED BY <1>1, CoreInvariant, PTL

(* One bridge identity is handed out, however often open() fails, crashes  *)
(* half way or finds a file that it has to set aside, and whether or not   *)
(* the directory sync after a write fails.                                 *)
THEOREM IdentityStableHolds == Spec => []IdentityStable
<1>1. Core => IdentityStable
  <2> SUFFICES ASSUME Core PROVE Cardinality(known) <= 1
    BY DEF IdentityStable
  <2>1. CASE known = {}
    <3>1. Cardinality(known) = 0
      BY <2>1, FS_EmptySet
    <3> QED BY <3>1
  <2>2. CASE known # {}
    <3>1. PICK k \in known : TRUE
      BY <2>2
    <3>2. known = {k}
      BY <3>1 DEF Core, IdentitySound
    <3>3. Cardinality(known) = 1
      BY <3>2, FS_Singleton
    <3> QED BY <3>3
  <2> QED BY <2>1, <2>2
<1> QED BY <1>1, CoreInvariant, PTL

(* An open store can hand a worker the credential of every enabled         *)
(* binding, at every step of every operation, whatever fails.              *)
THEOREM EnabledHasCredentialHolds == Spec => []EnabledHasCredential
<1>1. Core => EnabledHasCredential
  <2> SUFFICES ASSUME Core, pc \in Open, NEW r \in Bound(mem.state.bindings), mem.state.bindings[r].enabled
               PROVE  mem.credentials.tokens[mem.state.bindings[r].ref] = Owner(r, mem.state.bindings[r])
    BY DEF EnabledHasCredential, Open, Owner
  <2>1. mem.state.bindings \in BindingMaps /\ CrossFile(mem.state.bindings, mem.credentials.tokens)
    BY OpenFacts
  <2>2. mem.state.bindings[r].ref # NoRef
    BY <2>1, BindingFields
  <2> QED BY <2>1, <2>2 DEF CrossFile, Owner
<1> QED BY <1>1, CoreInvariant, PTL

(* While no directory sync fails after its rename, the files that any      *)
(* operation, failed write or crash leaves are ones that open() accepts.   *)
THEOREM OpenableHolds == ASSUME ~SyncMayFail PROVE Spec => []Openable
<1>1. Core /\ FilesSound => Openable
  BY DEF FilesSound
<1> QED BY <1>1, FilesInvariant, PTL

-----------------------------------------------------------------------------
(* The refinement: bindings that agree with some tokens determine the      *)
(* credentials they refer to, so that the table is a function of them.     *)

View(m) ==
    [r \in Runtimes |->
        IF m[r] = NoBinding THEN NoBinding
        ELSE Whole(m[r], IF m[r].ref = NoRef THEN NoOwner ELSE Owner(r, m[r]))]

LEMMA ViewEntry ==
    ASSUME NEW m \in BindingMaps, NEW t \in TokenMaps, CrossFile(m, t), NEW r \in Runtimes, m[r] # NoBinding
    PROVE  /\ View(m)[r] = Whole(m[r], IF m[r].ref = NoRef THEN NoOwner ELSE t[m[r].ref])
           /\ View(m)[r] \in Entries /\ View(m)[r] # NoBinding
           /\ IsEntry(r, View(m)[r])
<1>1. r \in Bound(m) /\ m[r] \in Bindings /\ m[r].ref \in Refs \cup {NoRef}
  BY BindingFields DEF Bound
<1>2. m[r].ref # NoRef => t[m[r].ref] = Owner(r, m[r]) /\ t[m[r].ref] \in Owners \cup {NoOwner}
  BY <1>1 DEF CrossFile, Owner, TokenMaps
<1>3. View(m)[r] = Whole(m[r], IF m[r].ref = NoRef THEN NoOwner ELSE t[m[r].ref])
  BY <1>2 DEF View
<1>4. (IF m[r].ref = NoRef THEN NoOwner ELSE t[m[r].ref]) \in Owners \cup {NoOwner}
  BY <1>2
<1>5. View(m)[r] \in Entries
  BY <1>1, <1>3, <1>4 DEF Whole, Entries
<1>6. IsEntry(r, View(m)[r])
  BY <1>1, <1>2, <1>3 DEF IsEntry, Whole, Owner
<1> QED BY <1>3, <1>5, <1>6, UndefinedAssumption

LEMMA ViewTypes ==
    ASSUME NEW m \in BindingMaps, NEW t \in TokenMaps, CrossFile(m, t)
    PROVE  View(m) \in [Runtimes -> Entries \cup {NoBinding}] /\ View(m) # Missing
<1>1. \A r \in Runtimes : View(m)[r] \in Entries \cup {NoBinding}
  BY ViewEntry DEF View
<1>2. View(m) \in [Runtimes -> Entries \cup {NoBinding}]
  BY <1>1 DEF View
<1> QED BY <1>2, UndefinedAssumption

LEMMA TableIsView ==
    ASSUME NEW s \in StateFiles, NEW c \in CredentialFiles, CrossFile(s.bindings, c.tokens)
    PROVE  TableOf(s, c) = View(s.bindings) /\ View(s.bindings) # Missing
<1>1. s.bindings \in BindingMaps /\ c.tokens \in TokenMaps /\ s # Missing /\ c # Missing
  BY FileFields
<1>2. \A r \in Runtimes : TableOf(s, c)[r] = View(s.bindings)[r]
  BY <1>1, ViewEntry DEF TableOf, View
<1>3. TableOf(s, c) = View(s.bindings)
  BY <1>2 DEF TableOf, View
<1> QED BY <1>1, <1>3, ViewTypes

LEMMA EmptyView ==
    /\ View(NoBindings) = NoBindings /\ NoBindings # Missing
    /\ \A c : TableOf(Missing, c) = NoBindings
    /\ \A s \in StateFiles : \A c : Bound(s.bindings) = {} => TableOf(s, c) = NoBindings /\ s.bindings = NoBindings
<1>1. View(NoBindings) = NoBindings
  BY DEF View, NoBindings
<1>2. CrossFile(NoBindings, NoTokens)
  BY NoneBound DEF CrossFile
<1>3. \A c : TableOf(Missing, c) = NoBindings
  BY DEF TableOf, NoBindings
<1>4. ASSUME NEW s \in StateFiles, NEW c, Bound(s.bindings) = {}
      PROVE  TableOf(s, c) = NoBindings /\ s.bindings = NoBindings
  <2>1. s.bindings = NoBindings
    BY <1>4, NoneBound, FileFields
  <2>2. \A r \in Runtimes : s.bindings[r] = NoBinding
    BY <2>1 DEF NoBindings
  <2>3. TableOf(s, c) = NoBindings
    BY <2>2 DEF TableOf, NoBindings
  <2> QED BY <2>1, <2>3
<1> QED BY <1>1, <1>2, <1>3, <1>4, ViewTypes, NothingTypes

(* The bindings on disk agree with some tokens.                            *)
DiskAgrees == OnDisk \in BindingMaps /\ \E t \in TokenMaps : CrossFile(OnDisk, t)

LEMMA DurableView == Core /\ FilesSound /\ Readable => Durable = View(OnDisk) /\ Durable # Missing /\ DiskAgrees
<1> SUFFICES ASSUME Core, FilesSound, Readable PROVE Durable = View(OnDisk) /\ Durable # Missing /\ DiskAgrees
  OBVIOUS
<1>0. Durable = TableOf(disk.state, disk.credentials) /\ Openable
  BY DEF Durable, Readable, FilesSound
<1>1. CrossFile(NoBindings, NoTokens) /\ NoBindings \in BindingMaps /\ NoTokens \in TokenMaps
  BY NoneBound, NothingTypes DEF CrossFile
<1>2. CASE disk.state = Missing
  BY <1>0, <1>1, <1>2, EmptyView DEF OnDisk, DiskAgrees
<1>3. CASE disk.state # Missing /\ disk.credentials = Missing
  <2>1. Bound(disk.state.bindings) = {} /\ disk.state \in StateFiles
    BY <1>0, <1>3, CoreTypes DEF Openable, Readable
  <2> QED BY <1>0, <1>1, <1>3, <2>1, EmptyView DEF OnDisk, DiskAgrees
<1>4. CASE disk.state # Missing /\ disk.credentials # Missing
  <2>1. CrossFile(disk.state.bindings, disk.credentials.tokens)
    BY <1>0, <1>4 DEF Openable, Readable
  <2> QED BY <1>0, <1>4, <2>1, TableIsView, CoreTypes DEF OnDisk, DiskAgrees
<1> QED BY <1>2, <1>3, <1>4

LEMMA CurrentView == Core => Current = IF pc \in Open THEN View(mem.state.bindings) ELSE Missing
<1> SUFFICES ASSUME Core, pc \in Open PROVE Current = View(mem.state.bindings)
  BY DEF Current, Open
<1> QED BY OpenFacts, TableIsView DEF Current, Open

LEMMA CurrentOpen == Core /\ pc \in Open => Current # Missing
  BY CurrentView, OpenFacts, ViewTypes

(* The same of the state that a step leads to.                             *)
LEMMA NextViews ==
    ASSUME Core', FilesSound'
    PROVE  /\ Readable' => Durable' = View(OnDisk') /\ Durable' # Missing /\ DiskAgrees'
           /\ ~Readable' => Durable' = Missing
           /\ pc' \in Open => Current' = View(mem'.state.bindings) /\ Current' # Missing
           /\ pc' \notin Open => Current' = Missing
<1>1. (Core /\ FilesSound /\ Readable => Durable = View(OnDisk) /\ Durable # Missing /\ DiskAgrees)'
  BY DurableView, PTL
<1>2. (Core => Current = IF pc \in Open THEN View(mem.state.bindings) ELSE Missing)'
  BY CurrentView, PTL
<1>3. (Core /\ pc \in Open => Current # Missing)'
  BY CurrentOpen, PTL
<1>4. ~Readable' => Durable' = Missing
  BY DEF Readable, Durable
<1>5. Readable' => Durable' = View(OnDisk') /\ Durable' # Missing /\ DiskAgrees'
  BY <1>1 DEF View
<1>6. Current' = (IF pc' \in Open THEN View(mem'.state.bindings) ELSE Missing)
  BY <1>2 DEF View, Open
<1>7. pc' \in Open => Current' # Missing
  BY <1>3 DEF Open
<1> QED BY <1>4, <1>5, <1>6, <1>7

(* What an open() makes of an entry is what it makes of its binding.       *)
LEMMA SettledView ==
    ASSUME NEW m \in BindingMaps, NEW t \in TokenMaps, CrossFile(m, t), NEW r \in Runtimes
    PROVE  SettledEntry(View(m)[r]) = View([q \in Runtimes |-> Settled(m[q], t)])[r]
<1> DEFINE n == [q \in Runtimes |-> Settled(m[q], t)]
<1>1. CASE m[r] = NoBinding
  <2>1. n[r] = NoBinding /\ View(m)[r] = NoBinding
    BY <1>1 DEF Settled, View
  <2> QED BY <2>1 DEF SettledEntry, View
<1>2. CASE m[r] # NoBinding
  <2> DEFINE b == m[r]
             owner == IF b.ref = NoRef THEN NoOwner ELSE t[b.ref]
             only == [ref \in Refs |-> IF ref = b.ref THEN owner ELSE NoOwner]
  <2>1. b \in Bindings /\ b.ref \in Refs \cup {NoRef} /\ b # NoBinding
    BY <1>2, BindingFields DEF Bound
  <2>2. View(m)[r] = Whole(b, owner) /\ View(m)[r] # NoBinding
    BY <1>2, ViewEntry
  <2>3. SettledEntry(View(m)[r]) = Whole(Settled(b, only), owner)
    <3>1. View(m)[r].binding = b /\ View(m)[r].owner = owner
      BY <2>2 DEF Whole
    <3>2. SettledEntry(View(m)[r]) = [View(m)[r] EXCEPT !.binding = Settled(b, only)]
      BY <2>2, <3>1 DEF SettledEntry
    <3> QED BY <2>2, <3>2 DEF Whole
  <2>4. Complete(b) => only[b.ref] = t[b.ref]
    BY <2>1 DEF Complete
  <2>5. Settled(b, only) = Settled(b, t)
    BY <2>4 DEF Settled
  <2>6. /\ n[r] = Settled(b, t) /\ n[r] # NoBinding /\ n[r].ref = b.ref
        /\ n[r].provider = b.provider /\ n[r].node = b.node
    BY <2>1, SettledBinding
  <2>7. owner = IF b.ref = NoRef THEN NoOwner ELSE Owner(r, b)
    BY <1>2 DEF CrossFile, Bound, Owner
  <2>8. View(n)[r] = Whole(n[r], owner)
    BY <2>6, <2>7 DEF View, Owner
  <2> QED BY <2>3, <2>5, <2>6, <2>8
<1> QED BY <1>1, <1>2

LEMMA SettledUnchanged ==
    ASSUME NEW m \in BindingMaps, NEW t \in TokenMaps, CrossFile(m, t), IsSettled(m), NEW r \in Runtimes
    PROVE  SettledEntry(View(m)[r]) = View(m)[r]
<1>1. \A q \in Runtimes : Settled(m[q], t) = m[q]
  BY DEF Settled, IsSettled, Bound
<1>2. [q \in Runtimes |-> Settled(m[q], t)] = m
  BY <1>1 DEF BindingMaps
<1> QED BY <1>2, SettledView

LEMMA StaysTable ==
    ASSUME Core, FilesSound, Core', FilesSound', Stays
    PROVE  UNCHANGED <<Durable, Current>> \/ Table!Crash
<1>1. Durable' = Durable
  <2>1. CASE Readable
    BY <2>1, NextViews, DurableView DEF Stays
  <2>2. CASE ~Readable
    BY <2>2, NextViews DEF Stays, Durable, Readable
  <2> QED BY <2>1, <2>2
<1>2. CASE pc' \in Open
  BY <1>1, <1>2, NextViews, CurrentView DEF Stays
<1>3. CASE pc' \notin Open
  BY <1>1, <1>3, NextViews DEF Table!Crash
<1> QED BY <1>2, <1>3

LEMMA SettlesTable ==
    ASSUME Core, FilesSound, Core', FilesSound', Settles
    PROVE  Table!Settle
<1> DEFINE t == disk.credentials.tokens
           n == [r \in Runtimes |-> Settled(OnDisk[r], t)]
<1>1. /\ Durable = View(OnDisk) /\ Durable # Missing /\ Durable' = View(n)
      /\ Current = Missing /\ Current' = Missing
  BY NextViews, DurableView, CurrentView DEF Settles
<1>2. OnDisk \in BindingMaps /\ t \in TokenMaps /\ CrossFile(OnDisk, t)
  <2>1. CrossFile(disk.state.bindings, t)
    BY DEF Settles, FilesSound, Openable, Readable
  <2> QED BY <2>1, CoreTypes DEF Settles, OnDisk
<1>3. \A r \in Runtimes : SettledEntry(Durable[r]) = View(n)[r]
  BY <1>1, <1>2, SettledView
<1>4. View(n) = [r \in Runtimes |-> View(n)[r]]
  BY DEF View
<1>5. Durable' = [r \in Runtimes |-> SettledEntry(Durable[r])]
  BY <1>1, <1>3, <1>4
<1> QED BY <1>1, <1>5 DEF Table!Settle

LEMMA OpensTable ==
    ASSUME Core, FilesSound, Core', FilesSound', Opens
    PROVE  Table!Open
<1>1. /\ Durable = View(OnDisk) /\ Durable # Missing /\ DiskAgrees
      /\ Durable' = Durable /\ Current = Missing /\ Current' = Durable
  BY NextViews, DurableView, CurrentView DEF Opens
<1>2. \A r \in Runtimes : Durable[r] = SettledEntry(Durable[r])
  BY <1>1, SettledUnchanged DEF Opens, DiskAgrees
<1> QED BY <1>1, <1>2 DEF Table!Open

LEMMA LosesTable ==
    ASSUME Core, FilesSound, Core', FilesSound', Loses
    PROVE  Table!Lose
  BY NextViews, CurrentView DEF Loses, Table!Lose

LEMMA PutsTable ==
    ASSUME Core, FilesSound, Core', FilesSound', Puts
    PROVE  \E r \in Runtimes : Table!Put(r)
<1> DEFINE m == mem.state.bindings
           n == mem'.state.bindings
<1>1. /\ Current = View(m) /\ Current # Missing
      /\ Current' = View(n) /\ Current' # Missing /\ Durable' = View(n) /\ DiskAgrees'
  BY NextViews, CurrentView, CurrentOpen DEF Puts
<1>2. PICK r \in Runtimes : \A other \in Runtimes \ {r} : n[other] = m[other]
  BY DEF Puts
<1>3. PICK t \in TokenMaps : CrossFile(n, t) /\ n \in BindingMaps
  BY <1>1 DEF DiskAgrees, Puts, TokenMaps
<1> HIDE DEF m, n
<1>4. \A other \in Runtimes \ {r} : View(n)[other] = View(m)[other]
  BY <1>2 DEF View
<1>5. View(n) = [View(m) EXCEPT ![r] = View(n)[r]]
  BY <1>4 DEF View
<1>6. View(n)[r] = NoBinding \/ IsEntry(r, View(n)[r])
  BY <1>3, ViewEntry DEF View
<1>7. Table!Put(r)
  BY <1>1, <1>5, <1>6 DEF Table!Put
<1> QED BY <1>7

(* While no directory sync fails after its rename, the two files behave as *)
(* one table of bindings with their credentials, replaced atomically and   *)
(* durably, in spite of failed writes and of crashes between the writes of *)
(* an operation.                                                           *)
THEOREM ImplementsTableHolds == ASSUME ~SyncMayFail PROVE Spec => ImplementsTable
<1>1. Init => Table!Init
  <2>1. ASSUME Init PROVE Durable = NoBindings /\ Current = Missing
    BY <2>1, EmptyView DEF Init, Durable, Current, Operations
  <2> QED BY <2>1 DEF Table!Init, NoBindings
<1>2. Core /\ FilesSound /\ [Next]_vars => [Table!Next]_<<Durable, Current>>
  <2> SUFFICES ASSUME Core, FilesSound, [Next]_vars PROVE [Table!Next]_<<Durable, Current>>
    OBVIOUS
  <2>1. Core' /\ FilesSound' /\ TableStep
    BY StepKept DEF Kept
  <2> QED BY <2>1, StaysTable, LosesTable, SettlesTable, OpensTable, PutsTable DEF TableStep, Table!Next
<1> QED BY <1>1, <1>2, FilesInvariant, PTL DEF Spec, ImplementsTable, Table!Spec

=============================================================================
