------------------------------ MODULE LocalStore ------------------------------
(***************************************************************************)
(* LocalStore (config/store.ts, config/atomic-json.ts): the bindings of    *)
(* the runtimes in state.json, their RongCloud credentials in              *)
(* credentials.json, and the recovery gates that follow a file that could  *)
(* not be read.                                                            *)
(*                                                                         *)
(* A step ends with one atomic replacement of a file, or with none.  The   *)
(* process may die between any two steps.  open() is serialized per        *)
(* directory and every operation is serialized by #queue, so that at most  *)
(* one of them is under way; an operation that rejects its input before    *)
(* its first write changes nothing and is no step of this model.           *)
(***************************************************************************)
EXTENDS Naturals, FiniteSets

CONSTANTS
    Runtimes,       \* runtimeId
    Providers,      \* provider
    Nodes,          \* nodeId
    ProviderOf,     \* the provider that a nodeId is valid for (isValidNodeId)
    Refs,           \* tokenRef
    Ids,            \* installId and bridgeSecret: random, one draw for both
    NoNode, NoRef,  \* undefined
    NoOwner,        \* no such token
    NoBinding,      \* no such binding
    Missing,        \* the file does not exist, or is not loaded
    MaxBindings,    \* MAX_BINDINGS
    Unreadable,     \* the files that open() may fail to read
    SyncMayFail     \* whether the directory sync after a rename may fail

ASSUME StoreAssumption ==
    /\ ProviderOf \in [Nodes -> Providers]
    /\ NoNode \notin Nodes /\ NoRef \notin Refs
    /\ MaxBindings \in Nat
    /\ Unreadable \subseteq {"state", "credentials", "config"}
    /\ SyncMayFail \in BOOLEAN

-----------------------------------------------------------------------------
(* The files.                                                              *)

RegistrationStates == {"unregistered", "registering", "online", "offline", "error"}

Complete(b) == b.node # NoNode /\ b.ref # NoRef

(* RuntimeBindingSchema.                                                   *)
ValidBinding(b) ==
    /\ b.node # NoNode => ProviderOf[b.node] = b.provider
    /\ b.enabled \/ b.registration \in {"online", "offline"} => Complete(b)
    /\ b.registration = "unregistered" => b.node = NoNode /\ b.ref = NoRef

Bindings ==
    {b \in [provider : Providers, node : Nodes \cup {NoNode}, ref : Refs \cup {NoRef},
            enabled : BOOLEAN, registration : RegistrationStates] : ValidBinding(b)}

(* The part of a RongCloudCredential that says whose it is.                *)
Owners == [runtime : Runtimes, provider : Providers, node : Nodes]

(* A binding with the credential it refers to.                             *)
Entries == [binding : Bindings, owner : Owners \cup {NoOwner}]

BindingMaps == [Runtimes -> Bindings \cup {NoBinding}]

StateFiles == [install : Ids, bindings : BindingMaps]
CredentialFiles == [secret : Ids, tokens : [Refs -> Owners \cup {NoOwner}]]

(* undefined is none of the values it stands in for.                       *)
ASSUME UndefinedAssumption ==
    /\ NoOwner \notin [runtime : Runtimes, provider : Providers, node : Nodes \cup {NoNode}]
    /\ NoBinding \notin Bindings /\ NoBinding \notin Entries
    /\ Missing \notin StateFiles /\ Missing \notin CredentialFiles
    /\ Missing \notin [Runtimes -> Entries \cup {NoBinding}]

NoBindings == [r \in Runtimes |-> NoBinding]
NoTokens == [ref \in Refs |-> NoOwner]

Bound(bindings) == {r \in Runtimes : bindings[r] # NoBinding}

(* LocalStateSchema.                                                       *)
ValidState(bindings) ==
    /\ Cardinality(Bound(bindings)) <= MaxBindings
    /\ \A q, r \in Bound(bindings) : bindings[q].provider = bindings[r].provider => q = r

(* validateCrossFile.                                                      *)
CrossFile(bindings, tokens) ==
    \A r \in Bound(bindings) :
        bindings[r].ref # NoRef =>
            tokens[bindings[r].ref] =
                [runtime |-> r, provider |-> bindings[r].provider, node |-> bindings[r].node]

(* referencedTokenRefs.                                                    *)
Referenced(bindings) == {bindings[r].ref : r \in Bound(bindings)} \ {NoRef}

Only(tokens, refs) == [ref \in Refs |-> IF ref \in refs THEN tokens[ref] ELSE NoOwner]

-----------------------------------------------------------------------------
VARIABLES
    disk,   \* the files, and which of them have .corrupt. artifacts
    mem,    \* what the process holds: #state, #credentials, the config warning
    draft,  \* the bindings and tokens that the operation under way writes
    pc,     \* the operation under way
    known   \* the bridge identities handed out by every store so far

vars == <<disk, mem, draft, pc, known>>

Opening == {"read", "settle", "initState", "initCredentials", "reconcile", "orphans"}
Operations == {"save", "commitCredentials", "commitState", "commitCleanup",
               "removeState", "removeCredentials"}

Unloaded == [state |-> Missing, credentials |-> Missing, warning |-> FALSE]
Nothing == [bindings |-> NoBindings, tokens |-> NoTokens]

TypeOK ==
    /\ disk \in [state : StateFiles \cup {Missing}, credentials : CredentialFiles \cup {Missing},
                 config : BOOLEAN, corrupt : SUBSET {"state", "credentials", "config"}]
    /\ mem \in [state : StateFiles \cup {Missing}, credentials : CredentialFiles \cup {Missing},
                warning : BOOLEAN]
    /\ draft \in [bindings : BindingMaps, tokens : [Refs -> Owners \cup {NoOwner}]]
    /\ pc \in {"closed", "ready"} \cup Opening \cup Operations
    /\ known \in SUBSET (Ids \X Ids)

Init ==
    /\ disk = [state |-> Missing, credentials |-> Missing, config |-> FALSE, corrupt |-> {}]
    /\ mem = Unloaded
    /\ draft = Nothing
    /\ pc = "closed"
    /\ known = {}

(* The outcomes of atomicWriteJson: done, failed before the rename with    *)
(* the old file in place, or failed in syncDirectory with the new one.     *)
Outcomes == {"done", "failed"} \cup (IF SyncMayFail THEN {"unsynced"} ELSE {})

AtomicWrite(file, value, outcome) ==
    disk' = IF outcome = "failed" THEN disk ELSE [disk EXCEPT ![file] = value]

(* quarantineJsonFile: the rename may fail too.                            *)
Quarantine(file, missing) ==
    \/ disk' = [disk EXCEPT ![file] = missing, !.corrupt = @ \cup {file}]
    \/ disk' = disk

Close ==
    /\ mem' = Unloaded
    /\ draft' = Nothing
    /\ pc' = "closed"
    /\ UNCHANGED known

-----------------------------------------------------------------------------
(* open()                                                                  *)

(* A config that is unreadable is set aside and replaced by the defaults;  *)
(* the warning then stands, as it does while an artifact remains or the    *)
(* directory cannot be listed.                                             *)
OpenConfig ==
    /\ pc = "closed"
    /\ \/ /\ mem' = [Unloaded EXCEPT !.warning = "config" \in disk.corrupt]
          /\ UNCHANGED disk
       \/ /\ "config" \in Unreadable
          /\ mem' = [Unloaded EXCEPT !.warning = TRUE]
          /\ UNCHANGED disk
       \/ /\ "config" \in Unreadable /\ disk.config
          /\ Quarantine("config", FALSE)
          /\ mem' = [Unloaded EXCEPT !.warning = TRUE]
    /\ pc' = "read"
    /\ UNCHANGED <<draft, known>>

(* A recovery artifact, a directory that cannot be listed, or one file     *)
(* without the other.                                                      *)
OpenRefused ==
    /\ pc = "read"
    /\ Close
    /\ UNCHANGED disk

(* A file that cannot be read or parsed is set aside and open() fails.     *)
OpenUnreadable ==
    /\ pc = "read"
    /\ disk.corrupt \cap {"state", "credentials"} = {}
    /\ \E file \in {"state", "credentials"} \cap Unreadable :
          /\ disk[file] # Missing
          /\ Quarantine(file, Missing)
    /\ Close

FreshIds ==
    Ids \ (UNION {{k[1], k[2]} : k \in known}
           \cup (IF disk.state = Missing THEN {} ELSE {disk.state.install}))

(* Mutant: open() without the recovery gates.                              *)
OpenReadUngated ==
    /\ pc = "read"
    /\ \E id \in FreshIds :
          mem' = [mem EXCEPT
              !.state = IF disk.state = Missing THEN [install |-> id, bindings |-> NoBindings]
                        ELSE disk.state,
              !.credentials = IF disk.credentials = Missing THEN [secret |-> id, tokens |-> NoTokens]
                              ELSE disk.credentials]
    /\ pc' = "initState"
    /\ UNCHANGED <<disk, draft, known>>

(* A first open initializes both files, or the half that a crash left out; *)
(* one file without the other is refused.                                  *)
OpenRead ==
    /\ pc = "read"
    /\ disk.corrupt \cap {"state", "credentials"} = {}
    /\ \/ /\ disk.state = Missing /\ disk.credentials = Missing
          /\ \E id \in FreshIds :
                mem' = [mem EXCEPT
                    !.state = [install |-> id, bindings |-> NoBindings],
                    !.credentials = [secret |-> id, tokens |-> NoTokens]]
          /\ pc' = "initState"
       \/ /\ disk.state # Missing /\ disk.credentials = Missing
          /\ Bound(disk.state.bindings) = {}
          /\ \E id \in FreshIds :
                mem' = [mem EXCEPT
                    !.state = disk.state,
                    !.credentials = [secret |-> id, tokens |-> NoTokens]]
          /\ pc' = "initCredentials"
       \/ /\ disk.state # Missing /\ disk.credentials # Missing
          /\ mem' = [mem EXCEPT !.state = disk.state, !.credentials = disk.credentials]
          /\ pc' = "settle"
    /\ UNCHANGED <<disk, draft, known>>

OpenInitState(outcome) ==
    /\ pc = "initState"
    /\ AtomicWrite("state", mem.state, outcome)
    /\ \/ outcome = "done" /\ pc' = "initCredentials" /\ UNCHANGED <<mem, draft, known>>
       \/ outcome # "done" /\ Close

OpenInitCredentials(outcome) ==
    /\ pc = "initCredentials"
    /\ AtomicWrite("credentials", mem.credentials, outcome)
    /\ \/ outcome = "done" /\ pc' = "settle" /\ UNCHANGED <<mem, draft, known>>
       \/ outcome # "done" /\ Close

(* No connection outlives the process; a registration cut short keeps its  *)
(* identity if it has one.                                                 *)
Settled(b, tokens) ==
    IF b = NoBinding \/ b.registration \notin {"online", "registering"} THEN b
    ELSE IF b.registration = "online" \/ (Complete(b) /\ tokens[b.ref] # NoOwner)
    THEN [b EXCEPT !.registration = "offline"]
    ELSE [b EXCEPT !.registration = "error", !.enabled = FALSE]

(* validateCrossFile refuses the pair of files, or the states settle.      *)
OpenSettle ==
    /\ pc = "settle"
    /\ IF CrossFile(mem.state.bindings, mem.credentials.tokens)
       THEN LET settled == [r \in Runtimes |-> Settled(mem.state.bindings[r], mem.credentials.tokens)]
            IN  /\ mem' = [mem EXCEPT !.state.bindings = settled]
                /\ pc' = IF settled = mem.state.bindings THEN "orphans" ELSE "reconcile"
                /\ UNCHANGED <<draft, known>>
       ELSE Close
    /\ UNCHANGED disk

OpenReconcile(outcome) ==
    /\ pc = "reconcile"
    /\ AtomicWrite("state", mem.state, outcome)
    /\ \/ outcome = "done" /\ pc' = "orphans" /\ UNCHANGED <<mem, draft, known>>
       \/ outcome # "done" /\ Close

(* Tokens that no binding refers to are dropped, and the store is open.    *)
OpenOrphans(outcome) ==
    /\ pc = "orphans"
    /\ LET kept == Only(mem.credentials.tokens, Referenced(mem.state.bindings))
           opened == [mem EXCEPT !.credentials.tokens = kept]
       IN  /\ IF kept = mem.credentials.tokens
              THEN outcome = "done" /\ UNCHANGED disk
              ELSE AtomicWrite("credentials", opened.credentials, outcome)
           /\ \/ /\ outcome = "done"
                 /\ mem' = opened
                 /\ pc' = "ready"
                 /\ known' = known \cup {<<mem.state.install, mem.credentials.secret>>}
                 /\ UNCHANGED draft
              \/ outcome # "done" /\ Close

-----------------------------------------------------------------------------
(* The operations of an open store.                                        *)

(* saveConfig: the gate is lifted once every artifact is renamed away.     *)
SaveConfig ==
    /\ pc = "ready"
    /\ \/ /\ disk' = [disk EXCEPT !.config = TRUE, !.corrupt = @ \ {"config"}]
          /\ mem' = [mem EXCEPT !.warning = FALSE]
       \/ /\ \/ disk' = [disk EXCEPT !.config = TRUE]
             \/ disk' = [disk EXCEPT !.config = TRUE, !.corrupt = @ \ {"config"}]
          /\ UNCHANGED mem
    /\ UNCHANGED <<draft, pc, known>>

(* The next free tokenRef: random, hence one that occurs nowhere.          *)
FreshRefs ==
    {ref \in Refs :
        /\ mem.credentials.tokens[ref] = NoOwner
        /\ disk.credentials # Missing => disk.credentials.tokens[ref] = NoOwner
        /\ disk.state # Missing => ref \notin Referenced(disk.state.bindings)}

(* Mutant: saveBinding without validateCrossFile.                          *)
SaveBindingUnchecked(r, b) ==
    /\ pc = "ready" /\ ~mem.warning
    /\ draft' = [draft EXCEPT !.bindings = [mem.state.bindings EXCEPT ![r] = b]]
    /\ ValidState(draft'.bindings)
    /\ pc' = "save"
    /\ UNCHANGED <<disk, mem, known>>

(* saveBinding                                                             *)
SaveBinding(r, b) ==
    /\ pc = "ready" /\ ~mem.warning
    /\ draft' = [draft EXCEPT !.bindings = [mem.state.bindings EXCEPT ![r] = b]]
    /\ ValidState(draft'.bindings)
    /\ CrossFile(draft'.bindings, mem.credentials.tokens)
    /\ pc' = "save"
    /\ UNCHANGED <<disk, mem, known>>

SaveState(outcome) ==
    /\ pc = "save"
    /\ AtomicWrite("state", [mem.state EXCEPT !.bindings = draft.bindings], outcome)
    /\ mem' = IF outcome = "done" THEN [mem EXCEPT !.state.bindings = draft.bindings] ELSE mem
    /\ draft' = Nothing
    /\ pc' = "ready"
    /\ UNCHANGED known

(* commitRegistration: the new token first, then the binding that uses it, *)
(* then the old token is dropped.                                          *)
CommitRegistration(r, b, ref) ==
    LET old == mem.state.bindings[r]
        new == [b EXCEPT !.ref = ref]
    IN  /\ pc = "ready" /\ ~mem.warning
        /\ ref \in FreshRefs
        /\ b.node # NoNode /\ new \in Bindings
        /\ old # NoBinding => old.provider = b.provider
        /\ draft' = [bindings |-> [mem.state.bindings EXCEPT ![r] = new],
                    tokens |-> [mem.credentials.tokens EXCEPT ![ref] =
                        [runtime |-> r, provider |-> b.provider, node |-> b.node]]]
        /\ ValidState(draft'.bindings)
        /\ CrossFile(draft'.bindings, draft'.tokens)
        /\ pc' = "commitCredentials"
        /\ UNCHANGED <<disk, mem, known>>

CommitCredentials(outcome) ==
    /\ pc = "commitCredentials"
    /\ AtomicWrite("credentials", [mem.credentials EXCEPT !.tokens = draft.tokens], outcome)
    /\ \/ outcome = "done" /\ pc' = "commitState" /\ UNCHANGED draft
       \/ outcome # "done" /\ pc' = "ready" /\ draft' = Nothing
    /\ UNCHANGED <<mem, known>>

(* The old reference of the one binding that changed.                      *)
Dropped(before, after) == Referenced(before) \ Referenced(after)

(* Mutant: memory takes the new binding whatever became of the write.      *)
CommitStateRegardless(outcome) ==
    /\ pc = "commitState"
    /\ AtomicWrite("state", [mem.state EXCEPT !.bindings = draft.bindings], outcome)
    /\ mem' = [mem EXCEPT !.state.bindings = draft.bindings, !.credentials.tokens = draft.tokens]
    /\ pc' = "ready" /\ draft' = Nothing
    /\ UNCHANGED known

CommitState(outcome) ==
    LET dropped == Dropped(mem.state.bindings, draft.bindings)
        cleaned == Only(draft.tokens, Refs \ dropped)
    IN  /\ pc = "commitState"
        /\ AtomicWrite("state", [mem.state EXCEPT !.bindings = draft.bindings], outcome)
        /\ mem' = IF outcome = "done"
                  THEN [mem EXCEPT !.state.bindings = draft.bindings,
                                   !.credentials.tokens = draft.tokens]
                  ELSE mem
        /\ IF outcome = "done" /\ dropped # {}
           THEN pc' = "commitCleanup" /\ draft' = [draft EXCEPT !.tokens = cleaned]
           ELSE pc' = "ready" /\ draft' = Nothing
        /\ UNCHANGED known

(* Also the last step of removeBinding: they differ in what they report.   *)
DropToken(stage, outcome) ==
    /\ pc = stage
    /\ AtomicWrite("credentials", [mem.credentials EXCEPT !.tokens = draft.tokens], outcome)
    /\ mem' = IF outcome = "done" THEN [mem EXCEPT !.credentials.tokens = draft.tokens] ELSE mem
    /\ draft' = Nothing
    /\ pc' = "ready"
    /\ UNCHANGED known

CommitCleanup(outcome) == DropToken("commitCleanup", outcome)

(* Mutant: the token is removed first.                                     *)
RemoveTokenFirst(r) ==
    /\ pc = "ready" /\ ~mem.warning
    /\ mem.state.bindings[r] # NoBinding
    /\ draft' = [draft EXCEPT !.tokens =
                    Only(mem.credentials.tokens, Refs \ {mem.state.bindings[r].ref})]
    /\ pc' = "removeCredentials"
    /\ UNCHANGED <<disk, mem, known>>

(* removeBinding: the binding first, then its token.                       *)
RemoveBinding(r) ==
    /\ pc = "ready" /\ ~mem.warning
    /\ mem.state.bindings[r] # NoBinding
    /\ draft' = [draft EXCEPT !.bindings = [mem.state.bindings EXCEPT ![r] = NoBinding]]
    /\ pc' = "removeState"
    /\ UNCHANGED <<disk, mem, known>>

RemoveState(outcome) ==
    LET dropped == Dropped(mem.state.bindings, draft.bindings)
    IN  /\ pc = "removeState"
        /\ AtomicWrite("state", [mem.state EXCEPT !.bindings = draft.bindings], outcome)
        /\ mem' = IF outcome = "done" THEN [mem EXCEPT !.state.bindings = draft.bindings] ELSE mem
        /\ IF outcome = "done" /\ dropped # {}
           THEN /\ pc' = "removeCredentials"
                /\ draft' = [draft EXCEPT !.tokens = Only(mem.credentials.tokens, Refs \ dropped)]
           ELSE pc' = "ready" /\ draft' = Nothing
        /\ UNCHANGED known

RemoveCredentials(outcome) == DropToken("removeCredentials", outcome)

(* The process ends, in the middle of an operation or not.                 *)
Crash ==
    /\ pc # "closed"
    /\ Close
    /\ UNCHANGED disk

Write(outcome) ==
    \/ OpenInitState(outcome) \/ OpenInitCredentials(outcome)
    \/ OpenReconcile(outcome) \/ OpenOrphans(outcome)
    \/ SaveState(outcome)
    \/ CommitCredentials(outcome) \/ CommitState(outcome) \/ CommitCleanup(outcome)
    \/ RemoveState(outcome) \/ RemoveCredentials(outcome)

Next ==
    \/ OpenConfig \/ OpenRefused \/ OpenUnreadable \/ OpenRead \/ OpenSettle
    \/ SaveConfig
    \/ \E r \in Runtimes, b \in Bindings : SaveBinding(r, b)
    \/ \E r \in Runtimes, b \in Bindings, ref \in Refs : CommitRegistration(r, b, ref)
    \/ \E r \in Runtimes : RemoveBinding(r)
    \/ \E outcome \in Outcomes : Write(outcome)
    \/ Crash

Spec == Init /\ [][Next]_vars

-----------------------------------------------------------------------------
(* Whatever the program was doing when it died, open() accepts the files   *)
(* it left: no operation, failed write or crash leaves a state.json whose  *)
(* bindings and credentials disagree, or one file without the other.  Only *)
(* a file that could not be read, and so was set aside, blocks the store.  *)
Openable ==
    disk.corrupt \cap {"state", "credentials"} = {} =>
        /\ disk.state = Missing => disk.credentials = Missing
        /\ disk.state # Missing /\ disk.credentials = Missing => Bound(disk.state.bindings) = {}
        /\ disk.state # Missing /\ disk.credentials # Missing =>
              CrossFile(disk.state.bindings, disk.credentials.tokens)

(* The machine keeps one bridge identity: a crash during initialization, a *)
(* file set aside or a failed write never makes a later open() hand out    *)
(* another installId or bridgeSecret.                                      *)
IdentityStable == Cardinality(known) <= 1

(* An open store can hand a worker the credential of every enabled         *)
(* binding, in the middle of an operation too.                             *)
EnabledHasCredential ==
    pc \in {"ready"} \cup Operations =>
        \A r \in Bound(mem.state.bindings) :
            LET b == mem.state.bindings[r]
            IN  b.enabled => mem.credentials.tokens[b.ref] =
                    [runtime |-> r, provider |-> b.provider, node |-> b.node]

-----------------------------------------------------------------------------
(* The files as one table: a binding and the token it refers to.           *)

Whole(binding, owner) == [binding |-> binding, owner |-> owner]

IsEntry(r, entry) ==
    LET b == entry.binding
    IN  /\ b \in Bindings
        /\ entry.owner = IF b.ref = NoRef THEN NoOwner
                         ELSE [runtime |-> r, provider |-> b.provider, node |-> b.node]

SettledEntry(entry) ==
    IF entry = NoBinding THEN entry
    ELSE [entry EXCEPT !.binding =
             Settled(@, [ref \in Refs |-> IF ref = @.ref THEN entry.owner ELSE NoOwner])]

TableOf(state, credentials) ==
    [r \in Runtimes |->
        LET b == IF state = Missing THEN NoBinding ELSE state.bindings[r]
        IN  IF b = NoBinding THEN NoBinding
            ELSE Whole(b, IF b.ref = NoRef \/ credentials = Missing THEN NoOwner
                          ELSE credentials.tokens[b.ref])]

Durable ==
    IF disk.corrupt \cap {"state", "credentials"} # {} THEN Missing
    ELSE TableOf(disk.state, disk.credentials)

Current ==
    IF pc \in {"ready"} \cup Operations THEN TableOf(mem.state, mem.credentials)
    ELSE Missing

Table == INSTANCE BindingTable WITH
    NoEntry <- NoBinding, Settled <- SettledEntry, Lost <- Missing, Closed <- Missing,
    durable <- Durable, current <- Current

(* LocalStore implements an atomic table: whatever fails or crashes, a     *)
(* binding is replaced together with its credential or not at all, what    *)
(* is acknowledged is durable, and an open finds what was acknowledged.    *)
ImplementsTable == Table!Spec

=============================================================================
