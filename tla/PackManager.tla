----------------------------- MODULE PackManager -----------------------------
(***************************************************************************)
(* The model-pack manager of crates/model-manager: ModelPackManager        *)
(* (lifecycle.rs) over FilesystemPackStorage (filesystem.rs), for one pack *)
(* and its revisions (packs share nothing but the two state files, which   *)
(* are keyed by pack or by a digest of it).                                *)
(*                                                                         *)
(* The manager is only in memory (mem); the disk survives.  An operation   *)
(* has the manager to itself (&mut self), so it is one action, but its     *)
(* writes reach the disk one after another: the process may die, or the    *)
(* storage report an error, after any of them, the last one included (an   *)
(* unlock or a directory sync may fail after the atomic replace).  Each    *)
(* action therefore chooses how far its writes got and how it ended.       *)
(* Operations that return an error and change nothing are not steps.       *)
(***************************************************************************)
EXTENDS Naturals, Sequences, FiniteSets, SequencesExt, Functions

CONSTANTS
    Revisions,      \* the revisions of the pack
    Catalogs,       \* the signed catalogs; each publishes one content per revision
    Artifacts,      \* the artifacts of a manifest
    Consumers,      \* who may hold a reference to the pack
    MaxChallenges,  \* bound on the self-test challenges ever issued
    None            \* no revision, no content

ASSUME RevisionsAssumption ==
    None \notin Revisions /\ None \notin Catalogs
ASSUME ChallengesAssumption == MaxChallenges \in Nat
ASSUME ArtifactsAssumption == IsFiniteSet(Artifacts) /\ Artifacts # {}

VARIABLES
    mem,        \* the manager: see Memory
    catalog,    \* the catalog this process was started with (CatalogInstallBindingV1)
    version,    \* disk: versions/<revision>: whose content (None if absent), and its health
    receipt,    \* disk: the challenge in versions/<revision>/.npc/activation.json, or 0
    pointer,    \* disk: active.json's active_revision, or None when there is no such file
    previous,   \* disk: active.json's previous_revisions
    consumed,   \* disk: attestation-replay.json
    refs,       \* disk: references.json
    nonce,      \* how many challenges were issued
    owner,      \* what each attested challenge was passed by: a revision and its content
    ambiguous   \* history: this process was told of a failure after the pointer was written

disk == <<version, receipt, pointer, previous, consumed, refs>>
vars == <<mem, catalog, disk, nonce, owner, ambiguous>>

Challenges == 1 .. MaxChallenges
States == {"none", "Downloading", "Verifying", "Staging", "AwaitingSelfTest", "Activating",
           "Active", "Quarantined", "Removing", "RolledBack", "Repairing"}

Memory ==
    [state: [Revisions -> States],
     evidence: [Revisions -> SUBSET Artifacts],
     allowed: SUBSET Revisions,
     staged: SUBSET Revisions,
     pending: [Revisions -> Challenges \cup {0}],
     authorization: [Revisions -> Challenges \cup {0}],
     active: Revisions \cup {None},
     rollback: Seq(Revisions),
     references: SUBSET Consumers]

EmptyMemory ==
    [state |-> [r \in Revisions |-> "none"],
     evidence |-> [r \in Revisions |-> {}],
     allowed |-> {}, staged |-> {},
     pending |-> [r \in Revisions |-> 0],
     authorization |-> [r \in Revisions |-> 0],
     active |-> None, rollback |-> <<>>, references |-> {}]

Absent == [content |-> None, healthy |-> FALSE]

TypeOK ==
    /\ mem \in Memory
    /\ catalog \in Catalogs
    /\ version \in [Revisions -> [content: Catalogs \cup {None}, healthy: BOOLEAN]]
    /\ receipt \in [Revisions -> Challenges \cup {0}]
    /\ pointer \in Revisions \cup {None}
    /\ previous \in Seq(Revisions)
    /\ consumed \subseteq Challenges
    /\ refs \subseteq Consumers
    /\ nonce \in 0 .. MaxChallenges
    /\ owner \in [Challenges -> (Revisions \X Catalogs) \cup {None}]
    /\ ambiguous \in BOOLEAN

Init ==
    /\ mem = EmptyMemory
    /\ catalog \in Catalogs
    /\ version = [r \in Revisions |-> Absent]
    /\ receipt = [r \in Revisions |-> 0]
    /\ pointer = None /\ previous = <<>>
    /\ consumed = {} /\ refs = {}
    /\ nonce = 0 /\ owner = [n \in Challenges |-> None]
    /\ ambiguous = FALSE

Installed(r) == version[r].content # None
\* staged_content_binding and verify_index: the tree is re-hashed against its own index
Verifies(r) == Installed(r) /\ version[r].healthy
\* the staged content is still what the process was given, and what it was when the
\* challenge of the receipt was answered
Expected(r) == Verifies(r) /\ version[r].content = catalog
Bound(r, n) == Verifies(r) /\ owner[n] = <<r, version[r].content>>

----------------------------------------------------------------------------
(* How an operation ends.  A process that died forgets its memory, and the *)
(* next one may have been given another catalog.                           *)

Dies ==
    /\ mem' = EmptyMemory
    /\ catalog' \in Catalogs
    /\ ambiguous' = FALSE

Returns(m) == mem' = m /\ UNCHANGED <<catalog, ambiguous>>

\* an error reported after the pointer file was replaced
ReturnsAfterSwap(m) == mem' = m /\ ambiguous' = TRUE /\ UNCHANGED catalog

Restart == Dies /\ UNCHANGED <<disk, nonce, owner>>

\* the file system damages an installed tree
Damage(r) ==
    /\ Verifies(r)
    /\ version' = [version EXCEPT ![r].healthy = FALSE]
    /\ UNCHANGED <<mem, catalog, receipt, pointer, previous, consumed, refs, nonce, owner, ambiguous>>

----------------------------------------------------------------------------
(* From the catalog to an installed inactive version.                      *)

\* begin_install, and begin_update, which is the same step of a revision other than the
\* active one.  A process has one catalog, so it meets one manifest per revision
BeginInstall(r) ==
    /\ mem.state[r] = "none"
    /\ Returns([mem EXCEPT !.state[r] = "Downloading", !.evidence[r] = {}, !.allowed = @ \ {r},
                           !.authorization[r] = 0])
    /\ UNCHANGED <<disk, nonce, owner>>

\* the evidence comes from the downloader, or from verified files that were imported
AcceptVerifiedArtifact(r, a) ==
    /\ mem.state[r] \in {"Downloading", "Verifying"}
    /\ LET evidence == mem.evidence[r] \cup {a} IN
       Returns([mem EXCEPT !.evidence[r] = evidence,
                           !.state[r] = IF evidence = Artifacts THEN "Staging" ELSE "Verifying"])
    /\ UNCHANGED <<disk, nonce, owner>>

\* commit_inactive: a version directory is written once; an existing one must hold the same
\* healthy content, whose staged copy is then dropped
CommitInactive(r) ==
    IF Installed(r) THEN version
    ELSE [version EXCEPT ![r] = [content |-> catalog, healthy |-> TRUE]]
CommitAccepted(r) == Installed(r) => Verifies(r) /\ version[r].content = catalog

\* mutant: the staged copy replaces what is installed under the revision
StageReplaces(r) ==
    /\ mem.state[r] = "Staging"
    /\ mem.evidence[r] = Artifacts
    /\ version' = [version EXCEPT ![r] = [content |-> catalog, healthy |-> TRUE]]
    /\ Returns([mem EXCEPT !.staged = @ \cup {r}, !.state[r] = "AwaitingSelfTest"])
    /\ UNCHANGED <<receipt, pointer, previous, consumed, refs, nonce, owner>>

Stage(r) ==
    /\ mem.state[r] = "Staging"
    /\ mem.evidence[r] = Artifacts
    /\ \/ /\ CommitAccepted(r)
          /\ version' = CommitInactive(r)
          /\ \/ Returns([mem EXCEPT !.staged = @ \cup {r}, !.state[r] = "AwaitingSelfTest"])
             \/ Returns([mem EXCEPT !.staged = @ \cup {r}, !.state[r] = "Quarantined"])
             \/ Dies
       \* refused, or failed before the rename
       \/ /\ UNCHANGED version
          /\ Returns([mem EXCEPT !.staged = @ \cup {r}, !.state[r] = "Quarantined"])
    /\ UNCHANGED <<receipt, pointer, previous, consumed, refs, nonce, owner>>

----------------------------------------------------------------------------
(* Self-test and activation.                                               *)

AuthorizeActivation(r) ==
    /\ mem.state[r] = "AwaitingSelfTest"
    /\ mem.pending[r] = 0
    /\ Returns([mem EXCEPT !.allowed = @ \cup {r}])
    /\ UNCHANGED <<disk, nonce, owner>>

\* replaces an outstanding challenge
IssueSelfTestChallenge(r) ==
    /\ nonce < MaxChallenges
    /\ mem.state[r] = "AwaitingSelfTest"
    /\ r \in mem.staged
    /\ Expected(r)
    /\ nonce' = nonce + 1
    /\ Returns([mem EXCEPT !.pending[r] = nonce + 1])
    /\ UNCHANGED <<disk, owner>>

AbandonSelfTestChallenge(r, n) ==
    /\ mem.state[r] = "AwaitingSelfTest"
    /\ mem.pending[r] = n
    /\ Returns([mem EXCEPT !.pending[r] = 0])
    /\ UNCHANGED <<disk, nonce, owner>>

\* the runner signs the outcome of challenge n; the key is consumed on disk before the
\* manager authorizes the activation
RecordSelfTestAttestation(r, n, passed) ==
    /\ mem.state[r] = "AwaitingSelfTest"
    /\ mem.pending[r] = n
    /\ r \in mem.staged
    /\ IF ~Expected(r) \/ ~passed
       THEN /\ Returns([mem EXCEPT !.state[r] = "Quarantined"])
            /\ UNCHANGED <<consumed, owner>>
       ELSE /\ n \notin consumed
            /\ consumed' = consumed \cup {n}
            /\ owner' = [owner EXCEPT ![n] = <<r, version[r].content>>]
            /\ \/ Returns([mem EXCEPT !.authorization[r] = n, !.state[r] = "Activating",
                                      !.pending[r] = 0])
               \/ Returns(mem)
               \/ Dies
    /\ UNCHANGED <<version, receipt, pointer, previous, refs, nonce>>

\* mutant: a repeated activation of the active revision enters it into its own history
PushAlways(h, r) == IF pointer = None THEN h ELSE Append(h, pointer)

\* the pointer file: activate and activate_existing append the revision they replace
Push(h, r) == IF pointer \in {None, r} THEN h ELSE Append(h, pointer)
\* Vec::dedup: equal neighbours become one
Dedup(h) == FoldLeft(LAMBDA d, r: IF d # <<>> /\ Last(d) = r THEN d ELSE Append(d, r), <<>>, h)

\* mutant: the pointer is written before the receipt
ActivatePointerFirst(r) ==
    /\ mem.state[r] = "Activating"
    /\ mem.authorization[r] \in consumed
    /\ r \in mem.allowed /\ r \in mem.staged
    /\ Bound(r, mem.authorization[r])
    /\ \E written \in {"pointer", "receipt"}:
       /\ pointer' = r /\ previous' = Dedup(Push(previous, r))
       /\ receipt' = IF written = "pointer" THEN receipt
                     ELSE [receipt EXCEPT ![r] = mem.authorization[r]]
       /\ \/ /\ written = "receipt"
             /\ Returns([mem EXCEPT !.state[r] = "Active", !.staged = @ \ {r}, !.active = r])
          \/ Dies
    /\ UNCHANGED <<version, consumed, refs, nonce, owner>>

\* FilesystemPackStorage::activate looks up the key in attestation-replay.json, writes the
\* receipt into the version, then the pointer
Activate(r) ==
    /\ mem.state[r] = "Activating"
    /\ mem.authorization[r] # 0
    /\ r \in mem.allowed /\ r \in mem.staged
    /\ IF ~Bound(r, mem.authorization[r]) \/ mem.authorization[r] \notin consumed
       THEN /\ Returns([mem EXCEPT !.state[r] = "Quarantined"])
            /\ UNCHANGED <<receipt, pointer, previous>>
       ELSE \E written \in {"nothing", "receipt", "pointer"}:
            /\ receipt' = IF written = "nothing" THEN receipt
                          ELSE [receipt EXCEPT ![r] = mem.authorization[r]]
            /\ IF written = "pointer"
               THEN pointer' = r /\ previous' = Dedup(Push(previous, r))
               ELSE UNCHANGED <<pointer, previous>>
            /\ \/ /\ written = "pointer"
                  /\ Returns([mem EXCEPT !.state[r] = "Active", !.staged = @ \ {r}, !.active = r,
                        !.rollback = IF mem.active \in {None, r} THEN @ ELSE Append(@, mem.active)])
               \/ IF written = "pointer"
                  THEN ReturnsAfterSwap([mem EXCEPT !.state[r] = "Quarantined"])
                  ELSE Returns([mem EXCEPT !.state[r] = "Quarantined"])
               \/ written # "nothing" /\ Dies
    /\ UNCHANGED <<version, consumed, refs, nonce, owner>>

----------------------------------------------------------------------------
(* References, rollback and removal.                                       *)

ReferenceCount == LET m == Cardinality(mem.references)  d == Cardinality(refs)
                  IN IF m < d THEN d ELSE m

\* the file first, then the manager's copy
AddReference(c) ==
    /\ mem.active # None
    /\ refs' = refs \cup {c}
    /\ Returns([mem EXCEPT !.references = @ \cup {c}]) \/ Returns(mem) \/ Dies
    /\ UNCHANGED <<version, receipt, pointer, previous, consumed, nonce, owner>>

ReleaseReference(c) ==
    /\ refs' = refs \ {c}
    /\ Returns([mem EXCEPT !.references = @ \ {c}]) \/ Returns(mem) \/ Dies
    /\ UNCHANGED <<version, receipt, pointer, previous, consumed, nonce, owner>>

\* mutant: the manager moves on although the storage refused
RollbackOptimistic ==
    /\ ReferenceCount = 0
    /\ mem.rollback # <<>>
    /\ LET target == Last(mem.rollback) IN
       /\ Returns([mem EXCEPT !.rollback = Front(@), !.active = target])
       /\ \/ UNCHANGED <<pointer, previous>>
          \/ Installed(target) /\ pointer' = target /\ previous' = Push(previous, target)
    /\ UNCHANGED <<version, receipt, consumed, refs, nonce, owner>>

\* the target leaves the manager's stack before the storage is asked to activate it
Rollback ==
    /\ ReferenceCount = 0
    /\ mem.rollback # <<>>
    /\ LET target == Last(mem.rollback)
           popped == [mem EXCEPT !.rollback = Front(@)]
       IN \/ /\ Returns(popped)
             /\ UNCHANGED <<pointer, previous>>
          \/ /\ target \in {r \in Revisions: Installed(r)}
             /\ pointer' = target /\ previous' = Push(previous, target)
             /\ \/ Returns([popped EXCEPT !.active = target,
                            !.state = [r \in Revisions |->
                                IF mem.state[r] = "none" THEN "none"
                                ELSE IF r = target THEN "Active"
                                ELSE IF r = mem.active THEN "RolledBack" ELSE mem.state[r]]])
                \/ ReturnsAfterSwap(popped)
                \/ Dies
    /\ UNCHANGED <<version, receipt, consumed, refs, nonce, owner>>

\* rollback_persisted needs the storage itself, which a manager with records owns
RollbackPersisted ==
    /\ mem = EmptyMemory
    /\ refs = {}
    /\ pointer # None
    /\ previous # <<>>
    /\ LET target == Last(previous) IN
       /\ target \in {r \in Revisions: Installed(r)}
       /\ pointer' = target /\ previous' = Append(Front(previous), pointer)
    /\ UNCHANGED <<mem, catalog, version, receipt, consumed, refs, nonce, owner, ambiguous>>

\* mutant: the tree is deleted before the pointer file
RemoveTreeFirst(gone, x, k) ==
    LET pointerGone == pointer \in gone \/ (pointer = x /\ k = 3) IN
    /\ pointer' = IF pointerGone THEN None ELSE pointer
    /\ previous' = IF pointerGone THEN <<>> ELSE previous
    /\ version' = [r \in Revisions |-> IF r \in gone \/ (r = x /\ k >= 1) THEN Absent ELSE version[r]]
    /\ receipt' = [r \in Revisions |-> IF r \in gone \/ (r = x /\ k >= 1) THEN 0 ELSE receipt[r]]

\* remove_revision of every revision in `gone', and the first k writes of it for revision x:
\* the pointer file, then part of the tree, then all of it
RemoveRevisions(gone, x, k) ==
    LET pointerGone == pointer \in gone \/ (pointer = x /\ k >= 1) IN
    /\ pointer' = IF pointerGone THEN None ELSE pointer
    /\ previous' = IF pointerGone THEN <<>> ELSE previous
    /\ version' = [r \in Revisions |->
                     IF r \in gone \/ (r = x /\ k = 3) THEN Absent
                     ELSE IF r = x /\ k = 2 THEN [version[r] EXCEPT !.healthy = FALSE]
                     ELSE version[r]]
    /\ receipt' = [r \in Revisions |-> IF r \in gone \/ (r = x /\ k = 3) THEN 0 ELSE receipt[r]]

Forget(m, gone) ==
    [m EXCEPT !.state = [r \in Revisions |-> IF r \in gone THEN "none" ELSE m.state[r]],
              !.evidence = [r \in Revisions |-> IF r \in gone THEN {} ELSE m.evidence[r]],
              !.authorization = [r \in Revisions |-> IF r \in gone THEN 0 ELSE m.authorization[r]],
              !.pending = [r \in Revisions |-> IF r \in gone THEN 0 ELSE m.pending[r]],
              !.allowed = @ \ gone, !.staged = @ \ gone]

Managed == {r \in Revisions: mem.state[r] # "none"}

\* mutant: a forced removal goes past the references
RemoveForced ==
    /\ RemoveRevisions(Managed, None, 0)
    /\ Returns([Forget(mem, Managed) EXCEPT !.active = None, !.rollback = <<>>, !.references = {}])
    /\ UNCHANGED <<consumed, refs, nonce, owner>>

\* remove with RemovalPolicy::Force; RequireUnreferenced adds ReferenceCount = 0.  Only
\* revisions with a record are touched, and the storage refuses a referenced pack anyway
RemovePack ==
    /\ \/ /\ refs = {} \/ Managed = {}
          /\ RemoveRevisions(Managed, None, 0)
          /\ Returns([Forget(mem, Managed) EXCEPT !.active = None, !.rollback = <<>>,
                                                  !.references = {}])
       \/ \E x \in Managed: \E gone \in SUBSET (Managed \ {x}), k \in 0 .. 3:
          /\ refs # {} => gone = {} /\ k = 0
          /\ RemoveRevisions(gone, x, k)
          /\ LET m == [Forget(mem, gone) EXCEPT !.state[x] = "Removing"] IN
             \/ IF pointer' # pointer THEN ReturnsAfterSwap(m) ELSE Returns(m)
             \/ Dies
    /\ UNCHANGED <<consumed, refs, nonce, owner>>

----------------------------------------------------------------------------
(* Repair: the audit finds something other than the expected tree.         *)

BeginRepair(r) ==
    /\ mem.state[r] # "none"
    /\ ~Expected(r)
    /\ Returns([mem EXCEPT !.staged = @ \ {r}, !.pending[r] = 0, !.state[r] = "Repairing"])
    /\ UNCHANGED <<disk, nonce, owner>>

RestartRepairDownloads(r) ==
    /\ mem.state[r] = "Repairing"
    /\ Returns([mem EXCEPT !.evidence[r] = {}, !.authorization[r] = 0, !.state[r] = "Downloading"])
    /\ UNCHANGED <<disk, nonce, owner>>

----------------------------------------------------------------------------
Install(r) ==
    \/ BeginInstall(r)
    \/ \E a \in Artifacts: AcceptVerifiedArtifact(r, a)
    \/ Stage(r)

SelfTest(r) ==
    \/ AuthorizeActivation(r)
    \/ IssueSelfTestChallenge(r)
    \/ \E n \in Challenges: AbandonSelfTestChallenge(r, n)
    \/ \E n \in Challenges, passed \in BOOLEAN: RecordSelfTestAttestation(r, n, passed)
    \/ Activate(r)

Repair(r) == BeginRepair(r) \/ RestartRepairDownloads(r)

Next ==
    \/ \E r \in Revisions: Install(r) \/ SelfTest(r) \/ Repair(r) \/ Damage(r)
    \/ \E c \in Consumers: AddReference(c) \/ ReleaseReference(c)
    \/ Rollback \/ RollbackPersisted
    \/ RemovePack
    \/ Restart

Spec == Init /\ [][Next]_vars

----------------------------------------------------------------------------
(* Properties.                                                             *)

\* active.json never names a version that is not on disk, wherever activation, rollback or
\* removal was interrupted: remove_revision deletes the pointer before the tree.
PointerIsInstalled == pointer # None => Installed(pointer)

\* Beside the version lies the receipt of an attested self-test of the very content that
\* is installed, and its key was consumed on disk.
Attested(r) == receipt[r] \in consumed /\ owner[receipt[r]] = <<r, version[r].content>>

\* active.json is pointed only at attested content, through restarts with another catalog,
\* quarantines, repairs and partial removals.  The one exception is a rollback to a
\* revision that lost its receipt, because its tree was removed, and perhaps staged again,
\* since it was active: activate_existing and rollback_persisted look only for the directory.
OnlyAttestedBecomesActive ==
    [][pointer' \notin {pointer, None} =>
         \/ Attested(pointer)'
         \/ /\ receipt'[pointer'] = 0
            /\ pointer' \in Range(previous) \cup Range(mem.rollback)]_vars

\* What docs/guides/local-model-manager.md says without the exception.  The code does not
\* keep it: revision 1 is active, then revision 2; a process with another catalog removes
\* revision 1, stages its own content for it, and rollback_persisted activates that.
ActiveIsAttested == pointer # None => Attested(pointer)

\* A persisted rollback always leads to another revision: the newest entry of the history
\* is never the active revision, however activations, rollbacks of either kind and
\* removals alternate.
RollbackChangesRevision == previous # <<>> => Last(previous) # pointer

\* The manager's idea of the active revision is the pointer's, unless it was told of a
\* failure that may have struck after the pointer was replaced.
ManagerAgreesWithDisk == mem.active # None /\ ~ambiguous => pointer = mem.active

\* While a consumer holds a persisted reference, no step takes the active revision away,
\* not even a forced removal.
ReferencedPackStays ==
    [][refs # {} /\ pointer # None => pointer' # None /\ version'[pointer'].content # None]_vars

\* A version directory never changes its content: another manifest for an installed
\* revision is refused, also by a process that has forgotten the first one.
VersionsAreImmutable ==
    [][\A r \in Revisions: Installed(r) /\ version'[r].content # None
          => version'[r].content = version[r].content]_vars
=============================================================================
