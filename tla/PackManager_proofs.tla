------------------------- MODULE PackManager_proofs -------------------------
(***************************************************************************)
(* The files of a pack stay coherent, for any revisions, catalogs,         *)
(* artifacts, consumers and number of challenges, wherever an operation    *)
(* of the manager is interrupted: the pointer names an installed version,  *)
(* versions do not change their content, a referenced pack keeps its       *)
(* active revision, the manager agrees with the disk, the history of       *)
(* active.json ends in another revision than the active one, and the       *)
(* pointer moves only to attested content, but for a rollback to a         *)
(* revision without a receipt.                                             *)
(*                                                                         *)
(* What makes the last one inductive is that every receipt on disk attests *)
(* the very content it lies beside (AttestInv).                            *)
(***************************************************************************)
EXTENDS PackManager, FiniteSetTheorems, TLAPS

\* The part of the disk that the pointer depends on.
TreeTypeOK ==
    /\ catalog \in Catalogs
    /\ version \in [Revisions -> [content: Catalogs \cup {None}, healthy: BOOLEAN]]
    /\ pointer \in Revisions \cup {None}

TreeInv == TreeTypeOK /\ PointerIsInstalled

ManagerInv == mem \in Memory /\ nonce \in 0 .. MaxChallenges /\ ManagerAgreesWithDisk

----------------------------------------------------------------------------
(* Vec::dedup, a fold over the places of the history, by induction on its   *)
(* length.                                                                  *)

\* Induction on the natural numbers, for a set instead of a predicate.
LEMMA NatSetInduction ==
    ASSUME NEW T, 0 \in T, \A n \in Nat : n \in T => n + 1 \in T
    PROVE  Nat \subseteq T
<1> SUFFICES ASSUME Nat \ T # {}
             PROVE  FALSE
  OBVIOUS
<1>1. PICK n \in Nat \ T : \A k \in Nat \ T : ~(<<k, n>> \in OpToRel(<, Nat))
  BY NatLessThanWellFounded, WFMin
<1>2. n # 0 /\ n - 1 \in Nat
  OBVIOUS
<1>3. <<n - 1, n>> \in OpToRel(<, Nat)
  BY <1>2 DEF OpToRel
<1>4. n - 1 \in T
  BY <1>1, <1>2, <1>3
<1> QED
  BY <1>2, <1>4

\* What Dedup does with the next element, and with the elements at a set of places.
Keep(d, r) == IF d # <<>> /\ Last(d) = r THEN d ELSE Append(d, r)
Fold(h, g, s) == IF s = {} THEN <<>> ELSE Keep(g[s \ {Max(s)}], h[Max(s)])

\* A solution of the recursion for the first n elements of h.
Folds(g, h, n) == g = [s \in SUBSET (1 .. n) |-> Fold(h, g, s)]

\* What is kept ends in the new element and holds nothing else that is new.
LEMMA KeepType ==
    ASSUME NEW d \in Seq(Revisions), NEW r \in Revisions
    PROVE  /\ Keep(d, r) \in Seq(Revisions)
           /\ Keep(d, r) # <<>> /\ Last(Keep(d, r)) = r
           /\ \A i \in DOMAIN Keep(d, r): Keep(d, r)[i] = r \/ \E j \in DOMAIN d: Keep(d, r)[i] = d[j]
<1>1. CASE d # <<>> /\ Last(d) = r
  BY <1>1 DEF Keep
<1>2. CASE ~(d # <<>> /\ Last(d) = r)
  <2>1. Keep(d, r) = Append(d, r)
    BY <1>2 DEF Keep
  <2>2. /\ Append(d, r) \in Seq(Revisions) /\ Len(Append(d, r)) = Len(d) + 1
        /\ Append(d, r)[Len(d) + 1] = r
        /\ \A i \in 1 .. Len(d): Append(d, r)[i] = d[i]
    OBVIOUS
  <2>3. \A i \in 1 .. Len(d) + 1: i = Len(d) + 1 \/ i \in 1 .. Len(d)
    OBVIOUS
  <2> QED
    BY <2>1, <2>2, <2>3 DEF Last
<1> QED
  BY <1>1, <1>2

\* The place that the fold takes off is the last one.
LEMMA MaxOfRange ==
    ASSUME NEW n \in Nat, NEW s \in SUBSET (1 .. n + 1), n + 1 \in s
    PROVE  Max(s) = n + 1 /\ s \ {n + 1} \in SUBSET (1 .. n)
<1>1. \A y \in s: y \in Nat /\ n + 1 >= y
  OBVIOUS
<1>2. \E x \in s: \A y \in s: x >= y
  BY <1>1
<1>3. Max(s) \in s /\ \A y \in s: Max(s) >= y
  BY <1>2 DEF Max
<1>4. Max(s) = n + 1
  <2>1. Max(s) \in Nat /\ n + 1 >= Max(s)
    BY <1>1, <1>3
  <2>2. Max(s) >= n + 1
    BY <1>3
  <2> QED
    BY <2>1, <2>2
<1>5. s \ {n + 1} \in SUBSET (1 .. n)
  OBVIOUS
<1> QED
  BY <1>4, <1>5

\* The recursion of the fold has a solution for every sequence.
LEMMA FoldDefined ==
    ASSUME NEW h \in Seq(Revisions)
    PROVE  \E g: Folds(g, h, Len(h))
<1> DEFINE T == {n \in Nat: n <= Len(h) => \E g: Folds(g, h, n)}
<1>1. 0 \in T
  <2> DEFINE g == [s \in SUBSET (1 .. 0) |-> <<>>]
  <2>2. \A s \in SUBSET (1 .. 0): s = {}
    OBVIOUS
  <2>3. Folds(g, h, 0)
    BY <2>2 DEF Folds, Fold
  <2> HIDE DEF g
  <2> QED
    BY <2>3
<1>2. ASSUME NEW n \in Nat, n \in T
      PROVE  n + 1 \in T
  <2> SUFFICES ASSUME n + 1 <= Len(h)
               PROVE  \E g: Folds(g, h, n + 1)
    OBVIOUS
  <2>1. PICK g: Folds(g, h, n)
    BY <1>2
  <2> DEFINE f == [s \in SUBSET (1 .. n + 1) |->
                     IF n + 1 \in s THEN Keep(g[s \ {n + 1}], h[n + 1]) ELSE g[s]]
  <2>3. \A s \in SUBSET (1 .. n + 1): n + 1 \notin s => s \in SUBSET (1 .. n)
    OBVIOUS
  <2>4. f = [s \in SUBSET (1 .. n + 1) |-> f[s]]
    OBVIOUS
  <2>5. ASSUME NEW s \in SUBSET (1 .. n)
        PROVE  f[s] = g[s]
    <3>1. s \in SUBSET (1 .. n + 1) /\ n + 1 \notin s
      OBVIOUS
    <3> QED
      BY <3>1
  <2>6. ASSUME NEW s \in SUBSET (1 .. n + 1)
        PROVE  f[s] = Fold(h, f, s)
    <3>1. CASE n + 1 \in s
      <4>1. Max(s) = n + 1 /\ s \ {n + 1} \in SUBSET (1 .. n)
        BY <3>1, MaxOfRange
      <4>2. f[s] = Keep(g[s \ {n + 1}], h[n + 1])
        BY <3>1
      <4>3. f[s \ {n + 1}] = g[s \ {n + 1}]
        BY <2>5, <4>1
      <4> HIDE DEF f
      <4> QED
        BY <3>1, <4>1, <4>2, <4>3 DEF Fold
    <3>2. CASE n + 1 \notin s
      <4>1. s \in SUBSET (1 .. n) /\ s \ {Max(s)} \in SUBSET (1 .. n)
        BY <2>3, <3>2
      <4>2. f[s] = g[s] /\ f[s \ {Max(s)}] = g[s \ {Max(s)}]
        BY <2>5, <4>1
      <4>3. g[s] = Fold(h, g, s)
        BY <2>1, <4>1 DEF Folds
      <4> HIDE DEF f
      <4> QED
        BY <4>2, <4>3 DEF Fold
    <3> QED
      BY <3>1, <3>2
  <2>7. Folds(f, h, n + 1)
    <3> HIDE DEF f
    <3> QED
      BY <2>4, <2>6 DEF Folds
  <2> HIDE DEF f
  <2> QED
    BY <2>7
<1>3. Nat \subseteq T
  <2> HIDE DEF T
  <2> QED
    BY <1>1, <1>2, NatSetInduction
<1> QED
  BY <1>3

\* Dedup is a solution of that recursion.
LEMMA DedupFolds ==
    ASSUME NEW h \in Seq(Revisions)
    PROVE  \E g: Folds(g, h, Len(h)) /\ Dedup(h) = g[1 .. Len(h)]
<1> DEFINE n == Len(h)
           S == SUBSET (1 .. n)
           it == CHOOSE g: g = [s \in S |-> Fold(h, g, s)]
<1>0. DOMAIN h = 1 .. n
  OBVIOUS
<1>1. PICK f: Folds(f, h, n)
  BY FoldDefined
<1>2. f = [s \in S |-> Fold(h, f, s)]
  BY <1>1 DEF Folds
<1>3. it = [s \in S |-> Fold(h, it, s)]
  BY <1>2, Zenon
<1>4. Dedup(h) = it[1 .. n]
  BY <1>0, Zenon DEF Dedup, FoldLeft, MapThenFoldSet, Fold, Keep
<1> HIDE DEF it
<1> QED
  BY <1>3, <1>4 DEF Folds

\* Vec::dedup keeps the newest entry and invents none.
LEMMA DedupKeeps ==
    ASSUME NEW h \in Seq(Revisions)
    PROVE  /\ Dedup(h) \in Seq(Revisions)
           /\ Dedup(h) # <<>> <=> h # <<>>
           /\ h # <<>> => Last(Dedup(h)) = Last(h)
           /\ Range(Dedup(h)) \subseteq Range(h)
<1>1. PICK g: Folds(g, h, Len(h)) /\ Dedup(h) = g[1 .. Len(h)]
  BY DedupFolds
<1> DEFINE Good(d, k) == /\ d \in Seq(Revisions)
                         /\ k = 0 => d = <<>>
                         /\ k # 0 => d # <<>> /\ Last(d) = h[k]
                         /\ \A i \in DOMAIN d: \E j \in 1 .. k: d[i] = h[j]
           T == {k \in Nat: k <= Len(h) => Good(g[1 .. k], k)}
<1>2. 0 \in T
  <2>1. 1 .. 0 = {} /\ 1 .. 0 \in SUBSET (1 .. Len(h))
    OBVIOUS
  <2>2. g[1 .. 0] = <<>>
    BY <1>1, <2>1 DEF Folds, Fold
  <2>3. <<>> \in Seq(Revisions) /\ DOMAIN <<>> = {}
    OBVIOUS
  <2>4. Good(<<>>, 0)
    BY <2>3
  <2> QED
    BY <2>2, <2>4
<1>3. ASSUME NEW k \in Nat, k \in T
      PROVE  k + 1 \in T
  <2> SUFFICES ASSUME k + 1 <= Len(h)
               PROVE  Good(g[1 .. k + 1], k + 1)
    OBVIOUS
  <2>1. Good(g[1 .. k], k)
    BY <1>3
  <2>2. /\ 1 .. k + 1 \in SUBSET (1 .. Len(h)) /\ 1 .. k + 1 # {} /\ k + 1 \in 1 .. k + 1
        /\ (1 .. k + 1) \ {k + 1} = 1 .. k
        /\ h[k + 1] \in Revisions
    <3>1. k + 1 \in 1 .. Len(h) /\ Len(h) \in Nat
      OBVIOUS
    <3>2. k + 1 \in 1 .. k + 1
      OBVIOUS
    <3>3. 1 .. k + 1 \in SUBSET (1 .. Len(h))
      BY <3>1
    <3>4. (1 .. k + 1) \ {k + 1} = 1 .. k
      OBVIOUS
    <3> QED
      BY <3>1, <3>2, <3>3, <3>4
  <2>3. Max(1 .. k + 1) = k + 1
    BY <2>2, MaxOfRange
  <2>4. g[1 .. k + 1] = Keep(g[1 .. k], h[k + 1])
    BY <1>1, <2>2, <2>3 DEF Folds, Fold
  <2>5. \A j \in 1 .. k: j \in 1 .. k + 1
    OBVIOUS
  <2>6. PICK d: d = g[1 .. k]
    OBVIOUS
  <2>7. /\ Keep(d, h[k + 1]) \in Seq(Revisions)
        /\ Keep(d, h[k + 1]) # <<>> /\ Last(Keep(d, h[k + 1])) = h[k + 1]
        /\ \A i \in DOMAIN Keep(d, h[k + 1]): \/ Keep(d, h[k + 1])[i] = h[k + 1]
                                             \/ \E j \in DOMAIN d: Keep(d, h[k + 1])[i] = d[j]
    <3>1. d \in Seq(Revisions) /\ h[k + 1] \in Revisions
      BY <2>1, <2>2, <2>6
    <3> QED
      BY <3>1, KeepType, Zenon
  <2>8. \A i \in DOMAIN d: \E j \in 1 .. k: d[i] = h[j]
    BY <2>1, <2>6
  <2>9. \A i \in DOMAIN Keep(d, h[k + 1]): \E j \in 1 .. k + 1: Keep(d, h[k + 1])[i] = h[j]
    BY <2>2, <2>5, <2>7, <2>8
  <2> QED
    BY <2>4, <2>6, <2>7, <2>9
<1>4. Nat \subseteq T
  <2> HIDE DEF T
  <2> QED
    BY <1>2, <1>3, NatSetInduction
<1>5. Good(Dedup(h), Len(h))
  BY <1>1, <1>4
<1>6. Range(Dedup(h)) \subseteq Range(h)
  BY <1>5 DEF Range
<1> QED
  BY <1>5, <1>6 DEF Last

----------------------------------------------------------------------------
\* No way for an operation to end changes the type of the catalog.
LEMMA CatalogKept ==
    ASSUME TreeTypeOK,
           \/ Dies \/ (\E m: Returns(m)) \/ (\E m: ReturnsAfterSwap(m)) \/ UNCHANGED catalog
    PROVE  catalog' \in Catalogs
BY DEF TreeTypeOK, Dies, Returns, ReturnsAfterSwap

\* remove_revision deletes the pointer file before it touches the tree, and all it leaves
\* of another revision is the revision itself.
LEMMA RemovalKeepsTree ==
    ASSUME TreeInv, NEW gone \in SUBSET Revisions, NEW x \in Revisions \cup {None},
           NEW k \in 0 .. 3, RemoveRevisions(gone, x, k)
    PROVE  /\ version' \in [Revisions -> [content: Catalogs \cup {None}, healthy: BOOLEAN]]
           /\ pointer' \in {pointer, None}
           /\ PointerIsInstalled'
           /\ \A r \in Revisions: version'[r].content \in {version[r].content, None}
           /\ gone = {} /\ (k = 0 \/ x = None) => pointer' = pointer
<1> USE DEF TreeInv, TreeTypeOK, RemoveRevisions, Absent
<1>1. version' \in [Revisions -> [content: Catalogs \cup {None}, healthy: BOOLEAN]]
  OBVIOUS
<1>2. pointer' \in {pointer, None}
  OBVIOUS
<1>3. \A r \in Revisions: version'[r].content \in {version[r].content, None}
  OBVIOUS
<1>4. PointerIsInstalled'
  BY RevisionsAssumption DEF PointerIsInstalled, Installed
<1>5. gone = {} /\ (k = 0 \/ x = None) => pointer' = pointer
  BY RevisionsAssumption
<1> QED
  BY <1>1, <1>2, <1>3, <1>4, <1>5

\* remove removes some revisions completely, and perhaps one in part; a referenced pack is
\* left alone.
LEMMA RemovePackRemoves ==
    ASSUME RemovePack
    PROVE  \E gone \in SUBSET Revisions, x \in Revisions \cup {None}, k \in 0 .. 3:
              /\ RemoveRevisions(gone, x, k)
              /\ refs # {} => gone = {} /\ (k = 0 \/ x = None)
<1>1. CASE (refs = {} \/ Managed = {}) /\ RemoveRevisions(Managed, None, 0)
  BY <1>1 DEF Managed
<1>2. ASSUME NEW x \in Managed, NEW gone \in SUBSET (Managed \ {x}), NEW k \in 0 .. 3,
             refs # {} => gone = {} /\ k = 0, RemoveRevisions(gone, x, k)
      PROVE  \E g \in SUBSET Revisions, y \in Revisions \cup {None}, j \in 0 .. 3:
                /\ RemoveRevisions(g, y, j)
                /\ refs # {} => g = {} /\ (j = 0 \/ y = None)
  <2>1. gone \in SUBSET Revisions /\ x \in Revisions \cup {None}
    BY <1>2 DEF Managed
  <2> QED
    BY <1>2, <2>1
<1> QED
  BY <1>1, <1>2 DEF RemovePack

\* The pointer and the trees stay coherent in every step.
LEMMA TreeInvariance ==
    ASSUME TreeInv, [Next]_vars
    PROVE  TreeInv'
<1> USE DEF TreeInv
<1>1. CASE UNCHANGED vars
  BY <1>1 DEF vars, disk, TreeTypeOK, PointerIsInstalled, Installed
<1>2. ASSUME NEW r \in Revisions, Install(r) \/ Repair(r) \/ SelfTest(r) \/ Damage(r)
      PROVE  TreeInv'
  <2>1. CASE UNCHANGED <<version, pointer>> /\ catalog' \in Catalogs
    BY <2>1 DEF TreeTypeOK, PointerIsInstalled, Installed
  <2>2. CASE BeginInstall(r) \/ AuthorizeActivation(r) \/ IssueSelfTestChallenge(r) \/ Repair(r)
    BY <2>1, <2>2, CatalogKept
    DEF BeginInstall, AuthorizeActivation, IssueSelfTestChallenge, Repair, BeginRepair,
        RestartRepairDownloads, Returns, disk
  <2>3. ASSUME NEW a \in Artifacts, AcceptVerifiedArtifact(r, a) PROVE TreeInv'
    BY <2>1, <2>3, CatalogKept DEF AcceptVerifiedArtifact, Returns, disk
  <2>4. ASSUME NEW n \in Challenges, AbandonSelfTestChallenge(r, n) PROVE TreeInv'
    BY <2>1, <2>4, CatalogKept DEF AbandonSelfTestChallenge, Returns, disk
  <2>5. ASSUME NEW n \in Challenges, NEW passed \in BOOLEAN, RecordSelfTestAttestation(r, n, passed)
        PROVE  TreeInv'
    BY <2>1, <2>5, CatalogKept DEF RecordSelfTestAttestation, Returns
  <2>6. CASE Stage(r)
    <3>1. catalog' \in Catalogs /\ pointer' = pointer
      BY <2>6, CatalogKept DEF Stage, Returns
    <3>2. CASE version' = version
      BY <2>1, <3>1, <3>2
    <3>3. CASE version' = CommitInactive(r)
      BY <3>1, <3>3, RevisionsAssumption
      DEF CommitInactive, TreeTypeOK, PointerIsInstalled, Installed
    <3> QED
      BY <2>6, <3>2, <3>3 DEF Stage
  <2>7. CASE Activate(r)
    <3>1. catalog' \in Catalogs /\ version' = version
      BY <2>7, CatalogKept DEF Activate, Returns, ReturnsAfterSwap
    <3>2. pointer' = pointer \/ (pointer' = r /\ Installed(r))
      BY <2>7 DEF Activate, Bound, Verifies
    <3> QED
      BY <3>1, <3>2 DEF TreeTypeOK, PointerIsInstalled, Installed
  <2>8. CASE Damage(r)
    BY <2>8 DEF Damage, TreeTypeOK, PointerIsInstalled, Installed
  <2> QED
    BY <1>2, <2>2, <2>3, <2>4, <2>5, <2>6, <2>7, <2>8 DEF Install, SelfTest
<1>3. ASSUME NEW c \in Consumers, AddReference(c) \/ ReleaseReference(c)
      PROVE  TreeInv'
  <2>1. catalog' \in Catalogs /\ UNCHANGED <<version, pointer>>
    BY <1>3, CatalogKept DEF AddReference, ReleaseReference, Returns
  <2> QED
    BY <2>1 DEF TreeTypeOK, PointerIsInstalled, Installed
<1>4. CASE Rollback \/ RollbackPersisted
  <2>1. catalog' \in Catalogs /\ version' = version
    BY <1>4, CatalogKept DEF Rollback, RollbackPersisted, Returns, ReturnsAfterSwap
  <2>2. pointer' = pointer \/ (pointer' \in Revisions /\ Installed(pointer'))
    BY <1>4 DEF Rollback, RollbackPersisted
  <2> QED
    BY <2>1, <2>2 DEF TreeTypeOK, PointerIsInstalled, Installed
<1>5. CASE RemovePack
  <2>1. catalog' \in Catalogs
    BY <1>5, CatalogKept DEF RemovePack, Returns, ReturnsAfterSwap
  <2> QED
    BY <1>5, <2>1, RemovePackRemoves, RemovalKeepsTree DEF TreeTypeOK
<1>6. CASE Restart
  BY <1>6, CatalogKept DEF Restart, disk, TreeTypeOK, PointerIsInstalled, Installed
<1> QED
  BY <1>1, <1>2, <1>3, <1>4, <1>5, <1>6 DEF Next

\* Outside remove, staging and damage no step touches a version.
LEMMA VersionsTouched ==
    ASSUME [Next]_vars, ~RemovePack
    PROVE  \/ version' = version
           \/ \E r \in Revisions: Stage(r) /\ version' = CommitInactive(r)
           \/ \E r \in Revisions: Damage(r)
<1>1. CASE UNCHANGED vars
  BY <1>1 DEF vars, disk
<1>2. ASSUME NEW r \in Revisions, Install(r) \/ Repair(r) \/ SelfTest(r)
      PROVE  version' = version \/ (Stage(r) /\ version' = CommitInactive(r))
  BY <1>2
  DEF Install, BeginInstall, AcceptVerifiedArtifact, Stage, SelfTest, AuthorizeActivation,
      IssueSelfTestChallenge, AbandonSelfTestChallenge, RecordSelfTestAttestation, Activate,
      Repair, BeginRepair, RestartRepairDownloads, disk
<1>3. ASSUME NEW c \in Consumers, AddReference(c) \/ ReleaseReference(c)
      PROVE  version' = version
  BY <1>3 DEF AddReference, ReleaseReference
<1>4. CASE Rollback \/ RollbackPersisted \/ Restart
  BY <1>4 DEF Rollback, RollbackPersisted, Restart, disk
<1> QED
  BY <1>1, <1>2, <1>3, <1>4 DEF Next

\* Only remove takes the pointer away, and it does so only to a pack without references.
LEMMA PointerKept ==
    ASSUME TreeInv, [Next]_vars, refs # {}, pointer # None
    PROVE  pointer' # None
<1>1. CASE UNCHANGED vars
  BY <1>1 DEF vars, disk
<1>2. ASSUME NEW r \in Revisions, Install(r) \/ Repair(r) \/ SelfTest(r) \/ Damage(r)
      PROVE  pointer' \in {pointer, r}
  BY <1>2
  DEF Install, BeginInstall, AcceptVerifiedArtifact, Stage, SelfTest, AuthorizeActivation,
      IssueSelfTestChallenge, AbandonSelfTestChallenge, RecordSelfTestAttestation, Activate,
      Repair, BeginRepair, RestartRepairDownloads, Damage, disk
<1>3. ASSUME NEW c \in Consumers, AddReference(c) \/ ReleaseReference(c)
      PROVE  pointer' = pointer
  BY <1>3 DEF AddReference, ReleaseReference
<1>4. CASE Rollback \/ RollbackPersisted \/ Restart
  BY <1>4, RevisionsAssumption DEF Rollback, RollbackPersisted, Restart, disk
<1>5. CASE RemovePack
  BY <1>5, RemovePackRemoves, RemovalKeepsTree
<1> QED
  BY <1>1, <1>2, <1>3, <1>4, <1>5, RevisionsAssumption DEF Next

----------------------------------------------------------------------------
\* The manager's record keeps its type in every step.
LEMMA MemoryInvariance ==
    ASSUME mem \in Memory, nonce \in 0 .. MaxChallenges, [Next]_vars
    PROVE  mem' \in Memory /\ nonce' \in 0 .. MaxChallenges
<1>0. EmptyMemory \in Memory
  BY DEF EmptyMemory, Memory, States
<1> USE ChallengesAssumption
<1>1. CASE UNCHANGED vars
  BY <1>1 DEF vars
<1>2. ASSUME NEW r \in Revisions, Install(r) \/ Repair(r) \/ Damage(r)
      PROVE  mem' \in Memory /\ nonce' = nonce
  <2>1. CASE BeginInstall(r)
    BY <2>1 DEF BeginInstall, Returns, Memory, States
  <2>2. ASSUME NEW a \in Artifacts, AcceptVerifiedArtifact(r, a) PROVE mem' \in Memory /\ nonce' = nonce
    BY <2>2 DEF AcceptVerifiedArtifact, Returns, Memory, States
  <2>3. CASE Stage(r)
    <3>1. ASSUME NEW s \in States
          PROVE  [mem EXCEPT !.staged = @ \cup {r}, !.state[r] = s] \in Memory
      BY <3>1 DEF Memory
    <3>2. "AwaitingSelfTest" \in States /\ "Quarantined" \in States
      BY DEF States
    <3> QED
      BY <1>0, <2>3, <3>1, <3>2 DEF Stage, Returns, Dies
  <2>4. CASE Repair(r)
    <3>1. CASE BeginRepair(r)
      BY <3>1 DEF BeginRepair, Returns, Memory, States
    <3>2. CASE RestartRepairDownloads(r)
      BY <3>2 DEF RestartRepairDownloads, Returns, Memory, States
    <3> QED
      BY <2>4, <3>1, <3>2 DEF Repair
  <2>5. CASE Damage(r)
    BY <2>5 DEF Damage
  <2> QED
    BY <1>2, <2>1, <2>2, <2>3, <2>4, <2>5 DEF Install
<1>3. ASSUME NEW r \in Revisions, SelfTest(r)
      PROVE  mem' \in Memory /\ nonce' \in 0 .. MaxChallenges
  <2>1. CASE AuthorizeActivation(r)
    BY <2>1 DEF AuthorizeActivation, Returns, Memory
  <2>2. CASE IssueSelfTestChallenge(r)
    <3>1. /\ nonce + 1 \in Challenges /\ nonce' = nonce + 1
          /\ mem' = [mem EXCEPT !.pending[r] = nonce + 1]
      BY <2>2, ChallengesAssumption DEF IssueSelfTestChallenge, Returns, Challenges
    <3>2. mem' \in Memory
      BY <3>1 DEF Memory
    <3> QED
      BY <3>1, <3>2 DEF Challenges
  <2>3. ASSUME NEW n \in Challenges, AbandonSelfTestChallenge(r, n)
        PROVE  mem' \in Memory /\ nonce' = nonce
    BY <2>3 DEF AbandonSelfTestChallenge, Returns, Memory
  <2>4. ASSUME NEW n \in Challenges, NEW passed \in BOOLEAN, RecordSelfTestAttestation(r, n, passed)
        PROVE  mem' \in Memory /\ nonce' = nonce
    <3>1. [mem EXCEPT !.state[r] = "Quarantined"] \in Memory
      BY DEF Memory, States
    <3>2. [mem EXCEPT !.authorization[r] = n, !.state[r] = "Activating", !.pending[r] = 0] \in Memory
      BY <2>4 DEF Memory, States
    <3> QED
      BY <1>0, <2>4, <3>1, <3>2 DEF RecordSelfTestAttestation, Returns, Dies
  <2>5. CASE Activate(r)
    <3>1. ASSUME mem.active \notin {None, r}
          PROVE  Append(mem.rollback, mem.active) \in Seq(Revisions)
      BY <3>1 DEF Memory
    <3>2. [mem EXCEPT !.state[r] = "Quarantined"] \in Memory
      BY DEF Memory, States
    <3>3. [mem EXCEPT !.state[r] = "Active", !.staged = @ \ {r}, !.active = r,
               !.rollback = IF mem.active \in {None, r} THEN @ ELSE Append(@, mem.active)] \in Memory
      BY <3>1 DEF Memory, States
    <3> QED
      BY <1>0, <2>5, <3>2, <3>3 DEF Activate, Returns, ReturnsAfterSwap, Dies
  <2> QED
    BY <1>3, <2>1, <2>2, <2>3, <2>4, <2>5 DEF SelfTest
<1>4. ASSUME NEW c \in Consumers, AddReference(c) \/ ReleaseReference(c)
      PROVE  mem' \in Memory /\ nonce' = nonce
  <2>1. [mem EXCEPT !.references = @ \cup {c}] \in Memory
    BY DEF Memory
  <2>2. [mem EXCEPT !.references = @ \ {c}] \in Memory
    BY DEF Memory
  <2> QED
    BY <1>0, <1>4, <2>1, <2>2 DEF AddReference, ReleaseReference, Returns, Dies
<1>5. CASE Rollback
  <2>1. mem.rollback \in Seq(Revisions) /\ mem.rollback # <<>>
    BY <1>5 DEF Rollback, Memory
  <2>2. Front(mem.rollback) \in Seq(Revisions) /\ Last(mem.rollback) \in Revisions
    BY <2>1 DEF Front, Last
  <2> DEFINE popped == [mem EXCEPT !.rollback = Front(@)]
             state == [r \in Revisions |-> IF mem.state[r] = "none" THEN "none"
                                           ELSE IF r = Last(mem.rollback) THEN "Active"
                                           ELSE IF r = mem.active THEN "RolledBack" ELSE mem.state[r]]
  <2>3. popped \in Memory
    BY <2>2 DEF Memory
  <2>4. state \in [Revisions -> States]
    BY DEF Memory, States
  <2>5. [popped EXCEPT !.active = Last(mem.rollback), !.state = state] \in Memory
    <3> HIDE DEF popped, state
    <3> QED
      BY <2>2, <2>3, <2>4 DEF Memory
  <2> QED
    BY <1>0, <1>5, <2>3, <2>5 DEF Rollback, Returns, ReturnsAfterSwap, Dies
<1>6. CASE RollbackPersisted
  BY <1>6 DEF RollbackPersisted
<1>7. CASE RemovePack
  <2>1. ASSUME NEW gone \in SUBSET Revisions PROVE Forget(mem, gone) \in Memory
    BY DEF Forget, Memory, States, Challenges
  <2>2. [Forget(mem, Managed) EXCEPT !.active = None, !.rollback = <<>>, !.references = {}] \in Memory
    <3>1. Forget(mem, Managed) \in Memory
      BY <2>1 DEF Managed
    <3>2. <<>> \in Seq(Revisions)
      OBVIOUS
    <3>3. ASSUME NEW m \in Memory
          PROVE  [m EXCEPT !.active = None, !.rollback = <<>>, !.references = {}] \in Memory
      BY <3>2, <3>3 DEF Memory
    <3> QED
      BY <3>1, <3>3
  <2>3. ASSUME NEW x \in Managed, NEW gone \in SUBSET (Managed \ {x})
        PROVE  [Forget(mem, gone) EXCEPT !.state[x] = "Removing"] \in Memory
    <3>1. Forget(mem, gone) \in Memory /\ x \in Revisions
      BY <2>1 DEF Managed
    <3> QED
      BY <3>1 DEF Memory, States
  <2> QED
    BY <1>0, <1>7, <2>2, <2>3 DEF RemovePack, Returns, ReturnsAfterSwap, Dies
<1>8. CASE Restart
  BY <1>0, <1>8 DEF Restart, Dies
<1> QED
  BY <1>1, <1>2, <1>3, <1>4, <1>5, <1>6, <1>7, <1>8 DEF Next

\* The manager changes its idea of the active revision only together with the pointer.
LEMMA AgreementInvariance ==
    ASSUME TreeInv, ManagerInv, [Next]_vars
    PROVE  ManagerAgreesWithDisk'
<1> USE DEF ManagerInv
<1>0. Dies => ManagerAgreesWithDisk'
  BY DEF Dies, ManagerAgreesWithDisk, EmptyMemory
<1>1. CASE mem'.active = mem.active /\ ambiguous' = ambiguous /\ pointer' = pointer
  BY <1>1 DEF ManagerAgreesWithDisk
<1>3. (\E m: ReturnsAfterSwap(m)) => ManagerAgreesWithDisk'
  BY DEF ReturnsAfterSwap, ManagerAgreesWithDisk
<1>4. CASE UNCHANGED vars
  BY <1>1, <1>4 DEF vars, disk
<1>5. ASSUME NEW r \in Revisions, Install(r) \/ Repair(r) \/ Damage(r)
      PROVE  ManagerAgreesWithDisk'
  <2>1. pointer' = pointer
    BY <1>5
    DEF Install, BeginInstall, AcceptVerifiedArtifact, Stage, Repair, BeginRepair,
        RestartRepairDownloads, Damage, disk
  <2>2. CASE BeginInstall(r) \/ (\E a \in Artifacts: AcceptVerifiedArtifact(r, a))
    BY <1>1, <2>1, <2>2 DEF BeginInstall, AcceptVerifiedArtifact, Returns, Memory
  <2>3. CASE Stage(r)
    BY <1>0, <1>1, <2>1, <2>3 DEF Stage, Returns, Memory
  <2>4. CASE Repair(r)
    BY <1>1, <2>1, <2>4 DEF Repair, BeginRepair, RestartRepairDownloads, Returns, Memory
  <2>5. CASE Damage(r)
    BY <1>1, <2>1, <2>5 DEF Damage
  <2> QED
    BY <1>5, <2>2, <2>3, <2>4, <2>5 DEF Install
<1>6. ASSUME NEW r \in Revisions, SelfTest(r)
      PROVE  ManagerAgreesWithDisk'
  <2>1. CASE \/ AuthorizeActivation(r) \/ IssueSelfTestChallenge(r)
             \/ \E n \in Challenges: AbandonSelfTestChallenge(r, n)
    BY <1>1, <2>1
    DEF AuthorizeActivation, IssueSelfTestChallenge, AbandonSelfTestChallenge, Returns, Memory, disk
  <2>2. ASSUME NEW n \in Challenges, NEW passed \in BOOLEAN, RecordSelfTestAttestation(r, n, passed)
        PROVE  ManagerAgreesWithDisk'
    BY <1>0, <1>1, <2>2 DEF RecordSelfTestAttestation, Returns, Memory
  <2>3. CASE Activate(r)
    <3>1. [mem EXCEPT !.state[r] = "Quarantined"].active = mem.active
      BY DEF Memory
    <3>2. ASSUME pointer' = pointer, Returns([mem EXCEPT !.state[r] = "Quarantined"])
          PROVE  ManagerAgreesWithDisk'
      BY <1>1, <3>1, <3>2 DEF Returns
    <3>3. [mem EXCEPT !.state[r] = "Active", !.staged = @ \ {r}, !.active = r,
              !.rollback = IF mem.active \in {None, r} THEN @ ELSE Append(@, mem.active)].active = r
      BY DEF Memory
    <3>4. ASSUME pointer' = r, mem'.active = r
          PROVE  ManagerAgreesWithDisk'
      BY <3>4 DEF ManagerAgreesWithDisk
    <3> QED
      BY <1>0, <1>3, <2>3, <3>2, <3>3, <3>4 DEF Activate, Returns
  <2> QED
    BY <1>6, <2>1, <2>2, <2>3 DEF SelfTest
<1>7. ASSUME NEW c \in Consumers, AddReference(c) \/ ReleaseReference(c)
      PROVE  ManagerAgreesWithDisk'
  BY <1>0, <1>1, <1>7 DEF AddReference, ReleaseReference, Returns, Memory
<1>8. CASE Rollback
  <2> DEFINE target == Last(mem.rollback)
             popped == [mem EXCEPT !.rollback = Front(@)]
             moved == [popped EXCEPT !.active = target,
                          !.state = [r \in Revisions |->
                             IF mem.state[r] = "none" THEN "none"
                             ELSE IF r = target THEN "Active"
                             ELSE IF r = mem.active THEN "RolledBack" ELSE mem.state[r]]]
  <2>1. popped.active = mem.active /\ moved.active = target
    BY DEF Memory
  <2>2. \/ pointer' = pointer /\ Returns(popped)
        \/ pointer' = target /\ Returns(moved)
        \/ ReturnsAfterSwap(popped)
        \/ Dies
    BY <1>8 DEF Rollback
  <2> HIDE DEF target, popped, moved
  <2> QED
    BY <1>0, <1>1, <1>3, <2>1, <2>2 DEF Returns, ManagerAgreesWithDisk
<1>9. CASE RollbackPersisted
  BY <1>9 DEF RollbackPersisted, EmptyMemory, ManagerAgreesWithDisk
<1>10. CASE RemovePack
  <2>1. ASSUME NEW gone \in SUBSET Revisions
        PROVE  Forget(mem, gone) \in Memory /\ Forget(mem, gone).active = mem.active
    BY DEF Forget, Memory, States, Challenges
  <2>2. [Forget(mem, Managed) EXCEPT !.active = None, !.rollback = <<>>, !.references = {}].active = None
    <3>1. Forget(mem, Managed) \in Memory
      BY <2>1 DEF Managed
    <3> QED
      BY <3>1 DEF Memory
  <2>3. ASSUME NEW x \in Managed, NEW gone \in SUBSET (Managed \ {x})
        PROVE  [Forget(mem, gone) EXCEPT !.state[x] = "Removing"].active = mem.active
    <3>1. Forget(mem, gone) \in Memory /\ Forget(mem, gone).active = mem.active
      BY <2>1 DEF Managed
    <3> QED
      BY <3>1 DEF Memory
  <2>4. CASE mem'.active = None
    BY <2>4 DEF ManagerAgreesWithDisk
  <2>5. ASSUME NEW x \in Managed, NEW gone \in SUBSET (Managed \ {x}), NEW m, m.active = mem.active,
               (IF pointer' # pointer THEN ReturnsAfterSwap(m) ELSE Returns(m)) \/ Dies
        PROVE  ManagerAgreesWithDisk'
    BY <1>0, <1>1, <1>3, <2>5 DEF Returns
  <2> QED
    BY <1>10, <2>2, <2>3, <2>4, <2>5 DEF RemovePack, Returns
<1>11. CASE Restart
  BY <1>0, <1>11 DEF Restart
<1> QED
  BY <1>4, <1>5, <1>6, <1>7, <1>8, <1>9, <1>10, <1>11 DEF Next

----------------------------------------------------------------------------
\* The pointer and the trees are coherent in every behaviour.
LEMMA TreeInvariant == Spec => []TreeInv
<1>1. Init => TreeInv
  BY DEF Init, TreeInv, TreeTypeOK, PointerIsInstalled, Absent
<1> QED
  BY <1>1, TreeInvariance, PTL DEF Spec

\* active.json never names a version that is not on disk, wherever an activation, a
\* rollback or a removal is interrupted (filesystem.rs, remove_revision).
THEOREM PointerInstalled == Spec => []PointerIsInstalled
<1>1. TreeInv => PointerIsInstalled
  BY DEF TreeInv
<1> QED
  BY <1>1, TreeInvariant, PTL

\* A version directory never changes its content (filesystem.rs, commit_inactive).
THEOREM Immutable == Spec => VersionsAreImmutable
<1>1. ASSUME TreeInv, [Next]_vars, NEW r \in Revisions, Installed(r), version'[r].content # None
      PROVE  version'[r].content = version[r].content
  <2>1. CASE RemovePack
    BY <1>1, <2>1, RemovePackRemoves, RemovalKeepsTree
  <2>2. ASSUME NEW q \in Revisions, version' = CommitInactive(q)
        PROVE  version'[r].content = version[r].content
    BY <1>1, <2>2 DEF CommitInactive, Installed, TreeInv, TreeTypeOK
  <2>3. ASSUME NEW q \in Revisions, Damage(q)
        PROVE  version'[r].content = version[r].content
    BY <1>1, <2>3 DEF Damage, TreeInv, TreeTypeOK
  <2> QED
    BY <1>1, <2>1, <2>2, <2>3, VersionsTouched
<1>2. TreeInv /\ [Next]_vars =>
        [\A r \in Revisions: Installed(r) /\ version'[r].content # None
            => version'[r].content = version[r].content]_vars
  BY <1>1
<1> QED
  BY <1>2, TreeInvariant, PTL DEF Spec, VersionsAreImmutable

\* A pack with a persisted reference keeps an installed active revision, also against a
\* forced removal (lifecycle.rs, remove; filesystem.rs, remove_revision).
THEOREM ReferencedStays == Spec => ReferencedPackStays
<1>1. TreeInv /\ TreeInv' /\ [Next]_vars =>
        [refs # {} /\ pointer # None => pointer' # None /\ version'[pointer'].content # None]_vars
  BY PointerKept DEF TreeInv, PointerIsInstalled, Installed
<1> QED
  BY <1>1, TreeInvariant, PTL DEF Spec, ReferencedPackStays

\* The manager's record is typed and agrees with the disk in every behaviour.
LEMMA ManagerInvariant == Spec => []ManagerInv
<1>1. Init => ManagerInv
  BY ChallengesAssumption DEF Init, ManagerInv, ManagerAgreesWithDisk, EmptyMemory, Memory, States
<1>2. TreeInv /\ ManagerInv /\ [Next]_vars => ManagerInv'
  BY MemoryInvariance, AgreementInvariance DEF ManagerInv
<1> QED
  BY <1>1, <1>2, TreeInvariant, PTL DEF Spec

\* The manager agrees with the disk on the active revision, unless it was told of a failure
\* after the pointer was replaced (lifecycle.rs, activate, rollback and remove).
THEOREM Agreement == Spec => []ManagerAgreesWithDisk
<1>1. ManagerInv => ManagerAgreesWithDisk
  BY DEF ManagerInv
<1> QED
  BY <1>1, ManagerInvariant, PTL

----------------------------------------------------------------------------
\* What a step may do to active.json.
LEMMA PointerMoves ==
    ASSUME TreeInv, [Next]_vars
    PROVE  \/ UNCHANGED <<pointer, previous>>
           \/ pointer' = None /\ previous' = <<>>
           \/ \E r \in Revisions: Activate(r) /\ mem.authorization[r] # 0 /\ pointer' = r
                                  /\ previous' = Dedup(Push(previous, r))
           \/ \E r \in Revisions: /\ mem.rollback # <<>> /\ r = Last(mem.rollback)
                                  /\ pointer' = r /\ previous' = Push(previous, r)
           \/ /\ previous # <<>> /\ pointer # None
              /\ Last(previous) \in Revisions
              /\ pointer' = Last(previous) /\ previous' = Append(Front(previous), pointer)
<1>1. CASE UNCHANGED vars
  BY <1>1 DEF vars, disk
<1>2. ASSUME NEW r \in Revisions, Install(r) \/ Repair(r) \/ SelfTest(r) \/ Damage(r), ~Activate(r)
      PROVE  UNCHANGED <<pointer, previous>>
  BY <1>2
  DEF Install, BeginInstall, AcceptVerifiedArtifact, Stage, SelfTest, AuthorizeActivation,
      IssueSelfTestChallenge, AbandonSelfTestChallenge, RecordSelfTestAttestation,
      Repair, BeginRepair, RestartRepairDownloads, Damage, disk
<1>3. ASSUME NEW r \in Revisions, Activate(r)
      PROVE  \/ UNCHANGED <<pointer, previous>>
             \/ mem.authorization[r] # 0 /\ pointer' = r /\ previous' = Dedup(Push(previous, r))
  BY <1>3 DEF Activate
<1>4. ASSUME NEW c \in Consumers, AddReference(c) \/ ReleaseReference(c)
      PROVE  UNCHANGED <<pointer, previous>>
  BY <1>4 DEF AddReference, ReleaseReference
<1>5. CASE Rollback
  BY <1>5 DEF Rollback
<1>6. CASE RollbackPersisted
  BY <1>6 DEF RollbackPersisted
<1>7. CASE RemovePack
  BY <1>7, RemovePackRemoves DEF RemoveRevisions
<1>8. CASE Restart
  BY <1>8 DEF Restart, disk
<1> QED
  BY <1>1, <1>2, <1>3, <1>4, <1>5, <1>6, <1>7, <1>8 DEF Next

\* The history is empty without a pointer, and never ends in the active revision.
HistoryInv ==
    /\ previous \in Seq(Revisions)
    /\ pointer = None => previous = <<>>
    /\ RollbackChangesRevision

\* Append and Front on histories.
LEMMA AppendLast ==
    ASSUME NEW h \in Seq(Revisions), NEW r \in Revisions
    PROVE  /\ Append(h, r) \in Seq(Revisions) /\ Append(h, r) # <<>> /\ Last(Append(h, r)) = r
           /\ Range(Append(h, r)) \subseteq Range(h) \cup {r}
<1>1. /\ Append(h, r) \in Seq(Revisions) /\ Len(Append(h, r)) = Len(h) + 1
      /\ Append(h, r)[Len(h) + 1] = r
      /\ \A i \in 1 .. Len(h): Append(h, r)[i] = h[i]
  OBVIOUS
<1>2. \A i \in 1 .. Len(h) + 1: i = Len(h) + 1 \/ i \in 1 .. Len(h)
  OBVIOUS
<1>3. Range(Append(h, r)) \subseteq Range(h) \cup {r}
  <2>1. DOMAIN Append(h, r) = 1 .. Len(h) + 1 /\ DOMAIN h = 1 .. Len(h)
    BY <1>1
  <2> QED
    BY <1>1, <1>2, <2>1 DEF Range
<1>4. Append(h, r) # <<>> /\ Last(Append(h, r)) = r
  BY <1>1 DEF Last
<1> QED
  BY <1>1, <1>3, <1>4

\* Front holds nothing new, and Last is an entry.
LEMMA FrontKeeps ==
    ASSUME NEW h \in Seq(Revisions), h # <<>>
    PROVE  /\ Front(h) \in Seq(Revisions) /\ Range(Front(h)) \subseteq Range(h)
           /\ Last(h) \in Revisions /\ Last(h) \in Range(h)
<1>1. /\ Front(h) \in Seq(Revisions) /\ Len(Front(h)) = Len(h) - 1
      /\ \A i \in 1 .. Len(h) - 1: Front(h)[i] = h[i]
  <2>1. Len(h) \in Nat /\ Len(h) > 0 /\ Len(h) - 1 \in Nat
    OBVIOUS
  <2>2. Front(h) = SubSeq(h, 1, Len(h) - 1)
    BY DEF Front
  <2>3. SubSeq(h, 1, Len(h) - 1) \in Seq(Revisions)
    BY <2>1
  <2>4. Len(SubSeq(h, 1, Len(h) - 1)) = Len(h) - 1
    <3>1. CASE Len(h) = 1
      BY <3>1
    <3>2. CASE Len(h) > 1
      BY <2>1, <3>2
    <3>3. \A n \in Nat: n > 0 => n = 1 \/ n > 1
      OBVIOUS
    <3> QED
      BY <2>1, <3>1, <3>2, <3>3, Zenon
  <2>5. \A i \in 1 .. Len(h) - 1: SubSeq(h, 1, Len(h) - 1)[i] = h[i]
    BY <2>1
  <2> QED
    BY <2>2, <2>3, <2>4, <2>5
<1>2. Len(h) \in 1 .. Len(h) /\ Last(h) = h[Len(h)] /\ \A i \in 1 .. Len(h) - 1: i \in 1 .. Len(h)
  BY DEF Last
<1> QED
  BY <1>1, <1>2 DEF Range

\* Push enters the replaced revision, never the one that becomes active.
LEMMA PushKeeps ==
    ASSUME TreeInv, HistoryInv, NEW r \in Revisions
    PROVE  /\ Push(previous, r) \in Seq(Revisions)
           /\ Push(previous, r) # <<>> => Last(Push(previous, r)) # r
           /\ Range(Push(previous, r)) \subseteq Range(previous) \cup ({pointer} \ {None})
<1>1. CASE pointer = None
  BY <1>1 DEF Push, HistoryInv
<1>2. CASE pointer = r
  BY <1>2 DEF Push, HistoryInv, RollbackChangesRevision
<1>3. CASE pointer \notin {None, r}
  <2>1. pointer \in Revisions /\ Push(previous, r) = Append(previous, pointer)
    BY <1>3 DEF Push, TreeInv, TreeTypeOK
  <2> QED
    BY <1>3, <2>1, AppendLast DEF HistoryInv
<1> QED
  BY <1>1, <1>2, <1>3

\* The history never ends in the active revision, whatever moves the pointer.
LEMMA HistoryStep ==
    ASSUME TreeInv, HistoryInv, [Next]_vars
    PROVE  HistoryInv'
<1>1. CASE UNCHANGED <<pointer, previous>>
  BY <1>1 DEF HistoryInv, RollbackChangesRevision
<1>2. CASE pointer' = None /\ previous' = <<>>
  BY <1>2 DEF HistoryInv, RollbackChangesRevision
<1>3. ASSUME NEW r \in Revisions, pointer' = r,
             previous' = Push(previous, r) \/ previous' = Dedup(Push(previous, r))
      PROVE  HistoryInv'
  <2>1. /\ Push(previous, r) \in Seq(Revisions)
        /\ Push(previous, r) # <<>> => Last(Push(previous, r)) # r
    BY PushKeeps
  <2>2. /\ previous' \in Seq(Revisions)
        /\ previous' # <<>> => Last(previous') # r
    BY <1>3, <2>1, DedupKeeps
  <2> QED
    BY <1>3, <2>2, RevisionsAssumption DEF HistoryInv, RollbackChangesRevision
<1>4. CASE /\ previous # <<>> /\ pointer # None
           /\ Last(previous) \in Revisions
           /\ pointer' = Last(previous) /\ previous' = Append(Front(previous), pointer)
  <2>1. pointer \in Revisions /\ Front(previous) \in Seq(Revisions)
    BY <1>4, FrontKeeps DEF TreeInv, TreeTypeOK, HistoryInv
  <2>2. previous' \in Seq(Revisions) /\ Last(previous') = pointer
    BY <1>4, <2>1, AppendLast
  <2>3. Last(previous) # pointer
    BY <1>4 DEF HistoryInv, RollbackChangesRevision
  <2> QED
    BY <1>4, <2>2, <2>3, RevisionsAssumption DEF HistoryInv, RollbackChangesRevision
<1> QED
  BY <1>1, <1>2, <1>3, <1>4, PointerMoves

----------------------------------------------------------------------------
\* Every receipt on disk attests the content it lies beside.
AttestInv ==
    /\ consumed \subseteq Challenges
    /\ owner \in [Challenges -> (Revisions \X Catalogs) \cup {None}]
    /\ receipt \in [Revisions -> Challenges \cup {0}]
    /\ \A r \in Revisions: receipt[r] # 0 => Installed(r) /\ Attested(r)

\* A step that writes no receipt and no key keeps the receipts right, if it leaves the
\* content beside them alone.
LEMMA ReceiptsUntouched ==
    ASSUME AttestInv, UNCHANGED <<consumed, owner, receipt>>,
           \A r \in Revisions: Installed(r) => version'[r].content = version[r].content
    PROVE  AttestInv'
BY DEF AttestInv, Attested, Installed

\* The receipts stay right: a key is consumed once, a receipt is written only for content
\* that was attested, and it goes with the tree it lies in.
LEMMA AttestStep ==
    ASSUME TreeInv, mem \in Memory, AttestInv, [Next]_vars
    PROVE  AttestInv'
<1>1. CASE UNCHANGED vars
  BY <1>1, ReceiptsUntouched DEF vars, disk
<1>2. ASSUME NEW r \in Revisions, Install(r) \/ Repair(r) \/ Damage(r)
      PROVE  AttestInv'
  <2>1. UNCHANGED <<consumed, owner, receipt>>
    BY <1>2
    DEF Install, BeginInstall, AcceptVerifiedArtifact, Stage, Repair, BeginRepair,
        RestartRepairDownloads, Damage, disk
  <2>2. version' = version \/ version' = CommitInactive(r) \/ Damage(r)
    BY <1>2
    DEF Install, BeginInstall, AcceptVerifiedArtifact, Stage, Repair, BeginRepair,
        RestartRepairDownloads, disk
  <2>3. \A q \in Revisions: Installed(q) => version'[q].content = version[q].content
    BY <2>2 DEF CommitInactive, Installed, Damage, TreeInv, TreeTypeOK
  <2> QED
    BY <2>1, <2>3, ReceiptsUntouched
<1>3. ASSUME NEW r \in Revisions, SelfTest(r)
      PROVE  AttestInv'
  <2>1. CASE UNCHANGED <<consumed, owner, receipt, version>>
    BY <2>1, ReceiptsUntouched
  <2>2. CASE AuthorizeActivation(r) \/ IssueSelfTestChallenge(r)
    BY <2>1, <2>2 DEF AuthorizeActivation, IssueSelfTestChallenge, disk
  <2>3. ASSUME NEW n \in Challenges, AbandonSelfTestChallenge(r, n)
        PROVE  AttestInv'
    BY <2>1, <2>3 DEF AbandonSelfTestChallenge, disk
  <2>4. ASSUME NEW n \in Challenges, NEW passed \in BOOLEAN, RecordSelfTestAttestation(r, n, passed)
        PROVE  AttestInv'
    <3>1. CASE ~Expected(r) \/ ~passed
      BY <2>1, <2>4, <3>1 DEF RecordSelfTestAttestation
    <3>2. CASE Expected(r) /\ passed
      <4>1. /\ n \notin consumed /\ consumed' = consumed \cup {n}
            /\ owner' = [owner EXCEPT ![n] = <<r, version[r].content>>]
            /\ receipt' = receipt /\ version' = version
        BY <2>4, <3>2 DEF RecordSelfTestAttestation
      <4>2. <<r, version[r].content>> \in Revisions \X Catalogs
        BY <3>2 DEF Expected, TreeInv, TreeTypeOK
      <4>3. consumed' \subseteq Challenges /\ owner' \in [Challenges -> (Revisions \X Catalogs) \cup {None}]
        BY <4>1, <4>2 DEF AttestInv
      <4>4. \A m \in consumed: owner'[m] = owner[m]
        BY <4>1 DEF AttestInv
      <4>5. ASSUME NEW q \in Revisions, receipt'[q] # 0
            PROVE  Installed(q)' /\ Attested(q)'
        <5>1. Installed(q) /\ receipt[q] \in consumed /\ owner[receipt[q]] = <<q, version[q].content>>
          BY <4>1, <4>5 DEF AttestInv, Attested
        <5> QED
          BY <4>1, <4>4, <5>1 DEF Installed, Attested
      <4> QED
        BY <4>1, <4>3, <4>5 DEF AttestInv
    <3> QED
      BY <3>1, <3>2
  <2>5. CASE Activate(r)
    <3> DEFINE n == mem.authorization[r]
    <3>1. UNCHANGED <<version, consumed, owner>>
      BY <2>5 DEF Activate
    <3>2. CASE receipt' = receipt
      BY <2>1, <3>1, <3>2
    <3>3. CASE Bound(r, n) /\ n \in consumed /\ receipt' = [receipt EXCEPT ![r] = n]
      <4>1. receipt' \in [Revisions -> Challenges \cup {0}]
        BY <3>3 DEF AttestInv
      <4>2. ASSUME NEW q \in Revisions, receipt'[q] # 0
            PROVE  Installed(q)' /\ Attested(q)'
        <5>1. CASE q = r
          <6>1. receipt'[q] = n /\ owner[n] = <<q, version[q].content>> /\ Installed(q)
            BY <3>3, <5>1 DEF AttestInv, Bound, Verifies
          <6> HIDE DEF n
          <6> QED
            BY <3>1, <3>3, <6>1 DEF Attested, Installed
        <5>2. CASE q # r
          <6>1. receipt'[q] = receipt[q]
            BY <3>3, <5>2 DEF AttestInv
          <6> HIDE DEF n
          <6> QED
            BY <3>1, <4>2, <6>1 DEF AttestInv, Attested, Installed
        <5> QED
          BY <5>1, <5>2
      <4> QED
        BY <3>1, <4>1, <4>2 DEF AttestInv
    <3> QED
      BY <2>5, <3>2, <3>3 DEF Activate
  <2> QED
    BY <1>3, <2>2, <2>3, <2>4, <2>5 DEF SelfTest
<1>4. ASSUME NEW c \in Consumers, AddReference(c) \/ ReleaseReference(c)
      PROVE  AttestInv'
  BY <1>4, ReceiptsUntouched DEF AddReference, ReleaseReference
<1>5. CASE Rollback \/ RollbackPersisted \/ Restart
  BY <1>5, ReceiptsUntouched DEF Rollback, RollbackPersisted, Restart, disk
<1>6. CASE RemovePack
  <2>1. PICK gone \in SUBSET Revisions, x \in Revisions \cup {None}, k \in 0 .. 3:
               RemoveRevisions(gone, x, k)
    BY <1>6, RemovePackRemoves
  <2>2. UNCHANGED <<consumed, owner>>
    BY <1>6 DEF RemovePack
  <2>3. receipt' \in [Revisions -> Challenges \cup {0}]
    BY <2>1 DEF RemoveRevisions, AttestInv
  <2>4. ASSUME NEW q \in Revisions, receipt'[q] # 0
        PROVE  receipt'[q] = receipt[q] /\ version'[q].content = version[q].content
    BY <2>1, <2>4 DEF RemoveRevisions, TreeInv, TreeTypeOK
  <2>5. ASSUME NEW q \in Revisions, receipt'[q] # 0
        PROVE  Installed(q)' /\ Attested(q)'
    BY <2>2, <2>4, <2>5 DEF AttestInv, Attested, Installed
  <2> QED
    BY <2>2, <2>3, <2>5 DEF AttestInv
<1> QED
  BY <1>1, <1>2, <1>3, <1>4, <1>5, <1>6 DEF Next

\* The inductive invariant of the history and of the receipts.
LEMMA HistoryInvariant ==
    Spec => [](TreeInv /\ ManagerInv /\ HistoryInv /\ AttestInv)
<1>1. Init => HistoryInv /\ AttestInv
  BY DEF Init, HistoryInv, RollbackChangesRevision, AttestInv
<1>2. TreeInv /\ ManagerInv /\ HistoryInv /\ AttestInv /\ [Next]_vars => HistoryInv' /\ AttestInv'
  BY HistoryStep, AttestStep DEF ManagerInv
<1> QED
  BY <1>1, <1>2, TreeInvariant, ManagerInvariant, PTL DEF Spec

\* Every step that points active.json at another revision points it at content whose
\* attestation is on disk, receipt and consumed key, unless it is a rollback to a revision
\* without a receipt (lifecycle.rs, record_self_test_attestation, activate and rollback;
\* filesystem.rs, activate, activate_existing and rollback_persisted).
THEOREM OnlyAttested == Spec => OnlyAttestedBecomesActive
<1> DEFINE A == pointer' \notin {pointer, None} =>
                  \/ Attested(pointer)'
                  \/ /\ receipt'[pointer'] = 0
                     /\ pointer' \in Range(previous) \cup Range(mem.rollback)
<1>1. ASSUME TreeInv, ManagerInv, HistoryInv, AttestInv, AttestInv', [Next]_vars
      PROVE  A
  <2> SUFFICES ASSUME pointer' \notin {pointer, None}
               PROVE  \/ Attested(pointer)'
                      \/ /\ receipt'[pointer'] = 0
                         /\ pointer' \in Range(previous) \cup Range(mem.rollback)
    OBVIOUS
  <2>1. ASSUME NEW r \in Revisions, pointer' = r, receipt'[r] # 0
        PROVE  Attested(pointer)'
    BY <1>1, <2>1 DEF AttestInv, Attested
  <2>2. ASSUME NEW r \in Revisions, Activate(r), pointer' = r
        PROVE  Attested(pointer)'
    <3>1. receipt' = [receipt EXCEPT ![r] = mem.authorization[r]] /\ mem.authorization[r] # 0
      BY <2>2 DEF Activate
    <3>2. receipt'[r] # 0
      BY <1>1, <3>1 DEF AttestInv
    <3> QED
      BY <2>1, <2>2, <3>2
  <2>3. ASSUME NEW r \in Revisions, mem.rollback # <<>>, r = Last(mem.rollback), pointer' = r
        PROVE  Attested(pointer)' \/ (receipt'[pointer'] = 0 /\ pointer' \in Range(mem.rollback))
    <3>1. mem.rollback \in Seq(Revisions)
      BY <1>1 DEF ManagerInv, Memory
    <3>2. r \in Range(mem.rollback)
      BY <2>3, <3>1, FrontKeeps
    <3> QED
      BY <2>1, <2>3, <3>2
  <2>4. ASSUME previous # <<>>, Last(previous) \in Revisions, pointer' = Last(previous)
        PROVE  Attested(pointer)' \/ (receipt'[pointer'] = 0 /\ pointer' \in Range(previous))
    <3>1. Last(previous) \in Range(previous)
      BY <1>1, <2>4, FrontKeeps DEF HistoryInv
    <3> QED
      BY <2>1, <2>4, <3>1
  <2> QED
    BY <1>1, <2>2, <2>3, <2>4, PointerMoves
<1>2. (TreeInv /\ ManagerInv /\ HistoryInv /\ AttestInv)
        /\ (TreeInv /\ ManagerInv /\ HistoryInv /\ AttestInv)' /\ [Next]_vars => [A]_vars
  BY <1>1
<1> QED
  BY <1>2, HistoryInvariant, PTL DEF Spec, OnlyAttestedBecomesActive

\* rollback_persisted always leads to another revision: the newest entry of the history is
\* never the active revision, through Vec::dedup, activations, rollbacks of either kind
\* and removals (filesystem.rs, activate, activate_existing and rollback).
THEOREM RollbackChanges == Spec => []RollbackChangesRevision
<1>1. HistoryInv => RollbackChangesRevision
  BY DEF HistoryInv
<1> QED
  BY <1>1, HistoryInvariant, PTL

\* The references and the manager's doubt keep their types.
LEMMA RestTyped ==
    ASSUME refs \subseteq Consumers, ambiguous \in BOOLEAN, [Next]_vars
    PROVE  refs' \subseteq Consumers /\ ambiguous' \in BOOLEAN
<1>0. Dies \/ (\E m: Returns(m)) \/ (\E m: ReturnsAfterSwap(m)) \/ ambiguous' = ambiguous
         => ambiguous' \in BOOLEAN
  BY DEF Dies, Returns, ReturnsAfterSwap
<1>1. ASSUME NEW r \in Revisions, Install(r) \/ Repair(r) \/ Damage(r) \/ SelfTest(r)
      PROVE  refs' = refs /\ ambiguous' \in BOOLEAN
  BY <1>0, <1>1
  DEF Install, BeginInstall, AcceptVerifiedArtifact, Stage, SelfTest, AuthorizeActivation,
      IssueSelfTestChallenge, AbandonSelfTestChallenge, RecordSelfTestAttestation, Activate,
      Repair, BeginRepair, RestartRepairDownloads, Damage, disk
<1>2. ASSUME NEW c \in Consumers, AddReference(c) \/ ReleaseReference(c)
      PROVE  refs' \subseteq Consumers /\ ambiguous' \in BOOLEAN
  BY <1>0, <1>2 DEF AddReference, ReleaseReference
<1>3. CASE Rollback \/ RollbackPersisted \/ RemovePack \/ Restart
  BY <1>0, <1>3 DEF Rollback, RollbackPersisted, RemovePack, Restart, disk
<1>4. CASE UNCHANGED vars
  BY <1>4 DEF vars, disk
<1> QED
  BY <1>1, <1>2, <1>3, <1>4 DEF Next

\* Every operation of the manager and of its storage, interrupted or not, keeps the types
\* of its record and of its files.
THEOREM TypeCorrect == Spec => []TypeOK
<1> DEFINE Rest == refs \subseteq Consumers /\ ambiguous \in BOOLEAN
<1>1. Init => Rest
  BY DEF Init
<1>2. Rest /\ [Next]_vars => Rest'
  BY RestTyped
<1>3. TreeInv /\ ManagerInv /\ HistoryInv /\ AttestInv /\ Rest => TypeOK
  BY DEF TypeOK, TreeInv, TreeTypeOK, ManagerInv, HistoryInv, AttestInv
<1> HIDE DEF Rest
<1> QED
  BY <1>1, <1>2, <1>3, HistoryInvariant, PTL DEF Spec
=============================================================================
