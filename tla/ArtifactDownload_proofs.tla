---------------------- MODULE ArtifactDownload_proofs -----------------------
(***************************************************************************)
(* A resumed download never splices two contents, and evidence stands for  *)
(* a genuine file on disk, for any size, any number of mirrors and any     *)
(* contents they serve, whenever the power fails and whatever cannot be    *)
(* written or read.                                                        *)
(*                                                                         *)
(* The properties are about the two files on disk.  What makes them        *)
(* inductive is how the locals of the running call relate to those files   *)
(* at each step: Locals, one conjunct per group of steps.                  *)
(***************************************************************************)
EXTENDS ArtifactDownload, TLAPS

\* The two halves of CompleteIsGenuine: what the journal says of the file, and what the
\* last call returned.
CompleteOnDisk ==
    saved.complete => saved.received = Size /\ (file = <<>> \/ (Genuine(file) /\ durable = Size))
Answered ==
    /\ result = "evidence" => saved.complete /\ Genuine(file) /\ durable = Size
    /\ pc # "idle" => result = "none"

\* The call has the file and its journal in step, and has saved the journal.
InStep == saved = journal /\ uncommitted = 0 /\ Len(file) = journal.received

\* Nothing is complete while blocks are being fetched or thrown away.
Incomplete == ~saved.complete /\ ~journal.complete

Locals ==
    /\ pc = "save" =>
        /\ uncommitted = 0 /\ Len(file) = journal.received /\ durable = Len(file)
        /\ \/ journal = saved
           \/ journal = NewJournal
    /\ pc = "request" => InStep /\ Incomplete
    /\ pc \in {"restart", "restarted"} => uncommitted = 0
    /\ pc = "restarted" => journal = NewJournal /\ file = <<>>
    /\ pc \in {"stream", "sync", "record"} =>
        /\ Incomplete
        /\ saved.received = journal.received
        /\ Len(file) = journal.received + uncommitted
        /\ body \in Contents /\ journal.validator = Tag(body)
        /\ \A i \in 1 .. Len(file): file[i] = body
    /\ pc = "record" => durable = Len(file)
    /\ pc = "verify" => InStep /\ durable = Len(file)
    /\ pc = "verified" =>
        /\ Genuine(file) /\ durable = Size /\ uncommitted = 0
        /\ saved.received = Size
        /\ journal = [saved EXCEPT !.complete = TRUE]
    /\ pc \in {"idle", "load"} => uncommitted = 0 /\ journal = NewJournal
    /\ pc \in {"sync", "record"} => after \in {"cancel", "stream", "verify"}
    /\ pc \in {"restart", "restarted"} => after \in {"fail", "request"}

\* What is claimed of the two files.
Disk == ResumeNeverSplices /\ CompleteOnDisk

IInv == TypeOK /\ Disk /\ Locals

DiskTypeOK ==
    file \in Seq(Contents) /\ Len(file) <= Size /\ durable \in 0 .. Len(file) /\ saved \in Journals

----------------------------------------------------------------------------
\* The empty journal is a journal that counts nothing.
LEMMA NewJournalType ==
    /\ NewJournal \in Journals /\ NewJournal.received = 0 /\ ~NewJournal.complete
    /\ NewJournal.validator = NoTag
BY SizesAssumption DEF NewJournal, Journals

\* A prefix of the file keeps its blocks.
LEMMA PrefixOfFile ==
    ASSUME NEW f \in Seq(Contents), NEW k \in 0 .. Len(f)
    PROVE  /\ SubSeq(f, 1, k) \in Seq(Contents)
           /\ Len(SubSeq(f, 1, k)) = k
           /\ \A i \in 1 .. k: SubSeq(f, 1, k)[i] = f[i]
OBVIOUS

\* A call that is over, or goes on to the next mirror, has forgotten its locals.
LEMMA LeavesMirror ==
    ASSUME TypeOK, DiskTypeOK', UNCHANGED healthy,
           Fails \/ \E outcome \in {"none", "evidence", "error", "cancelled"}: Ends(outcome)
    PROVE  TypeOK' /\ Locals'
<1>1. /\ pc' \in {"idle", "load"} /\ journal' = NewJournal /\ uncommitted' = 0
      /\ body' = NoTag /\ attempt' = 0 /\ after' = "fail"
      /\ mirror' \in 1 .. Mirrors /\ result' \in {"none", "evidence", "error", "cancelled"}
  BY SizesAssumption DEF Fails, Ends, TypeOK
<1>2. TypeOK'
  BY <1>1, NewJournalType, SizesAssumption DEF TypeOK, DiskTypeOK, Steps
<1>3. Locals'
  BY <1>1 DEF Locals
<1> QED
  BY <1>2, <1>3

\* The claims on the files are kept by every step that leaves the files alone.
LEMMA DiskUntouched ==
    ASSUME TypeOK, Disk, UNCHANGED disk
    PROVE  DiskTypeOK' /\ Disk'
BY DEF disk, TypeOK, DiskTypeOK, Disk, ResumeNeverSplices, CompleteOnDisk,
       Genuine

----------------------------------------------------------------------------
\* reconcile_file_and_journal.
LEMMA LoadStep ==
    ASSUME IInv, Load
    PROVE  IInv'
<1> USE DEF IInv
<1>1. saved \in Journals /\ saved.received \in 0 .. Size
  BY DEF TypeOK, Journals
<1>2. CASE Len(file) < saved.received
  <2>2. /\ journal' = NewJournal /\ file' = <<>> /\ durable' = 0 /\ saved' = saved /\ pc' = "save"
        /\ UNCHANGED <<mirror, uncommitted, body, attempt, after, result, healthy>>
    BY <1>2 DEF Load
  <2>3. file' \in Seq(Contents) /\ Len(file') = 0
    BY <2>2
  <2>4. TypeOK'
    BY <1>1, <2>2, <2>3, NewJournalType, SizesAssumption DEF TypeOK, Steps
  <2>5. Disk'
    BY <1>1, <1>2, <2>2, <2>3 DEF Disk, ResumeNeverSplices, CompleteOnDisk, TypeOK
  <2>6. uncommitted = 0
    BY DEF Load, Locals
  <2>7. Locals'
    BY <2>2, <2>3, <2>6, NewJournalType DEF Locals
  <2> QED
    BY <2>4, <2>5, <2>7
<1>3. CASE ~(Len(file) < saved.received)
  <2> DEFINE n == saved.received
  <2>1. n \in 0 .. Len(file) /\ n <= durable /\ Len(file) \in Nat
    BY <1>1, <1>3 DEF Disk, ResumeNeverSplices, TypeOK
  <2>2. /\ journal' = saved /\ file' = SubSeq(file, 1, n) /\ saved' = saved /\ pc' = "save"
        /\ durable' = n
        /\ UNCHANGED <<mirror, uncommitted, body, attempt, after, result, healthy>>
    BY <1>3, <2>1 DEF Load, TypeOK
  <2>3. file' \in Seq(Contents) /\ Len(file') = n /\ \A i \in 1 .. n: file'[i] = file[i]
    BY <2>1, <2>2, PrefixOfFile DEF TypeOK
  <2>4. uncommitted = 0
    BY DEF Load, Locals
  <2>5. TypeOK'
    BY <1>1, <2>1, <2>2, <2>3, <2>4, SizesAssumption DEF TypeOK, Steps
  <2>6. ResumeNeverSplices'
    BY <1>1, <1>3, <2>1, <2>2, <2>3 DEF Disk, ResumeNeverSplices
  <2>7. CompleteOnDisk'
    <3> SUFFICES ASSUME saved.complete
                 PROVE  n = Size /\ Genuine(file') /\ n = Size
      BY <2>2 DEF CompleteOnDisk
    <3>1. n = Size /\ Genuine(file)
      BY <2>1, SizesAssumption DEF Disk, CompleteOnDisk
    <3> QED
      BY <2>3, <3>1 DEF Genuine
  <2>8. Locals'
    BY <2>2, <2>3, <2>4 DEF Locals
  <2> QED
    BY <2>5, <2>6, <2>7, <2>8 DEF Disk
<1> QED
  BY <1>2, <1>3

\* The journal the call has reconciled is saved; unless the file has its full length the
\* download is incomplete.
LEMMA SaveStep ==
    ASSUME IInv, SaveReconciled
    PROVE  IInv'
<1> USE DEF IInv
<1>1. /\ uncommitted = 0 /\ Len(file) = journal.received /\ durable = Len(file)
      /\ journal = saved \/ journal = NewJournal
  BY DEF SaveReconciled, Locals
<1>2. journal.received = 0 => file = <<>>
  BY <1>1 DEF TypeOK
<1>3. TypeOK'
  BY SizesAssumption DEF SaveReconciled, TypeOK, Steps
<1>4. Disk'
  <2>1. CASE journal = saved
    BY <2>1, DiskUntouched DEF SaveReconciled, disk
  <2>2. CASE journal = NewJournal
    BY <1>1, <2>2, NewJournalType
    DEF SaveReconciled, Disk, ResumeNeverSplices, CompleteOnDisk, TypeOK
  <2> QED
    BY <1>1, <2>1, <2>2
<1>5. journal.received # Size => ~journal.complete
  BY <1>1, NewJournalType DEF Disk, CompleteOnDisk
<1>6. Locals'
  BY <1>1, <1>5 DEF SaveReconciled, Locals, InStep, Incomplete
<1> QED
  BY <1>3, <1>4, <1>6

\* The two halves of restart_download: in between the saved journal may count blocks of a
\* file that is empty.
LEMMA RestartStep ==
    ASSUME IInv, RestartTruncate \/ RestartSave
    PROVE  IInv'
<1> USE DEF IInv
<1>1. CASE RestartTruncate
  <2>1. file' = <<>> /\ durable' = 0 /\ journal' = NewJournal /\ pc' = "restarted" /\ saved' = saved
        /\ UNCHANGED <<mirror, uncommitted, body, attempt, after, result, healthy>>
    BY <1>1 DEF RestartTruncate
  <2>2. file' \in Seq(Contents) /\ Len(file') = 0
    BY <2>1
  <2>3. uncommitted = 0 /\ after \in {"fail", "request"}
    BY <1>1 DEF RestartTruncate, Locals
  <2>4. TypeOK'
    BY <2>1, <2>2, <2>3, NewJournalType, SizesAssumption DEF TypeOK, Steps
  <2>5. Disk'
    BY <2>1, <2>2, <2>3
    DEF Disk, ResumeNeverSplices, CompleteOnDisk, TypeOK, Journals
  <2>6. Locals'
    BY <2>1, <2>2, <2>3, NewJournalType DEF Locals, Incomplete
  <2> QED
    BY <2>4, <2>5, <2>6
<1>2. CASE RestartSave
  <2>1. /\ journal = NewJournal /\ file = <<>> /\ uncommitted = 0
        /\ saved' = NewJournal /\ file' = file /\ durable' = durable /\ healthy' = healthy
    BY <1>2 DEF RestartSave, Locals
  <2>2. Len(file) = 0
    BY <2>1
  <2>3. Disk'
    BY <2>1, <2>2, NewJournalType
    DEF Disk, ResumeNeverSplices, CompleteOnDisk, TypeOK
  <2>4. DiskTypeOK'
    BY <2>1, NewJournalType DEF TypeOK, DiskTypeOK
  <2>5. CASE Fails
    BY <2>1, <2>3, <2>4, <2>5, LeavesMirror
  <2>6. CASE pc' = "request" /\ UNCHANGED <<mirror, journal, uncommitted, body, attempt, after, result>>
    <3>1. TypeOK'
      BY <2>1, <2>4, <2>6 DEF TypeOK, DiskTypeOK, Steps
    <3>2. Locals'
      BY <2>1, <2>2, <2>6, NewJournalType DEF Locals, InStep, Incomplete
    <3> QED
      BY <2>3, <3>1, <3>2
  <2> QED
    BY <1>2, <2>5, <2>6 DEF RestartSave
<1> QED
  BY <1>1, <1>2

\* A decision to start over leaves everything in place until the file is emptied.
LEMMA ToRestart ==
    ASSUME IInv, NEW next \in {"request", "fail"}, Restart(next), attempt' \in {0, 1},
           pc \in {"request", "verify"}
    PROVE  IInv'
<1> USE DEF IInv
<1>1. InStep
  BY DEF Locals
<1>2. Disk'
  BY DiskUntouched DEF Restart
<1>3. TypeOK'
  BY DEF Restart, disk, TypeOK, Steps
<1>4. Locals'
  BY <1>1 DEF Restart, disk, Locals, InStep, Incomplete
<1> QED
  BY <1>2, <1>3, <1>4

\* An answer: only one that continues the content of the file reaches the body.
LEMMA ResponseStep ==
    ASSUME IInv, NEW c \in Contents, NEW status \in {200, 206}, NEW start \in 0 .. Size - 1,
           Response(c, status, start)
    PROVE  IInv'
<1> USE DEF IInv
<1>1. pc = "request" /\ InStep /\ Incomplete /\ (journal.received > 0 => journal.validator # NoTag)
  BY DEF Response, Ready, Locals
<1>2. CASE Restart("request") /\ attempt' = 1
  BY <1>1, <1>2, ToRestart DEF Incomplete
<1>3. CASE Fails /\ UNCHANGED <<disk, healthy>>
  BY <1>3, DiskUntouched, LeavesMirror
<1>4. CASE /\ ~NotHonored(c, status, start)
           /\ journal' = [journal EXCEPT !.validator = Tag(c)]
           /\ body' = c /\ pc' = "stream"
           /\ UNCHANGED <<disk, mirror, uncommitted, attempt, after, result, healthy>>
  <2>1. Tag(c) \in Contents \cup {NoTag}
    BY DEF Tag
  <2>2. /\ journal' \in Journals /\ journal'.received = journal.received
        /\ journal'.validator = Tag(c) /\ journal'.complete = journal.complete
    BY <1>4, <2>1 DEF TypeOK, Journals
  <2>3. TypeOK'
    BY <1>4, <2>2 DEF TypeOK, disk, Steps
  <2>4. ASSUME NEW i \in 1 .. Len(file) PROVE file[i] = c
    <3>1. journal.received \in Nat /\ journal.received > 0
      BY <1>1, <2>4 DEF InStep, TypeOK, Journals
    <3>2. Tag(c) = journal.validator /\ journal.validator # NoTag
      BY <1>1, <1>4, <3>1 DEF NotHonored
    <3>3. saved.validator = Tag(file[i])
      BY <1>1, <2>4, <3>1 DEF InStep, Disk, ResumeNeverSplices
    <3> QED
      BY <1>1, <3>2, <3>3 DEF InStep, Tag
  <2>5. Locals'
    <3>1. uncommitted = 0 /\ saved = journal /\ Len(file) = journal.received
      BY <1>1 DEF InStep
    <3>2. journal.received \in Nat
      BY DEF TypeOK, Journals
    <3> QED
      BY <1>1, <1>4, <2>2, <2>4, <3>1, <3>2 DEF Locals, Incomplete, disk
  <2> QED
    BY <1>4, <2>3, <2>5, DiskUntouched
<1> QED
  BY <1>2, <1>3, <1>4 DEF Response

\* A block of the body is appended behind what the journals count.
LEMMA ChunkStep ==
    ASSUME IInv, Chunk
    PROVE  IInv'
<1> USE DEF IInv
<1>1. /\ Incomplete /\ saved.received = journal.received
      /\ Len(file) = journal.received + uncommitted
      /\ body \in Contents /\ journal.validator = Tag(body)
      /\ \A i \in 1 .. Len(file): file[i] = body
  BY DEF Chunk, Locals
<1>2. /\ journal.received \in 0 .. Size /\ uncommitted \in 0 .. Size /\ saved.received \in 0 .. Size
      /\ file \in Seq(Contents) /\ durable \in 0 .. Len(file) /\ Len(file) \in Nat
  BY DEF TypeOK, Journals
<1>3. /\ journal.received + uncommitted < Size /\ file' = Append(file, body)
      /\ uncommitted' = uncommitted + 1
      /\ \/ pc' = "sync" /\ after' = "stream"
         \/ pc' = "stream" /\ after' = after
      /\ UNCHANGED <<durable, saved, mirror, journal, body, attempt, result, healthy>>
  BY DEF Chunk
<1>4. /\ file' \in Seq(Contents) /\ Len(file') = Len(file) + 1
      /\ \A i \in 1 .. Len(file): file'[i] = file[i]
      /\ \A i \in 1 .. Len(file'): file'[i] = body
  BY <1>1, <1>2, <1>3
<1>5. TypeOK'
  BY <1>1, <1>2, <1>3, <1>4, SizesAssumption DEF TypeOK, Steps
<1>6. ResumeNeverSplices'
  <2>1. saved.received <= durable
    BY <1>1, <1>2 DEF Disk, ResumeNeverSplices
  <2>2. /\ \A i, j \in 1 .. saved.received: file[i] = file[j]
        /\ \A i \in 1 .. saved.received: saved.validator = Tag(file[i])
    BY <1>1, <1>2, <2>1 DEF Disk, ResumeNeverSplices
  <2>3. \A i \in 1 .. saved.received: file'[i] = file[i]
    BY <1>2, <1>4, <2>1
  <2>4. \A i, j \in 1 .. saved.received: file'[i] = file'[j]
    BY <2>2, <2>3
  <2>5. \A i \in 1 .. saved.received: saved.validator = Tag(file'[i])
    BY <2>2, <2>3
  <2> QED
    BY <1>3, <2>1, <2>4, <2>5 DEF ResumeNeverSplices
<1>7. CompleteOnDisk'
  BY <1>1, <1>3 DEF CompleteOnDisk, Incomplete
<1>8. Locals'
  BY <1>1, <1>2, <1>3, <1>4 DEF Locals, Incomplete
<1> QED
  BY <1>5, <1>6, <1>7, <1>8 DEF Disk

\* checkpoint: the blocks are on disk before the journal counts them.
LEMMA CheckpointStep ==
    ASSUME IInv, BodyEnds \/ CheckpointSync \/ CheckpointSave
    PROVE  IInv'
<1> USE DEF IInv
<1>1. CASE BodyEnds
  <2>1. TypeOK'
    BY <1>1 DEF BodyEnds, disk, TypeOK, Steps
  <2>2. Locals'
    BY <1>1 DEF BodyEnds, disk, Locals, Incomplete
  <2> QED
    BY <1>1, <2>1, <2>2, DiskUntouched DEF BodyEnds
<1>2. CASE CheckpointSync
  <2>1. TypeOK'
    BY <1>2 DEF CheckpointSync, TypeOK, Steps
  <2>2. Locals'
    BY <1>2 DEF CheckpointSync, Locals, Incomplete
  <2>3. Disk'
    BY <1>2
    DEF CheckpointSync, TypeOK, Journals, Disk, ResumeNeverSplices, CompleteOnDisk, Genuine
  <2> QED
    BY <2>1, <2>2, <2>3
<1>3. CASE CheckpointSave
  <2> DEFINE counted == [journal EXCEPT !.received = @ + uncommitted]
  <2>1. /\ Incomplete /\ durable = Len(file) /\ Len(file) = journal.received + uncommitted
        /\ journal.validator = Tag(body) /\ \A i \in 1 .. Len(file): file[i] = body
        /\ body \in Contents /\ after \in {"cancel", "stream", "verify"}
    BY <1>3 DEF CheckpointSave, Locals
  <2>2. /\ counted \in Journals /\ counted.received = Len(file)
        /\ counted.validator = Tag(body) /\ ~counted.complete
    BY <2>1, SizesAssumption DEF TypeOK, Journals, Incomplete
  <2>3. saved' = counted /\ UNCHANGED <<file, durable, healthy>>
    BY <1>3 DEF CheckpointSave
  <2> HIDE DEF counted
  <2>4. Disk'
    BY <2>1, <2>2, <2>3 DEF TypeOK, Disk, ResumeNeverSplices, CompleteOnDisk
  <2>5. DiskTypeOK'
    BY <2>2, <2>3 DEF TypeOK, DiskTypeOK
  <2>6. CASE after = "cancel"
    BY <1>3, <2>3, <2>4, <2>5, <2>6, LeavesMirror DEF CheckpointSave
  <2>7. CASE after # "cancel"
    <3>1. /\ journal' = counted /\ uncommitted' = 0 /\ pc' = after
          /\ UNCHANGED <<mirror, body, attempt, after, result>>
      BY <1>3, <2>7 DEF CheckpointSave, counted
    <3>2. pc' \in {"stream", "verify"}
      BY <2>1, <2>7, <3>1
    <3>3. TypeOK'
      BY <2>2, <2>3, <2>5, <3>1, <3>2, SizesAssumption DEF TypeOK, DiskTypeOK, Steps
    <3>4. Locals'
      BY <2>1, <2>2, <2>3, <3>1, <3>2, <3>3 DEF Locals, Incomplete, InStep, TypeOK
    <3> QED
      BY <2>4, <3>3, <3>4
  <2> QED
    BY <2>6, <2>7
<1> QED
  BY <1>1, <1>2, <1>3

\* verify_completed_file: the file is emptied, or it is genuine and is marked complete.
LEMMA VerifyStep ==
    ASSUME IInv, Verify \/ SaveVerified
    PROVE  IInv'
<1> USE DEF IInv
<1>1. CASE pc = "verify" /\ Restart("fail") /\ UNCHANGED attempt
  BY <1>1, ToRestart DEF TypeOK
<1>2. CASE /\ pc = "verify" /\ Genuine(file)
           /\ pc' = "verified" /\ journal' = [journal EXCEPT !.complete = TRUE]
           /\ UNCHANGED <<disk, mirror, uncommitted, body, attempt, after, result, healthy>>
  <2>1. InStep /\ durable = Len(file) /\ Len(file) = Size
    BY <1>2 DEF Locals, Genuine
  <2>2. /\ pc' = "verified" /\ journal' = [journal EXCEPT !.complete = TRUE]
        /\ UNCHANGED <<disk, mirror, uncommitted, body, attempt, after, result, healthy>>
    BY <1>2
  <2>3. journal' \in Journals /\ journal'.received = journal.received
    BY <2>2 DEF TypeOK, Journals
  <2>4. TypeOK'
    BY <2>2, <2>3 DEF TypeOK, disk, Steps
  <2>5. Genuine(file')
    BY <1>2, <2>2 DEF Genuine, disk
  <2>6. Locals'
    BY <2>1, <2>2, <2>5 DEF Locals, InStep, disk
  <2> QED
    BY <2>2, <2>4, <2>6, DiskUntouched
<1>3. CASE SaveVerified
  <2>1. /\ Genuine(file) /\ durable = Size /\ saved.received = Size
        /\ journal = [saved EXCEPT !.complete = TRUE]
        /\ saved' = journal /\ UNCHANGED <<file, durable, healthy>>
    BY <1>3 DEF SaveVerified, Locals
  <2>2. saved'.received = Size /\ saved'.validator = saved.validator /\ saved' \in Journals
    BY <2>1 DEF TypeOK, Journals
  <2>3. Len(file) = Size
    BY <2>1 DEF Genuine
  <2>4. Disk'
    BY <2>1, <2>2, <2>3, SizesAssumption
    DEF Disk, ResumeNeverSplices, CompleteOnDisk, Genuine
  <2>5. DiskTypeOK'
    BY <2>1, <2>2 DEF TypeOK, DiskTypeOK
  <2> QED
    BY <1>3, <2>1, <2>4, <2>5, LeavesMirror DEF SaveVerified
<1> QED
  BY <1>1, <1>2, <1>3 DEF Verify

\* A power failure takes back only blocks that no journal counts.
LEMMA PowerFailureStep ==
    ASSUME IInv, PowerFailure
    PROVE  IInv'
<1> USE DEF IInv
<1>1. PICK k \in durable .. Len(file): file' = SubSeq(file, 1, k) /\ durable' = k
  BY DEF PowerFailure
<1>2. k \in 0 .. Len(file) /\ durable <= k /\ k <= Size /\ Len(file) \in Nat
  BY <1>1, SizesAssumption DEF TypeOK
<1>3. file' \in Seq(Contents) /\ Len(file') = k /\ \A i \in 1 .. k: file'[i] = file[i]
  BY <1>1, <1>2, PrefixOfFile DEF TypeOK
<1>4. saved' = saved /\ healthy' = healthy /\ Ends("none")
  BY DEF PowerFailure
<1>5. saved \in Journals /\ saved.received \in 0 .. Size
  BY DEF TypeOK, Journals
<1>6. DiskTypeOK'
  BY <1>1, <1>2, <1>3, <1>4, <1>5 DEF DiskTypeOK
<1>7. ResumeNeverSplices'
  <2>1. CASE Len(file) < saved.received /\ file = <<>>
    <3>1. k = 0 /\ file' = <<>>
      BY <1>2, <1>3, <2>1
    <3> QED
      BY <1>4, <1>5, <2>1, <3>1 DEF ResumeNeverSplices
  <2>2. CASE ~(Len(file) < saved.received /\ file = <<>>)
    <3>1. saved.received <= k /\ saved.received <= durable
      BY <1>2, <1>5, <2>2 DEF Disk, ResumeNeverSplices, TypeOK
    <3>2. \A i \in 1 .. saved.received: file'[i] = file[i]
      BY <1>2, <1>3, <1>5, <3>1
    <3>3. \A i, j \in 1 .. saved.received: file'[i] = file'[j]
      BY <2>2, <3>2 DEF Disk, ResumeNeverSplices
    <3>4. \A i \in 1 .. saved.received: saved.validator = Tag(file'[i])
      BY <2>2, <3>2 DEF Disk, ResumeNeverSplices
    <3> QED
      BY <1>1, <1>4, <3>1, <3>3, <3>4 DEF ResumeNeverSplices
  <2> QED
    BY <2>1, <2>2
<1>8. CompleteOnDisk'
  BY <1>1, <1>2, <1>3, <1>4, SizesAssumption DEF Disk, CompleteOnDisk, Genuine, TypeOK
<1> QED
  BY <1>4, <1>6, <1>7, <1>8, LeavesMirror DEF Disk

\* The steps that leave both files alone.
LEMMA OtherSteps ==
    ASSUME IInv,
           \/ Download \/ ForgetUnvalidated \/ RequestFails \/ BodyFails \/ Cancel
           \/ WriteFails \/ BecomeHealthy
    PROVE  IInv'
<1> USE DEF IInv
<1>1. CASE Download
  <2>1. TypeOK' /\ Locals'
    BY <1>1 DEF Download, disk, TypeOK, Steps, Locals
  <2> QED
    BY <1>1, <2>1, DiskUntouched DEF Download
<1>2. CASE ForgetUnvalidated
  BY <1>2, ToRestart DEF ForgetUnvalidated, TypeOK
<1>3. CASE RequestFails
  BY <1>3, DiskUntouched, LeavesMirror DEF RequestFails
<1>4. CASE BodyFails
  BY <1>4, DiskUntouched, LeavesMirror DEF BodyFails
<1>5. CASE Cancel
  <2>1. CASE Ends("cancelled") /\ UNCHANGED <<disk, healthy>>
    BY <2>1, DiskUntouched, LeavesMirror
  <2>2. CASE /\ pc = "stream" /\ pc' = "sync" /\ after' = "cancel"
             /\ UNCHANGED <<disk, mirror, journal, uncommitted, body, attempt, result, healthy>>
    <3>1. TypeOK'
      BY <2>2 DEF disk, TypeOK, Steps
    <3>2. Locals'
      BY <2>2 DEF disk, Locals, Incomplete
    <3> QED
      BY <2>2, <3>1, <3>2, DiskUntouched
  <2> QED
    BY <1>5, <2>1, <2>2 DEF Cancel
<1>6. CASE WriteFails
  BY <1>6, DiskUntouched, LeavesMirror DEF WriteFails
<1>7. CASE BecomeHealthy
  <2>1. TypeOK'
    BY <1>7 DEF BecomeHealthy, disk, TypeOK
  <2>2. Locals'
    BY <1>7 DEF BecomeHealthy, disk, Locals, InStep, Incomplete, Genuine
  <2> QED
    BY <1>7, <2>1, <2>2, DiskUntouched DEF BecomeHealthy
<1> QED
  BY <1>1, <1>2, <1>3, <1>4, <1>5, <1>6, <1>7

----------------------------------------------------------------------------
\* The inductive invariant holds in every behaviour.
LEMMA Invariance == Spec => []IInv
<1>1. ASSUME Init PROVE IInv
  <2>1. file \in Seq(Contents) /\ Len(file) = 0
    BY <1>1 DEF Init
  <2>2. TypeOK
    <3>1. healthy \in BOOLEAN
      BY <1>1 DEF Init
    <3> QED
      BY <1>1, <2>1, <3>1, NewJournalType, SizesAssumption DEF Init, TypeOK, Steps
  <2>3. Disk
    BY <1>1, <2>1, NewJournalType DEF Init, Disk, ResumeNeverSplices, CompleteOnDisk
  <2>4. Locals
    BY <1>1, NewJournalType DEF Init, Locals
  <2> QED
    BY <2>2, <2>3, <2>4 DEF IInv
<1>2. ASSUME IInv, [Next]_vars PROVE IInv'
  <2>1. CASE UNCHANGED vars
    <3>1. TypeOK' /\ Locals'
      BY <1>2, <2>1 DEF IInv, vars, disk, TypeOK, Locals, InStep, Incomplete, Genuine
    <3> QED
      BY <1>2, <2>1, <3>1, DiskUntouched DEF IInv, vars
  <2> QED
    BY <1>2, <2>1, LoadStep, SaveStep, RestartStep, ResponseStep, ChunkStep, CheckpointStep,
       VerifyStep, PowerFailureStep, OtherSteps
    DEF Next, Client
<1> QED
  BY <1>1, <1>2, PTL DEF Spec

\* The variables of the download keep their types: in particular the file never grows past
\* the size the manifest declares.
THEOREM TypeCorrect == Spec => []TypeOK
<1>1. IInv => TypeOK
  BY DEF IInv
<1> QED
  BY <1>1, Invariance, PTL

\* Whatever the mirrors answer and whenever the power fails, what the saved journal counts
\* is on disk and came from the one content its validator names (downloader.rs).
THEOREM NeverSplices == Spec => []ResumeNeverSplices
<1>1. IInv => ResumeNeverSplices
  BY DEF IInv, Disk
<1> QED
  BY <1>1, Invariance, PTL

\* Evidence is returned when the complete journal is saved, and nothing happens to the two
\* files until the next call takes it back.
LEMMA AnsweredStep ==
    ASSUME IInv, Answered, [Next]_vars
    PROVE  Answered'
<1>1. CASE SaveVerified
  BY <1>1 DEF SaveVerified, Ends, IInv, Locals, Answered, Genuine, TypeOK, Journals
<1>2. CASE Download \/ PowerFailure
  BY <1>2 DEF Download, PowerFailure, Ends, Answered
<1>3. CASE BecomeHealthy \/ UNCHANGED vars
  BY <1>3 DEF BecomeHealthy, vars, disk, Answered, Genuine
<1>4. ASSUME result = "none", result' # "none" => pc' = "idle" /\ result' \in {"error", "cancelled"}
      PROVE  Answered'
  BY <1>4 DEF Answered
<1>5. ASSUME pc # "idle", Fails \/ Ends("error") \/ Ends("cancelled") \/ UNCHANGED result
      PROVE  Answered'
  BY <1>4, <1>5 DEF Fails, Ends, Answered
<1>6. CASE \/ Load \/ SaveReconciled \/ RestartTruncate \/ RestartSave
           \/ Chunk \/ BodyEnds \/ CheckpointSync \/ CheckpointSave
  BY <1>5, <1>6
  DEF Load, SaveReconciled, RestartTruncate, RestartSave, Chunk, BodyEnds, CheckpointSync,
      CheckpointSave
<1>7. CASE Verify \/ ForgetUnvalidated \/ RequestFails \/ BodyFails \/ Cancel \/ WriteFails
  BY <1>5, <1>7
  DEF Verify, ForgetUnvalidated, RequestFails, BodyFails, Cancel, WriteFails, Restart, Ready
<1>8. ASSUME NEW c \in Contents, NEW status \in {200, 206}, NEW start \in 0 .. Size - 1,
             Response(c, status, start)
      PROVE  Answered'
  BY <1>5, <1>8 DEF Response, Ready, Restart
<1> QED
  BY <1>1, <1>2, <1>3, <1>6, <1>7, <1>8 DEF Next, Client

\* A journal marked complete stands for the artifact the manifest describes, on disk, unless
\* the file was emptied and the next call starts over; evidence never stands for the latter
\* (verify_completed_file, restart_download).
THEOREM CompleteGenuine == Spec => []CompleteIsGenuine
<1>1. Init => Answered
  BY DEF Init, Answered
<1>2. IInv /\ Answered => CompleteIsGenuine
  BY DEF IInv, Disk, CompleteOnDisk, Answered, CompleteIsGenuine
<1> QED
  BY <1>1, <1>2, Invariance, AnsweredStep, PTL DEF Spec
=============================================================================
