-------------------------- MODULE ArtifactDownload --------------------------
(***************************************************************************)
(* The resumable download of one artifact of a model pack: the walk over   *)
(* the mirrors and the HTTP exchange of HttpsArtifactDownloader            *)
(* (downloader.rs), the DownloadJournal it resumes from (lifecycle.rs) and *)
(* the journal's file (journal.rs).                                        *)
(*                                                                         *)
(* The partial file and the journal are two files written at different     *)
(* times.  A power failure may take back what was written to the partial   *)
(* file and not synced; the journal is replaced atomically.  Servers       *)
(* answer as they like, but a strong validator identifies one content.     *)
(* The file is a sequence of blocks, each remembered by the content it     *)
(* came from; hashing finds out whether all of them are the artifact's.    *)
(***************************************************************************)
EXTENDS Naturals, Sequences

CONSTANTS
    Contents,         \* what servers may answer with
    Artifact,         \* the content the signed manifest describes
    Unvalidated,      \* the contents served without a strong ETag
    Size,             \* size of the artifact, in blocks
    CheckpointBlocks, \* DownloadPolicy.checkpoint_bytes, in blocks
    Mirrors,          \* number of source_urls
    ReliableMirrors,  \* those that will become reliable
    NoTag             \* no validator

ASSUME ContentsAssumption ==
    Artifact \in Contents /\ Unvalidated \subseteq Contents /\ NoTag \notin Contents
ASSUME SizesAssumption ==
    /\ Size \in Nat \ {0} /\ CheckpointBlocks \in Nat \ {0} /\ Mirrors \in Nat \ {0}
    /\ ReliableMirrors \subseteq 1 .. Mirrors

VARIABLES
    file,         \* the partial file
    durable,      \* how many blocks of it would survive a power failure
    saved,        \* the journal on disk
    pc, mirror, journal, uncommitted, body, attempt, after, \* the running call of download
    result,       \* what the last call returned
    healthy       \* those mirrors have become reliable and nothing interrupts the call

disk == <<file, durable, saved>>
vars == <<disk, pc, mirror, journal, uncommitted, body, attempt, after, result, healthy>>

Tag(c) == IF c \in Unvalidated THEN NoTag ELSE c
NewJournal == [received |-> 0, validator |-> NoTag, complete |-> FALSE]
Journals == [received: 0 .. Size, validator: Contents \cup {NoTag}, complete: BOOLEAN]
Steps == {"idle", "load", "save", "request", "restart", "restarted", "stream", "sync",
          "record", "verify", "verified"}

TypeOK ==
    /\ file \in Seq(Contents) /\ Len(file) <= Size
    /\ durable \in 0 .. Len(file)
    /\ saved \in Journals /\ journal \in Journals
    /\ pc \in Steps
    /\ mirror \in 1 .. Mirrors
    /\ uncommitted \in 0 .. Size
    /\ journal.received + uncommitted <= Size
    /\ body \in Contents \cup {NoTag}
    /\ attempt \in {0, 1}
    /\ after \in {"request", "fail", "cancel", "stream", "verify"}
    /\ result \in {"none", "evidence", "error", "cancelled"}
    /\ healthy \in BOOLEAN

Init ==
    /\ file = <<>> /\ durable = 0
    /\ saved = NewJournal /\ journal = NewJournal
    /\ pc = "idle" /\ mirror = 1 /\ uncommitted = 0 /\ body = NoTag
    /\ attempt = 0 /\ after = "fail"
    /\ result = "none" /\ healthy = FALSE

\* the call's locals are dead once it is over
Ends(outcome) ==
    /\ pc' = "idle" /\ result' = outcome
    /\ mirror' = 1 /\ journal' = NewJournal /\ uncommitted' = 0 /\ body' = NoTag
    /\ attempt' = 0 /\ after' = "fail"

\* an error other than Cancelled and Journal moves the call to the next source URL
Fails ==
    \/ /\ mirror = Mirrors
       /\ Ends("error")
    \/ /\ mirror < Mirrors
       /\ mirror' = mirror + 1
       /\ pc' = "load" /\ journal' = NewJournal /\ uncommitted' = 0 /\ body' = NoTag
       /\ attempt' = 0 /\ after' = "fail"
       /\ UNCHANGED result

----------------------------------------------------------------------------
Download ==
    /\ pc = "idle"
    /\ pc' = "load"
    /\ result' = "none"
    /\ UNCHANGED <<disk, mirror, journal, uncommitted, body, attempt, after, healthy>>

\* load, then reconcile_file_and_journal up to its truncation of the file
Load ==
    /\ pc = "load"
    /\ pc' = "save"
    /\ IF Len(file) < saved.received
       THEN journal' = NewJournal /\ file' = <<>> /\ durable' = 0
       ELSE /\ journal' = saved
            /\ file' = SubSeq(file, 1, saved.received)
            /\ durable' = IF Len(file) > saved.received THEN saved.received ELSE durable
    /\ UNCHANGED <<saved, mirror, uncommitted, body, attempt, after, result, healthy>>

\* the reconciled journal is saved; a file of full length is not requested again
SaveReconciled ==
    /\ pc = "save"
    /\ saved' = journal
    /\ pc' = IF journal.received = Size THEN "verify" ELSE "request"
    /\ UNCHANGED <<file, durable, mirror, journal, uncommitted, body, attempt, after, result, healthy>>

\* restart_download: the file is emptied, then the emptied journal saved
RestartTruncate ==
    /\ pc = "restart"
    /\ pc' = "restarted"
    /\ file' = <<>> /\ durable' = 0
    /\ journal' = NewJournal
    /\ UNCHANGED <<saved, mirror, uncommitted, body, attempt, after, result, healthy>>

RestartSave ==
    /\ pc = "restarted"
    /\ saved' = journal
    /\ IF after = "fail" THEN Fails
       ELSE /\ pc' = "request"
            /\ UNCHANGED <<mirror, journal, uncommitted, body, attempt, after, result>>
    /\ UNCHANGED <<file, durable, healthy>>

Restart(next) ==
    /\ pc' = "restart" /\ after' = next
    /\ UNCHANGED <<disk, mirror, journal, uncommitted, body, result, healthy>>

----------------------------------------------------------------------------
(* The request.                                                            *)

Reliable == healthy /\ mirror \in ReliableMirrors

\* received bytes without a validator cannot be resumed
ForgetUnvalidated ==
    /\ pc = "request"
    /\ journal.received > 0 /\ journal.validator = NoTag
    /\ Restart("request")
    /\ UNCHANGED attempt

Ready == pc = "request" /\ (journal.received > 0 => journal.validator # NoTag)

RequestFails ==
    /\ Ready /\ ~Reliable
    /\ Fails
    /\ UNCHANGED <<disk, healthy>>

\* mutant: a resumed answer is not compared with the journal's validator
NotHonoredByRange(c, status, start) ==
    /\ journal.received > 0
    /\ status # 206 \/ start # journal.received

\* the answer: content c, whole (status 200) or from block `start' on (status 206)
NotHonored(c, status, start) ==
    /\ journal.received > 0
    /\ status # 206 \/ start # journal.received \/ Tag(c) # journal.validator

Response(c, status, start) ==
    /\ Ready
    /\ Reliable => c = Artifact /\ (status = 206 => start = journal.received)
    /\ \/ /\ NotHonored(c, status, start)
          /\ attempt = 0
          /\ Restart("request")
          /\ attempt' = 1
       \/ /\ NotHonored(c, status, start)
          /\ attempt = 1
          /\ Fails
          /\ UNCHANGED <<disk, healthy>>
       \* accept_response
       \/ /\ ~NotHonored(c, status, start)
          /\ IF status = 206 /\ start # journal.received
             THEN Fails
             ELSE /\ journal' = [journal EXCEPT !.validator = Tag(c)]
                  /\ body' = c
                  /\ pc' = "stream"
                  /\ UNCHANGED <<mirror, uncommitted, attempt, after, result>>
          /\ UNCHANGED <<disk, healthy>>

----------------------------------------------------------------------------
(* The body.                                                               *)

Chunk ==
    /\ pc = "stream"
    /\ journal.received + uncommitted < Size
    /\ file' = Append(file, body)
    /\ uncommitted' = uncommitted + 1
    /\ IF uncommitted' >= CheckpointBlocks
       THEN pc' = "sync" /\ after' = "stream"
       ELSE UNCHANGED <<pc, after>>
    /\ UNCHANGED <<durable, saved, mirror, journal, body, attempt, result, healthy>>

\* BodyTooLarge, an idle timeout or a transport error: nothing is checkpointed
BodyFails ==
    /\ pc = "stream" /\ ~Reliable
    /\ Fails
    /\ UNCHANGED <<disk, healthy>>

\* the body may be shorter than it should be
BodyEnds ==
    /\ pc = "stream"
    /\ Reliable => journal.received + uncommitted = Size
    /\ pc' = "sync" /\ after' = "verify"
    /\ UNCHANGED <<disk, mirror, journal, uncommitted, body, attempt, result, healthy>>

\* checkpoint: the file is synced before the journal counts its bytes
CheckpointSync ==
    /\ pc = "sync"
    /\ durable' = Len(file)
    /\ pc' = "record"
    /\ UNCHANGED <<file, saved, mirror, journal, uncommitted, body, attempt, after, result, healthy>>

CheckpointSave ==
    /\ pc = "record"
    /\ LET counted == [journal EXCEPT !.received = @ + uncommitted] IN
       /\ saved' = counted
       /\ IF after = "cancel" THEN Ends("cancelled")
          ELSE /\ journal' = counted
               /\ uncommitted' = 0
               /\ pc' = after
               /\ UNCHANGED <<mirror, body, attempt, after, result>>
    /\ UNCHANGED <<file, durable, healthy>>

\* verify_artifact: the length and the digest
Genuine(f) == Len(f) = Size /\ \A i \in 1 .. Size: f[i] = Artifact

\* mutant: the length is compared, the digest is not
VerifyByLength ==
    /\ pc = "verify"
    /\ \/ /\ Len(file) = Size
          /\ pc' = "verified"
          /\ journal' = [journal EXCEPT !.complete = TRUE]
          /\ UNCHANGED <<disk, mirror, uncommitted, body, attempt, after, result, healthy>>
       \/ Len(file) # Size /\ Restart("fail") /\ UNCHANGED attempt

\* mutant: a spoiled file is reported and left in place
VerifyLeavesFile ==
    /\ pc = "verify"
    /\ \/ /\ Genuine(file)
          /\ pc' = "verified"
          /\ journal' = [journal EXCEPT !.complete = TRUE]
          /\ UNCHANGED <<disk, mirror, uncommitted, body, attempt, after, result, healthy>>
       \/ ~Genuine(file) /\ Fails /\ UNCHANGED <<disk, healthy>>

\* verify_completed_file: every error of the verification starts the download over, an
\* error while reading a genuine file too
Verify ==
    /\ pc = "verify"
    /\ \/ /\ Genuine(file)
          /\ pc' = "verified"
          /\ journal' = [journal EXCEPT !.complete = TRUE]
          /\ UNCHANGED <<disk, mirror, uncommitted, body, attempt, after, result, healthy>>
       \/ (Genuine(file) => ~healthy) /\ Restart("fail") /\ UNCHANGED attempt

SaveVerified ==
    /\ pc = "verified"
    /\ saved' = journal
    /\ Ends("evidence")
    /\ UNCHANGED <<file, durable, healthy>>

----------------------------------------------------------------------------
(* Cancellation, power failure and a mirror that recovers.                 *)

Cancel ==
    /\ ~healthy
    /\ \/ pc = "request" /\ Ends("cancelled") /\ UNCHANGED disk
       \/ /\ pc = "stream"
          /\ pc' = "sync" /\ after' = "cancel"
          /\ UNCHANGED <<disk, mirror, journal, uncommitted, body, attempt, result>>
    /\ UNCHANGED healthy

PowerFailure ==
    /\ ~healthy
    /\ \E k \in durable .. Len(file): file' = SubSeq(file, 1, k) /\ durable' = k
    /\ Ends("none")
    /\ UNCHANGED <<saved, healthy>>

\* a journal that cannot be written ends the call (JournalError); a file error, a sync that
\* fails after the file was truncated and a verification task that is lost only the source
WriteFails ==
    /\ ~healthy
    /\ \/ pc \in {"save", "restarted", "record", "verified"} /\ Ends("error")
       \/ pc \in {"load", "save", "restart", "restarted", "sync", "verify"} /\ Fails
    /\ UNCHANGED <<disk, healthy>>

BecomeHealthy ==
    /\ ~healthy
    /\ healthy' = TRUE
    /\ UNCHANGED <<disk, pc, mirror, journal, uncommitted, body, attempt, after, result>>

Client ==
    \/ Download \/ Load \/ SaveReconciled \/ RestartTruncate \/ RestartSave
    \/ ForgetUnvalidated
    \/ \E c \in Contents, status \in {200, 206}, start \in 0 .. Size - 1: Response(c, status, start)
    \/ Chunk \/ BodyEnds \/ CheckpointSync \/ CheckpointSave \/ Verify \/ SaveVerified

Next == Client \/ RequestFails \/ BodyFails \/ Cancel \/ WriteFails \/ PowerFailure \/ BecomeHealthy

Spec == Init /\ [][Next]_vars

\* the client's own steps are not withheld, and a failed download is asked for again
FairSpec == Spec /\ WF_vars(Client \/ RequestFails \/ BodyFails)

----------------------------------------------------------------------------
(* Properties.                                                             *)

\* What the journal on disk counts as received is on disk and came from one content, the
\* one its validator names: whatever mirrors answered and whenever the power failed, a
\* resumed download never joins two contents.  (Between emptying the file and saving the
\* emptied journal the file is shorter, which the next call notices.)
ResumeNeverSplices ==
    \/ Len(file) < saved.received /\ file = <<>>
    \/ /\ saved.received <= durable
       /\ \A i, j \in 1 .. saved.received: file[i] = file[j]
       /\ \A i \in 1 .. saved.received: saved.validator = Tag(file[i])

\* A journal marked complete stands for a genuine file that no power failure can undo, or
\* for an empty one, which the next call finds too short and starts over: a verification
\* that could not read the file empties it before it saves the journal, and the power may
\* fail in between.  Evidence is only returned while the file is the former.
CompleteIsGenuine ==
    /\ saved.complete =>
         saved.received = Size /\ (file = <<>> \/ (Genuine(file) /\ durable = Size))
    /\ result = "evidence" => saved.complete /\ Genuine(file) /\ durable = Size

\* Once the reliable mirrors serve the artifact, a download that is asked for again
\* succeeds: neither a partial nor a spoiled file left by an earlier call can stand in its
\* way.  It holds when every mirror is reliable.  It fails when an earlier mirror keeps
\* spoiling the file: a full-length body of which the last block was checkpointed, followed
\* by an error, makes the next mirror verify that file instead of asking for its own.
RetriesSucceed == healthy ~> result = "evidence"
=============================================================================
