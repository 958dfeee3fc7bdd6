--------------------------- MODULE WorkScheduler ---------------------------
(***************************************************************************)
(* WorkSchedulerV1 (crates/model-manager/src/resource_governor.rs): the    *)
(* bounded queue of local inference work, in which newer frames supersede  *)
(* older ones, interactive work pre-empts background work, and pressure    *)
(* sheds what can be shed.  Every operation runs under the planner's lock; *)
(* module LocalResources extends this one with the threads that take it.   *)
(*                                                                         *)
(* A work id is a digest of the work, so kind and capture address are      *)
(* functions of it.  Addresses (generation, frame) are compared            *)
(* lexicographically: one number.  Every caller brings its own reading of  *)
(* the clock, so which deadlines it finds passed (late) is left open.      *)
(***************************************************************************)
EXTENDS Naturals, Sequences, SequencesExt, Functions

CONSTANTS
    Work,            \* the items that may be submitted
    Kind,            \* their WorkKindV1
    Address,         \* their VisualWorkAddressV1; 0 for work that is not visual
    MaximumPending   \* WorkQueuePolicyV1.maximum_pending

Kinds == {"LipSync", "SpeechRecognition", "SpeechSynthesis", "LanguageModel", "Vision", "Embedding"}
Priority == [LipSync |-> 6, SpeechRecognition |-> 5, SpeechSynthesis |-> 4,
             LanguageModel |-> 3, Vision |-> 2, Embedding |-> 1]
Interactive == Kinds \ {"Vision", "Embedding"}
Visual == {"LipSync", "Vision"}

ASSUME WorkAssumption ==
    /\ Kind \in [Work -> Kinds]
    /\ Address \in [Work -> Nat]
    /\ \A w \in Work: (Kind[w] \in Visual) <=> (Address[w] # 0)
    /\ MaximumPending \in Nat \ {0}

VARIABLES
    pending,  \* the queue, in the order of the sequence numbers
    clock     \* visual_generation_id and visual_frame_id

schedulerVars == <<pending, clock>>

SchedulerTypeOK ==
    /\ pending \in Seq(Work) /\ Len(pending) <= MaximumPending
    /\ clock \in Nat

Queued == Range(pending)
Without(queue, gone) ==
    FoldLeft(LAMBDA rest, w: IF w \in gone THEN rest ELSE Append(rest, w), <<>>, queue)

\* visual work captured before c
Stale(w, c) == Kind[w] \in Visual /\ Address[w] < c

\* what a newly submitted item pushes out, whatever the length of the queue
Displaced(w, c) ==
    {e \in Queued: \/ Stale(e, c)
                   \/ Kind[w] \in Interactive /\ Kind[e] \in {"Embedding", "Vision"}
                   \/ Kind[w] \in Visual /\ Kind[e] = Kind[w]}

\* min_by_key: the lowest priority, among equals the oldest
Lowest(queue) ==
    LET priority(i) == Priority[Kind[queue[i]]]
    IN  queue[CHOOSE i \in DOMAIN queue:
                \A j \in DOMAIN queue: \/ priority(i) < priority(j)
                                       \/ priority(i) = priority(j) /\ i <= j]

\* The outcome of submit for an item whose deadline has not passed; the same item, if it is
\* still queued, has been cancelled first.  A rejected item may have moved the clock and
\* pushed out others all the same
Submitted(w) ==
    LET others == Without(pending, {w})
        c      == IF Kind[w] \in Visual THEN Address[w] ELSE clock
        kept   == Without(others, Displaced(w, c))
        low    == Lowest(kept)
    IN  IF Stale(w, clock) THEN [accepted |-> FALSE, pending |-> others, clock |-> clock]
        ELSE IF Len(kept) < MaximumPending
             THEN [accepted |-> TRUE, pending |-> Append(kept, w), clock |-> c]
        ELSE IF Priority[Kind[w]] > Priority[Kind[low]]
             THEN [accepted |-> TRUE, pending |-> Append(Without(kept, {low}), w), clock |-> c]
        ELSE [accepted |-> FALSE, pending |-> kept, clock |-> c]

\* mutant: the clock moves on, but only expired work is dropped
OvertakenLate(c, late) == {w \in Queued: w \in late}

\* what advance_visual_clock drops when it moves to c
Overtaken(c, late) == {w \in Queued: w \in late \/ Stale(w, c)}

\* what apply_pressure drops
Shed(level, late) ==
    Overtaken(clock, late)
    \cup {w \in Queued: \/ level # "Normal" /\ Kind[w] \in {"Embedding", "Vision"}
                        \/ level = "Critical" /\ Kind[w] = "SpeechSynthesis"}

\* pop_next_kind takes the oldest item of the kind once the expired ones are dropped
Poppable(kind, late) == SelectSeq(pending, LAMBDA w: w \notin late /\ Kind[w] = kind)

\* The queue holds at most one frame of each visual kind, and it is the frame the clock
\* shows: what was captured earlier is gone, by whichever route the clock moved.
OneCurrentFrame ==
    \A i, j \in 1 .. Len(pending):
        Kind[pending[i]] \in Visual =>
            /\ Address[pending[i]] = clock
            /\ Kind[pending[i]] = Kind[pending[j]] => i = j
=============================================================================
