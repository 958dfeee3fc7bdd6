---------------------------- MODULE DialogueTurn ----------------------------
(***************************************************************************)
(* What a turn promises to the rest of the program, whatever its lanes do: *)
(* the player hears its sentences in order and only while the turn is      *)
(* open; the turn ends once; and the memory keeps either nothing or        *)
(* exactly what was heard.                                                 *)
(***************************************************************************)
EXTENDS Naturals, Sequences

VARIABLES
    heard,   \* numbers of the sentences delivered
    memory,  \* numbers of the sentences kept as heard history
    status   \* "open", or the final lifecycle of the turn

vars == <<heard, memory, status>>

Init == heard = <<>> /\ memory = <<>> /\ status = "open"

\* The next sentence of the reply is delivered.
Hear ==
    /\ status = "open"
    /\ heard' = Append(heard, Len(heard) + 1)
    /\ UNCHANGED <<memory, status>>

\* The turn ends, and all or nothing of what was heard is remembered.
End ==
    /\ status = "open"
    /\ status' \in {"Completed", "Cancelled", "Failed"}
    /\ memory' \in {<<>>, heard}
    /\ UNCHANGED heard

Next == Hear \/ End

Spec == Init /\ [][Next]_vars
=============================================================================
