--------------------------- MODULE ForegroundSlot ---------------------------
(***************************************************************************)
(* What the resource broker promises to those who start conversation       *)
(* turns: one slot, granted to one job when it is free and free again only *)
(* when that job gives it back.  TurnSupervisor knows the broker by this   *)
(* promise alone (its variable `lease'); ResourceBroker implements it.     *)
(***************************************************************************)
CONSTANTS Owners, None

VARIABLE holder

Init == holder = None

Grant(o) == holder = None /\ holder' = o

GiveBack == holder # None /\ holder' = None

Next == (\E o \in Owners : Grant(o)) \/ GiveBack

Spec == Init /\ [][Next]_holder
=============================================================================
