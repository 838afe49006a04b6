--------------------------- MODULE RevocableRight ---------------------------
(***************************************************************************)
(* What a check that is not made at every use still promises: a right that *)
(* was withdrawn can be used for a while, and no longer.  A right is held  *)
(* or not; since counts the time since it was last held, up to the time    *)
(* it may linger; usable says whether it can be used now.                  *)
(***************************************************************************)
EXTENDS Integers

CONSTANT Linger     \* from when on a withdrawn right cannot be used

VARIABLES held, since, usable

vars == <<held, since, usable>>

\* The right is used only within the time it may linger.
Within == usable' => since' < Linger

Init ==
    /\ held \in BOOLEAN
    /\ since = IF held THEN 0 ELSE Linger
    /\ usable = FALSE

Grant == held' /\ since' = 0

Withdraw == held /\ ~held' /\ since' = 0

\* One unit of time passes without the right.
Pass == ~held /\ ~held' /\ since < Linger /\ since' = since + 1

\* The right becomes usable, or ceases to be.
Use == UNCHANGED <<held, since>>

Next == Within /\ (Grant \/ Withdraw \/ Pass \/ Use)

Spec == Init /\ [][Next]_vars

=============================================================================
