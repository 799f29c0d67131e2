----------------------------- MODULE MCLedPower -----------------------------
(***************************************************************************)
(* LedPower for TLC: the tasks are alike, so states that differ only in    *)
(* who does what are checked once.                                         *)
(***************************************************************************)
EXTENDS LedPower, TLC

AnyTask == Permutations(Tasks)

=============================================================================
