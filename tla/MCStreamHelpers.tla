-------------------------- MODULE MCStreamHelpers ---------------------------
(***************************************************************************)
(* StreamHelpers with two interchangeable streaks.                         *)
(***************************************************************************)
EXTENDS StreamHelpers, TLC

CONSTANTS g1, g2

MCGroups   == {g1, g2}
MCSymmetry == Permutations(MCGroups)

=============================================================================
