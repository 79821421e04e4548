--------------------------- MODULE MCProfileCache ---------------------------
(***************************************************************************)
(* ProfileCache on a small instance: goroutines and names are              *)
(* interchangeable.                                                        *)
(***************************************************************************)
EXTENDS ProfileCache, TLC

CONSTANTS c1, c2, n1, n2

MCCallers  == {c1, c2}
MCNames    == {n1, n2}
MCSymmetry == Permutations(MCCallers) \cup Permutations(MCNames)

=============================================================================
