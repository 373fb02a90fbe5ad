-------------------------------- MODULE MCRbf --------------------------------
(***************************************************************************)
(* Rbf for TLC: paths and names are interchangeable.                       *)
(***************************************************************************)
EXTENDS Rbf, TLC

Symmetry == Permutations(Path) \cup Permutations(Name)
=============================================================================
