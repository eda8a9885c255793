-------------------------- MODULE MCProfileExport --------------------------
(* Model-checking instance of ProfileExport.                               *)
EXTENDS ProfileExport, TLC

CallSymmetry == Permutations(Calls)
=============================================================================
