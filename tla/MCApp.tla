-------------------------------- MODULE MCApp --------------------------------
(* Instances of App for TLC. *)
EXTENDS App, TLC

Tasks == Permutations(Jobs)
=============================================================================
