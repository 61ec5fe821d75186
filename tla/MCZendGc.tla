------------------------------ MODULE MCZendGc ------------------------------
(* ZendGc with interchangeable variables. *)
EXTENDS ZendGc, TLC

Renamings == Permutations(Vars)
=============================================================================
