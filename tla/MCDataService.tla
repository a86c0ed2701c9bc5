---------------------------- MODULE MCDataService ----------------------------
(* DataService with two interchangeable instances on one file.             *)
EXTENDS DataService, TLC

Symmetry == Permutations(Instances)
=============================================================================
