-------------------------- MODULE MCCircularQueue --------------------------
(* CircularQueue with several pushing and popping threads. *)
EXTENDS CircularQueue, TLC

\* The threads of one kind are interchangeable.
Symmetry == Permutations(Producers) \cup Permutations(Consumers)
=============================================================================
