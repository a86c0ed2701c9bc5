------------------------ MODULE MCCircularQueueSPSC ------------------------
(* CircularQueue with one pushing and one popping thread. *)
EXTENDS CircularQueueSPSC

\* The configuration is the one the refinement is proved for.
ASSUME SPSCAssumption == SinglePair
=============================================================================
