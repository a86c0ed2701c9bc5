---------------------------- MODULE MCSequential ----------------------------
(***************************************************************************)
(* The components one thread calls, which keep no state in common: a       *)
(* behaviour is one of one of them.                                        *)
(***************************************************************************)
EXTENDS ChainablePromise, DeclareFifo, MaxProfit, Queue

VARIABLE component

Prices == 0 .. 3

SequentialInit ==
  /\ component \in {"DeclareFifo", "maxProfit", "Queue", "ChainablePromise"}
  /\ Init
  /\ ProfitInit /\ (component # "maxProfit" => n = 0)
  /\ QueueInit /\ (component # "Queue" => elementCapacity = 1 /\ elementSize = 1)
  /\ PromiseInit

SequentialNext ==
  /\ \/ /\ component = "DeclareFifo" /\ Next
        /\ UNCHANGED <<profitVars, queueVars, promiseVars>>
     \/ /\ component = "maxProfit" /\ ProfitNext
        /\ UNCHANGED <<vars, queueVars, promiseVars>>
     \/ /\ component = "Queue" /\ QueueNext
        /\ UNCHANGED <<vars, profitVars, promiseVars>>
     \/ /\ component = "ChainablePromise" /\ PromiseNext
        /\ UNCHANGED <<vars, profitVars, queueVars>>
  /\ UNCHANGED component

SequentialSpec ==
  /\ SequentialInit
  /\ [][SequentialNext]_<<component, vars, profitVars, queueVars, promiseVars>>
=============================================================================
