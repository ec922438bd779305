--------------------------- MODULE MCTradePipeline ---------------------------
(***************************************************************************)
(* TradePipeline for TLC, in one of two scenarios.  In "one key" trades of *)
(* one key come in any order of times, and ticks are published one by one. *)
(* In "two keys" each of two keys has fewer trades, of one time and        *)
(* volume, and the ticks of a flush are published all at once.  Two units  *)
(* of time make a minute, so that two timestamps share a minute and four   *)
(* span two; two small trades of one sample make a significant one.        *)
(***************************************************************************)
EXTENDS TradePipeline

CONSTANTS
  TheKey,            \* the key of the first scenario
  MaxTradesOfTwo     \* bound: trades handled per key in the second scenario

ASSUME ScenarioAssumption == TheKey \in Keys /\ MaxTradesOfTwo <= MaxTrades

VARIABLE scenario

MCThreshold == [k \in Keys |-> 2]

BatchPipeline == INSTANCE TradePipeline WITH Batch <- TRUE

\* What is handled in each scenario.
OnlyTheKey == \A k \in Keys \ {TheKey} : pipe'[k] = EmptyKey
FewAndAlike ==
  \A k \in Keys :
    /\ Len(pipe'[k].handled) <= MaxTradesOfTwo
    /\ \A i \in DOMAIN pipe'[k].handled :
         pipe'[k].handled[i].time = 0 /\ pipe'[k].handled[i].volume = 1

MCInit == Init /\ scenario \in {"one key", "two keys"}
MCNext ==
  /\ \/ scenario = "one key" /\ Next /\ OnlyTheKey
     \/ scenario = "two keys" /\ BatchPipeline!Next /\ FewAndAlike
  /\ UNCHANGED scenario
MCSpec == MCInit /\ [][MCNext]_<<vars, scenario>>
=============================================================================
