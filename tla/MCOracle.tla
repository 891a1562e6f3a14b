------------------------------ MODULE MCOracle ------------------------------
(* The generator that builds the tasks (Suite) and the scripted oracle that *)
(* proves each one solvable (Oracle).  A behaviour follows one of the two,  *)
(* `focus', while the other keeps its initial state.                        *)
(*                                                                          *)
(* The oracle walks the full eight-node plan of an H8 episode, under every  *)
(* fault plan the generator can schedule for it: no fault, one (dev, eval)  *)
(* or two (eval_stress) on distinct nodes.  The suite is built at its       *)
(* registered sizes and at the two specs per cell of the unit tests.        *)
EXTENDS Oracle, Suite, TLC

CONSTANT Focuses

VARIABLE focus

MCLines  == {1}
MCQty    == [l \in MCLines |-> 2]
MCTotal  == [l \in MCLines |-> 3]
MCStock  == [l \in MCLines |-> 2]
MCOwed   == [S \in SUBSET MCLines |-> IF S = {} THEN 0 ELSE 3]
MCBudget == 4

Step(op, l) == [op |-> op, line |-> l]

MCNodes ==
  << Step("order", 0), Step("kb", 1), Step("calc", 1), Step("convert", 1),
     Step("quote", 1), Step("reserve", 1), Step("status", 1), Step("finalize", 0) >>

MCSchedulable(i, kind) ==
  CASE kind = "wrong_unit" -> MCNodes[i].op = "convert"
    [] kind = "malformed"  -> MCNodes[i].op \notin {"reserve", "finalize"}
    [] kind = "ambiguous"  -> MCNodes[i].op = "reserve"
    [] OTHER               -> TRUE

MCFaults == {f \in (1..8) \X {"transient", "rate_limit", "malformed", "ambiguous",
                              "wrong_unit"} : MCSchedulable(f[1], f[2])}

MCPlans ==
  {<<>>} \cup {f[1] :> f[2] : f \in MCFaults}
  \cup {(p[1][1] :> p[1][2]) @@ (p[2][1] :> p[2][2]) :
          p \in {q \in MCFaults \X MCFaults : q[1][1] # q[2][1]}}

-----------------------------------------------------------------------------
UnitSizes == [s \in DOMAIN DefaultSizes |-> 2]
MCScales  == {DefaultSizes, UnitSizes}

(* The fault plans Suite schedules for the H8 episode, wherever their       *)
(* faults land.                                                             *)
H8Calls  == FulfillmentCalls(8)
H8Faults == UNION {ToSet(FaultPlan(s, Cell("fulfillment", 8), DefaultSizes[s])) :
                     s \in {"dev", "eval", "eval_stress", "oracle_sft"}}
Landings(kinds) ==
  {node \in [DOMAIN kinds -> 1..8] :
     /\ \A i \in DOMAIN kinds : node[i] \in Eligible(H8Calls, kinds[i])
     /\ \A i, j \in DOMAIN kinds : node[i] = node[j] => i = j}
Landed(kinds, node) ==
  [n \in {node[i] : i \in DOMAIN kinds} |-> kinds[CHOOSE i \in DOMAIN kinds : node[i] = n]]

(* Every way the faults of the generator's plan can land is a plan the      *)
(* oracle is checked under.                                                 *)
ASSUME OracleMeetsEveryPlan ==
  \A kinds \in H8Faults : /\ Landings(kinds) # {}
                         /\ \A node \in Landings(kinds) : Landed(kinds, node) \in MCPlans

-----------------------------------------------------------------------------
both == <<focus, oracleVars, suiteVars>>

LineInit ==
  /\ focus \in Focuses
  /\ OracleInit /\ SuiteInit
  /\ focus = "oracle" => scale = UnitSizes
  /\ focus = "suite" => plan = <<>>

OracleStep == focus = "oracle" /\ OracleNext /\ UNCHANGED <<focus, suiteVars>>
SuiteStep  == focus = "suite" /\ SuiteNext /\ UNCHANGED <<focus, oracleVars>>

LineNext == OracleStep \/ SuiteStep

(* The fairness of the oracle's sequential loop.  A behaviour that follows  *)
(* the generator is none of the oracle's fair ones: the liveness property   *)
(* does not speak of it.                                                    *)
LineSpec == LineInit /\ [][LineNext]_both /\ WF_oracleVars(OracleNext)
=============================================================================
