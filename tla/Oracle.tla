------------------------------- MODULE Oracle -------------------------------
(***************************************************************************)
(* The scripted oracle agent (run_oracle in suite/runtime.py): it walks    *)
(* the plan node by node, one call per decision, and recovers from every   *)
(* fault by the registered remediation.  The generator's validation rests  *)
(* on it: an episode it cannot certify is not a task.                      *)
(***************************************************************************)
EXTENDS Episode

CONSTANTS
  MaxAttempts,   \* attempts at one node
  Registered     \* the spelling the nodes are written in

ASSUME MaxAttemptsAssumption == MaxAttempts \in Nat \ {0}
ASSUME RegisteredAssumption == Registered \in Spellings

(* The generator schedules at most two faults in an episode (eval_stress). *)
ASSUME FaultsAssumption == \A p \in Plans : Cardinality(DOMAIN p) <= 2

VARIABLES
  at,        \* the node being worked on
  attempt,   \* attempts already made at it
  pending,   \* the recovery token to echo: the node that minted it, 0 for none
  phase      \* "decide": begin a decision; "act": make its call; "stop"

oracleVars == <<vars, at, attempt, pending, phase>>

OracleInit ==
  /\ Init
  /\ decision = 1    \* the first begin_decision
  /\ at = 1 /\ attempt = 0 /\ pending = 0
  /\ phase = "act"

OracleDecide ==
  /\ phase = "decide"
  /\ BeginDecision
  /\ phase' = "act"
  /\ UNCHANGED <<at, attempt, pending>>

OracleCall == [i \in 1..N |-> Spelt(OracleRequest(i), Registered)]

(* The node answered canonically (or, for an ambiguous mutation, replayed). *)
OracleAdvances ==
  LET c == OracleCall[at]
  IN  /\ phase = "act"
      /\ DispatchClean(c, pending)
      /\ Reply(env, c).ok
      /\ at' = at + 1
      /\ attempt' = 0
      /\ pending' = 0
      /\ phase' = IF at = N THEN "stop" ELSE "decide"

Retry ==
  /\ at' = at
  /\ attempt' = attempt + 1
  /\ phase' = IF attempt + 1 = MaxAttempts THEN "stop" ELSE "decide"

(* Defective variant: the recovery token is never echoed. *)
OracleRetriesBlind ==
  /\ phase = "act"
  /\ \/ DispatchSpoiled(OracleCall[at], pending)
     \/ DispatchAmbiguous(OracleCall[at], pending)
  /\ pending' = 0
  /\ Retry

(* An error envelope offers a token to echo; a wrong unit offers none. *)
OracleRetries ==
  LET c == OracleCall[at]
  IN  /\ phase = "act"
      /\ \/ DispatchSpoiled(c, pending)
         \/ DispatchAmbiguous(c, pending)
      /\ pending' = IF DirectiveFor(c) = "wrong_unit" THEN 0 ELSE at
      /\ Retry

OracleNext == OracleDecide \/ OracleAdvances \/ OracleRetries

(* run_oracle is one sequential loop: nothing else can keep it from its *)
(* next step.                                                           *)
OracleSpec == OracleInit /\ [][OracleNext]_oracleVars /\ WF_oracleVars(OracleNext)

(* Defective variant: a decision per node and one per fault, none for the *)
(* final answer.                                                          *)
DecisionBudgetBare == N + Cardinality(DOMAIN plan)

(* schema.decision_budget and schema.call_budget: what an agent is allowed. *)
DecisionBudget ==
  LET faults == Cardinality(DOMAIN plan)
  IN  N + (IF faults = 0 THEN 3 ELSE IF faults = 1 THEN 5 ELSE 8)

CallBudget == 2 * N + 4

-----------------------------------------------------------------------------
(* "A fault is [...] always recoverable": whatever faults the generator may *)
(* schedule, the registered remediation leads to a certified episode.       *)
OracleCertifies == <>(phase = "stop" /\ Certified)

(* "... within the remaining registered call budget": the oracle needs no   *)
(* more decisions than an agent is allowed, the final answer's included,    *)
(* and no more calls (it makes one per decision).                           *)
OracleWithinBudget ==
  /\ decision + 1 <= DecisionBudget
  /\ decision <= CallBudget
=============================================================================
