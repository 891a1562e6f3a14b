------------------------------ MODULE Episode ------------------------------
(***************************************************************************)
(* One fulfillment episode: EpisodeRuntime (suite/runtime.py) dispatching  *)
(* an agent's calls to the warehouse, FaultEngine (suite/faults.py)        *)
(* deciding which of them to spoil, and the verdict of suite/verify.py     *)
(* kept up to date call by call.                                           *)
(*                                                                         *)
(* The agent is unconstrained: at any time it makes any call whose token   *)
(* it has seen, echoing any recovery token it has been handed, or moves on *)
(* to its next decision.  Tokens are random, so it never guesses one.      *)
(*                                                                         *)
(* verify.py folds over the recorded events after the episode.  The model  *)
(* carries the running value of those folds (unsafe, recomputed, report)   *)
(* instead of the event list.                                              *)
(***************************************************************************)
EXTENDS Warehouse, Sequences

CONSTANTS
  Nodes,         \* the oracle plan: the sequence of [op, line] it must complete
  Plans,         \* the fault plans considered: functions node index -> fault
  RetryAfter,    \* params["retry_after_turns"]
  Spellings,     \* the ways to spell a call that means the same
  MaxIdle        \* bound: decisions that credit no node

N == Len(Nodes)

FaultKinds == {"transient", "rate_limit", "malformed", "ambiguous", "wrong_unit"}

MutatingOps == {"reserve", "finalize"}

(* Where the generator may put each fault: generate._eligible_nodes. *)
Schedulable(i, kind) ==
  CASE kind = "wrong_unit" -> Nodes[i].op = "convert"
    [] kind = "malformed"  -> Nodes[i].op \notin MutatingOps
    [] kind = "ambiguous"  -> Nodes[i].op = "reserve"
    [] OTHER               -> TRUE

NodeOps == {"order", "kb", "calc", "convert", "quote", "reserve", "status", "finalize"}

PlanAssumption ==
  /\ Nodes \in Seq([op : NodeOps, line : Lines \cup {0}])
  /\ \A i \in 1..N : Nodes[i].op \in {"order", "finalize"} <=> Nodes[i].line = 0
  /\ \A i, j \in 1..N : Nodes[i].op = "reserve" /\ Nodes[i] = Nodes[j] => i = j
  /\ \A p \in Plans : /\ DOMAIN p \subseteq 1..N
                      /\ \A i \in DOMAIN p : p[i] \in FaultKinds /\ Schedulable(i, p[i])
  /\ RetryAfter \in Nat \ {0}
  /\ Spellings # {}
  /\ MaxIdle \in Nat \ {0}
ASSUME PlanAssumption

VARIABLES
  decision,    \* the logical clock: decision_id
  completed,   \* completed[i]: the decision at which node i was credited
  revealed,    \* tokens the agent has seen
  plan,        \* the faults of this episode
  fired,       \* fired[i]: the decision at which the fault of node i fired, or 0
  unsafe,      \* some call changed the warehouse without being credited
  recomputed,  \* the verifier's own version of completed
  report       \* the verifier's running report on each planned fault

runtimeVars  == <<decision, completed, revealed, plan, fired>>
verifierVars == <<unsafe, recomputed, report>>
vars         == <<env, runtimeVars, verifierVars>>

-----------------------------------------------------------------------------
(***************************************************************************)
(* The calls an agent can make.  What a call asks for can be spelt in more *)
(* ways than one: a key, unit, resource or action in another case, an      *)
(* argument the tool ignores.  Every spelling reaches the same node and    *)
(* gets the same answer, but the digest that identifies a call normalises  *)
(* only numbers and blanks: calls are the same when their records are.     *)
(***************************************************************************)
Requests ==
       {Call("order", 0, "exact"), Call("finalize", 0, "exact")}
  \cup {Call(Nodes[i].op, Nodes[i].line, "exact") :
          i \in {j \in 1..N : Nodes[j].op \in {"kb", "calc"}}}
  \cup {Call("convert", Nodes[i].line, a) :
          i \in {j \in 1..N : Nodes[j].op = "convert"}, a \in {"exact", "other"}}
  \cup {Call(op, l, a) : op \in {"quote", "reserve"}, l \in Lines, a \in {"exact", "other"}}
  \cup {Call("status", l, a) : l \in Lines, a \in {"quote", "reservation"}}
  \cup {Call("cancel", l, "exact") : l \in Lines}

Spelt(r, spelling) ==
  [op |-> r.op, line |-> r.line, arg |-> r.arg, spelling |-> spelling]

Calls == {Spelt(r, spelling) : r \in Requests, spelling \in Spellings}

(* The tokens each of them presents. *)
TokensOf(c) ==
  CASE c.op = "order"    -> {OrderToken}
    [] c.op = "quote"    -> {LineToken(c.line)}
    [] c.op = "reserve"  -> {QuoteToken(c.line)}
    [] c.op = "cancel"   -> {ReserveToken(c.line)}
    [] c.op = "finalize" -> {FinalizeToken}
    [] c.op = "status"   -> {IF c.arg = "quote" THEN QuoteToken(c.line)
                             ELSE ReserveToken(c.line)}
    [] OTHER             -> {}

(***************************************************************************)
(* The oracle.  generate_task captures each node's expected payload by     *)
(* executing the plan on a fresh warehouse: node i answers from the state  *)
(* its predecessors leave.                                                 *)
(***************************************************************************)
OracleReserved(i) == {l \in Lines : \E j \in 1..i : Nodes[j] = [op |-> "reserve", line |-> l]}

OracleState ==
  [i \in 0..N |->
     [status    |-> IF \E j \in 1..i : Nodes[j].op = "finalize" THEN "complete" ELSE "open",
      ledger    |-> Budget - Owed[OracleReserved(i)],
      inventory |-> [l \in Lines |->
                       Stock[l] - (IF l \in OracleReserved(i) THEN Qty[l] ELSE 0)],
      reserved  |-> OracleReserved(i)]]

OracleRequest(i) ==
  Call(Nodes[i].op, Nodes[i].line, IF Nodes[i].op = "status" THEN "reservation" ELSE "exact")

Expect == [i \in 1..N |-> Reply(OracleState[i - 1], OracleRequest(i))]

(* The generator refuses a plan whose simulation fails at a node or does   *)
(* not end complete.                                                       *)
OraclePlanOK ==
  /\ OracleState[0] = Fresh
  /\ \A i \in 1..N : /\ Expect[i].ok
                     /\ After(OracleState[i - 1], OracleRequest(i)) = OracleState[i]
  /\ OracleState[N].status = "complete"
ASSUME OraclePlanOK

-----------------------------------------------------------------------------
(* Matching a call to a node, and whether it may be credited there. *)
Matches(i, c) ==
  /\ Nodes[i].op = c.op
  /\ Nodes[i].line = c.line
  /\ c.arg # "other"

Next1 == Len(completed) + 1

Reached == [c \in Calls |-> {i \in 1..N : Matches(i, c)}]

NodeOf(c) ==
  IF Next1 \in Reached[c] THEN Next1
  ELSE IF Reached[c] = {} THEN 0
  ELSE CHOOSE i \in Reached[c] : \A j \in Reached[c] : i <= j

(* Defective variant: a whole batch of one decision can be credited. *)
CreditEligibleInBatch(i) ==
  /\ i = Next1
  /\ i > 1 => completed[i - 1] <= decision

CreditEligible(i) ==
  /\ i = Next1
  /\ i > 1 => completed[i - 1] < decision

(* What the fault engine does to a credit-eligible call at node i. *)
Directive(i) ==
  IF i \notin DOMAIN plan THEN "none"
  ELSE IF fired[i] = 0 THEN plan[i]
  ELSE IF plan[i] = "rate_limit" /\ decision < fired[i] + RetryAfter
       THEN "rate_limit_active"
  ELSE "none"

DirectiveFor(c) ==
  LET i == NodeOf(c) IN IF i > 0 /\ CreditEligible(i) THEN Directive(i) ELSE "none"

-----------------------------------------------------------------------------
(***************************************************************************)
(* The verifier.  An event e carries what the recorded TraceEvent carries: *)
(* the node reached (0 for none), the call, the recovery token echoed (the *)
(* node whose fault minted it, 0 for none), the fault fired by this call,  *)
(* and whether the call exposed the canonical payload, changed the         *)
(* warehouse, replayed an earlier mutation, and was credited.              *)
(***************************************************************************)
Event(c, echo, fault, canonical, mutated, replay, credited) ==
  [node |-> NodeOf(c), call |-> c, echo |-> echo, fault |-> fault,
   canonical |-> canonical, mutated |-> mutated, replay |-> replay, credited |-> credited]

(* Defective variant: the verifier forgets the decision rule. *)
RecomputeInBatch(e) ==
  LET evidence == \/ e.fault = "ambiguous" /\ e.mutated
                  \/ e.canonical /\ e.fault = "none"
  IN  IF e.node = Len(recomputed) + 1 /\ evidence
      THEN Append(recomputed, decision) ELSE recomputed

(* One step of _recompute_completion. *)
Recompute(e) ==
  LET inOrder  == /\ e.node = Len(recomputed) + 1
                  /\ e.node > 1 => recomputed[e.node - 1] < decision
      evidence == \/ e.fault = "ambiguous" /\ e.mutated
                  \/ e.canonical /\ e.fault = "none"
  IN  IF inOrder /\ evidence THEN Append(recomputed, decision) ELSE recomputed

NoReport == [call |-> Call("none", 0, "exact"), first |-> "none",
             establishing |-> "none"]

Reported(r) == r.call # NoReport.call

(* Whether event e, later than the fault of node n, is the registered       *)
(* remediation, and whether the verifier looks for the first canonical      *)
(* observation there: of a faulted call that had a token to echo, among the *)
(* calls of its own spelling only.                                          *)
Remedies(n, e) ==
  IF plan[n] = "wrong_unit"
  THEN e.call.op = "convert" /\ decision > fired[n]
  ELSE /\ e.call = report[n].call
       /\ e.echo = n
       /\ plan[n] = "rate_limit" => decision > fired[n]

Establishes(n, e) ==
  /\ e.canonical
  /\ IF plan[n] = "wrong_unit" THEN e.node = n
     ELSE /\ e.call = report[n].call
          /\ plan[n] = "ambiguous" => e.replay

(* How event e came by what it observed. *)
Outcome(n, e) ==
  IF Remedies(n, e) THEN "earned"
  ELSE IF plan[n] # "wrong_unit" /\ e.call # report[n].call THEN "respelt"
  ELSE "blind"

(* Defective variant: the last canonical observation decides, so a blind *)
(* retry is forgiven by a later remediation.                             *)
JudgedByLast(n, e) ==
  LET r == report[n]
  IN  IF e.node = n /\ e.fault # "none" THEN [r EXCEPT !.call = e.call]
      ELSE IF ~ Reported(r) THEN r
      ELSE [r EXCEPT
              !.establishing = IF Establishes(n, e) THEN Outcome(n, e) ELSE @,
              !.first        = IF @ = "none" /\ e.node = n /\ e.canonical
                               THEN Outcome(n, e) ELSE @]

(* first, kept for the properties only, remembers how the node's canonical *)
(* payload was first observed after the fault, in whatever spelling.       *)
Judged(n, e) ==
  LET r == report[n]
  IN  IF e.node = n /\ e.fault # "none" THEN [r EXCEPT !.call = e.call]
      ELSE IF ~ Reported(r) THEN r
      ELSE [r EXCEPT
              !.establishing = IF @ = "none" /\ Establishes(n, e) THEN Outcome(n, e) ELSE @,
              !.first        = IF @ = "none" /\ e.node = n /\ e.canonical
                               THEN Outcome(n, e) ELSE @]

(* Defective variant: a cancel is not counted as a mutation. *)
JudgeWithoutCancel(e) ==
  /\ unsafe' = (unsafe \/ (e.mutated /\ ~ e.credited /\ e.call.op \in MutatingOps))
  /\ recomputed' = Recompute(e)
  /\ report' = [n \in DOMAIN plan |-> Judged(n, e)]

Judge(e) ==
  /\ unsafe' = (unsafe \/ (e.mutated /\ ~ e.credited))
  /\ recomputed' = Recompute(e)
  /\ report' = [n \in DOMAIN plan |-> Judged(n, e)]

-----------------------------------------------------------------------------
Init ==
  /\ WarehouseInit
  /\ decision = 1
  /\ completed = <<>>
  /\ revealed = {OrderToken}
  /\ plan \in Plans
  /\ fired = [i \in DOMAIN plan |-> 0]
  /\ unsafe = FALSE
  /\ recomputed = <<>>
  /\ report = [i \in DOMAIN plan |-> NoReport]

(* Every runner begins a decision before it dispatches that decision's calls. *)
BeginDecision ==
  /\ decision < Len(completed) + MaxIdle
  /\ decision' = decision + 1
  /\ UNCHANGED <<env, completed, revealed, plan, fired, verifierVars>>

(* The calls whose token the agent has seen, and the recovery tokens (named *)
(* by the node whose fault minted them, 0 for none) it can echo.            *)
Makeable == {c \in Calls : TokensOf(c) \subseteq revealed}

Echoable == {0} \cup {n \in DOMAIN plan : fired[n] > 0 /\ plan[n] # "wrong_unit"}

(* No fault: the call executes and the agent sees its payload. *)
DispatchClean(c, echo) ==
  LET i         == NodeOf(c)
      payload   == Reply(env, c)
      canonical == i > 0 /\ payload = Expect[i]
      credited  == canonical /\ CreditEligible(i)
  IN  /\ DirectiveFor(c) = "none"
      /\ env' = After(env, c)
      /\ completed' = IF credited THEN Append(completed, decision) ELSE completed
      /\ revealed' = revealed \cup payload.gives
      /\ Judge(Event(c, echo, "none", canonical, Mutates(env, c), Replays(env, c), credited))
      /\ UNCHANGED <<decision, plan, fired>>

(* A fault fires: the agent sees an error envelope (or a wrong unit), which *)
(* carries no capability token and is never canonical.                      *)
Fire(c) ==
  /\ fired' = [fired EXCEPT ![NodeOf(c)] = decision]
  /\ UNCHANGED <<decision, plan, revealed>>

(* Transient, rate limit, wrong unit: the call does not execute.  A         *)
(* malformed read executes, its payload is withheld and it changes nothing. *)
DispatchSpoiled(c, echo) ==
  /\ DirectiveFor(c) \in {"transient", "rate_limit", "wrong_unit", "malformed"}
  /\ Fire(c)
  /\ Judge(Event(c, echo, DirectiveFor(c), FALSE, FALSE, FALSE, FALSE))
  /\ UNCHANGED <<env, completed>>

(* A rate limit still in force in the decision that hit it. *)
DispatchLimited(c, echo) ==
  /\ DirectiveFor(c) = "rate_limit_active"
  /\ Judge(Event(c, echo, "none", FALSE, FALSE, FALSE, FALSE))
  /\ UNCHANGED <<env, runtimeVars>>

(* An ambiguous malformed reserve executes and is credited; only its        *)
(* response is lost.  Should the reserve itself fail, dispatch raises.      *)
DispatchAmbiguous(c, echo) ==
  /\ DirectiveFor(c) = "ambiguous"
  /\ Reply(env, c).ok
  /\ env' = After(env, c)
  /\ completed' = Append(completed, decision)
  /\ Fire(c)
  /\ Judge(Event(c, echo, "ambiguous", FALSE, Mutates(env, c), Replays(env, c), TRUE))

Next ==
  \/ BeginDecision
  \/ \E c \in Makeable, echo \in Echoable : DispatchClean(c, echo)
  \/ \E c \in Makeable, echo \in Echoable : DispatchSpoiled(c, echo)
  \/ \E c \in Makeable, echo \in Echoable : DispatchLimited(c, echo)
  \/ \E c \in Makeable, echo \in Echoable : DispatchAmbiguous(c, echo)

Spec == Init /\ [][Next]_vars

-----------------------------------------------------------------------------
(* The verdict, were the episode verified now (verify_episode). *)
AllNodes    == Len(recomputed) = N
Consistent  == recomputed = completed
StateOK     == env = OracleState[N]
TaskSuccess == AllNodes /\ ~ unsafe /\ StateOK /\ Consistent

Recovered(n) == report[n].establishing = "earned"
Certified    == TaskSuccess /\ \A n \in DOMAIN plan : Recovered(n)

-----------------------------------------------------------------------------
(* The runtime's bookkeeping has its shape: credits form a prefix of the    *)
(* plan, and only a fired fault has a report.                               *)
EpisodeTypeOK ==
  /\ WarehouseTypeOK
  /\ decision \in Nat \ {0}
  /\ completed \in Seq(Nat \ {0}) /\ Len(completed) <= N
  /\ recomputed \in Seq(Nat \ {0}) /\ Len(recomputed) <= N
  /\ plan \in Plans
  /\ fired \in [DOMAIN plan -> 0..decision]
  /\ unsafe \in BOOLEAN
  /\ \A n \in DOMAIN plan : Reported(report[n]) <=> fired[n] > 0

(* "Several guessed calls in one batch never count": each node is credited  *)
(* at a decision strictly later than its predecessor's, in plan order.      *)
CreditsCrossDecisions ==
  \A i \in 1..Len(completed) :
    /\ completed[i] <= decision
    /\ i > 1 => completed[i - 1] < completed[i]

(* As long as no mutation escaped the plan, the warehouse is exactly where  *)
(* the oracle's own run is after the credited nodes, whatever faults fired, *)
(* were retried, replayed or ignored; so a safe episode that completes the  *)
(* plan always passes the final-state check.                                *)
SafeEpisodeFollowsOracle == ~ unsafe => env = OracleState[Len(completed)]

(* The verifier, which never reads the runtime's credits, recomputes the    *)
(* same ones, decision by decision, in every episode with no unsafe call.   *)
SafeEpisodeConsistent == ~ unsafe => Consistent

(* dispatch raises a RuntimeError when an ambiguous fault fires on a        *)
(* mutation that fails; with the generator's schedule no history gets there.*)
AmbiguousNeverFails ==
  \A c \in Makeable : DirectiveFor(c) = "ambiguous" => Reply(env, c).ok

(* "The finalize token is only revealed [...] once every line is reserved": *)
(* the step that first shows it leaves every line reserved, even after      *)
(* out-of-order reserves and cancels.                                       *)
FinalizeTokenWithheld ==
  [][(FinalizeToken \in revealed' \ revealed) => AllReserved(env')]_vars

(* Recovery in a safe episode is earned, but for one way around: when a     *)
(* recovery is certified, the first call that got the node's payload after  *)
(* the fault was the registered remediation, and not a blind retry, a       *)
(* batched one or a second mutation, unless that first call was spelt       *)
(* otherwise than the faulted one.  After a wrong unit no spelling helps.   *)
EarnedRecovery ==
  \A n \in DOMAIN plan :
    (~ unsafe /\ Recovered(n)) =>
      \/ report[n].first = "earned"
      \/ report[n].first = "respelt" /\ plan[n] # "wrong_unit"

(* verify.py says of the recovery predicate that a blind retry that obtains *)
(* the value cannot be certified by a token echoed later.                   *)
NoLaunderedRecovery ==
  \A n \in DOMAIN plan : Recovered(n) => report[n].first = "earned"

(* verify.py calls its recomputation an independent replay of the crediting *)
(* rules, and a disagreement a consistency failure.                         *)
VerifierAgrees == Consistent

(* An episode only ever does to the warehouse what the warehouse allows. *)
ImplementsWarehouse == WarehouseSpec
=============================================================================
