---------------------------- MODULE EpisodeProofs ----------------------------
(***************************************************************************)
(* For every oracle plan and every fault plan: an episode only ever does   *)
(* to the warehouse what the warehouse allows, so it inherits the          *)
(* warehouse's theorems; its credits cross decisions in plan order; no     *)
(* ambiguous fault meets a reserve that fails; the finalize token waits    *)
(* for the last line; and in a safe episode the warehouse follows the      *)
(* oracle, the verifier agrees and every recovery is earned.  The scripted *)
(* oracle stays within the budgets.  Of the suite that supplies the tasks: *)
(* its permutation control moves every answer, at every size.              *)
(*                                                                         *)
(* First the warehouse itself: for every order it keeps its shape,         *)
(* conserves ledger and inventory, completes only when every line is       *)
(* reserved and then never changes.  Conservation is not inductive without *)
(* the type; a cancel needs the additive law of Owed on a set it rebuilds  *)
(* by putting the cancelled line back.  They are proved together as WInv.  *)
(***************************************************************************)
EXTENDS Oracle, Suite, SequenceTheorems, FiniteSetTheorems, WellFoundedInduction, TLAPS

-----------------------------------------------------------------------------
(* The warehouse. *)
WInv == WarehouseTypeOK /\ Conservation /\ CompleteHoldsEveryLine

(* The generator's fresh order satisfies the invariant. *)
LEMMA WInvInit == WarehouseInit => WInv
  BY AmountsAssumption, OwedAssumption
  DEF WarehouseInit, Fresh, WInv, WarehouseTypeOK, EnvType, Conservation,
      CompleteHoldsEveryLine, AmountsAssumption, OwedAssumption

(* Taking a line out of a set that holds it takes its price off what is owed. *)
LEMMA OwedWithout ==
  ASSUME NEW S \in SUBSET Lines, NEW l \in S
  PROVE  Owed[S] = Owed[S \ {l}] + Total[l]
<1>1. S \ {l} \in SUBSET Lines /\ l \in Lines \ (S \ {l}) /\ (S \ {l}) \cup {l} = S
  OBVIOUS
<1> QED
  BY <1>1, OwedAssumption DEF OwedAssumption

(* A reserve that takes effect. *)
LEMMA ReserveKeepsWInv ==
  ASSUME WInv, NEW l \in Lines, Reserve(l)
  PROVE  WInv'
<1> USE DEF WInv, WarehouseTypeOK, EnvType
<1>1. /\ env \in EnvType /\ env.reserved \in SUBSET Lines /\ l \in Lines \ env.reserved
      /\ env.inventory[l] >= Qty[l] /\ env.ledger >= Total[l]
      /\ env' = [status    |-> env.status,
                 ledger    |-> env.ledger - Total[l],
                 inventory |-> [env.inventory EXCEPT ![l] = @ - Qty[l]],
                 reserved  |-> env.reserved \cup {l}]
  BY DEF Reserve, Reserves, Reserved
<1>2. Qty[l] \in Nat /\ Total[l] \in Nat
  BY AmountsAssumption DEF AmountsAssumption
<1>3. WarehouseTypeOK'
  BY <1>1, <1>2
<1>4. Owed[env.reserved \cup {l}] = Owed[env.reserved] + Total[l]
      /\ Owed[env.reserved] \in Nat
  BY <1>1, OwedAssumption DEF OwedAssumption
<1>5. env'.ledger + Owed[env'.reserved] = Budget
  BY <1>1, <1>2, <1>4, AmountsAssumption DEF Conservation, AmountsAssumption
<1>6. ASSUME NEW m \in Lines
      PROVE  env'.inventory[m] + (IF m \in env'.reserved THEN Qty[m] ELSE 0) = Stock[m]
  <2>1. CASE m = l
    BY <1>1, <1>2, <2>1 DEF Conservation
  <2>2. CASE m # l
    BY <1>1, <2>2 DEF Conservation
  <2> QED
    BY <2>1, <2>2
<1>7. Conservation'
  BY <1>5, <1>6 DEF Conservation
<1>8. CompleteHoldsEveryLine'
  BY <1>1 DEF CompleteHoldsEveryLine, AllReserved
<1> QED
  BY <1>3, <1>7, <1>8

(* A cancel that takes effect. *)
LEMMA CancelKeepsWInv ==
  ASSUME WInv, NEW l \in Lines, Cancel(l)
  PROVE  WInv'
<1> USE DEF WInv, WarehouseTypeOK, EnvType
<1>1. /\ env \in EnvType /\ env.reserved \in SUBSET Lines /\ l \in env.reserved
      /\ env.status = "open"
      /\ env' = [status    |-> env.status,
                 ledger    |-> env.ledger + Total[l],
                 inventory |-> [env.inventory EXCEPT ![l] = @ + Qty[l]],
                 reserved  |-> env.reserved \ {l}]
  BY DEF Cancel, Cancels, Released
<1>2. Qty[l] \in Nat /\ Total[l] \in Nat
  BY AmountsAssumption DEF AmountsAssumption
<1>3. WarehouseTypeOK'
  BY <1>1, <1>2
<1>4. Owed[env.reserved] = Owed[env.reserved \ {l}] + Total[l]
      /\ Owed[env.reserved \ {l}] \in Nat
  BY <1>1, OwedWithout, OwedAssumption DEF OwedAssumption
<1>5. env'.ledger + Owed[env'.reserved] = Budget
  BY <1>1, <1>2, <1>4, AmountsAssumption DEF Conservation, AmountsAssumption
<1>6. ASSUME NEW m \in Lines
      PROVE  env'.inventory[m] + (IF m \in env'.reserved THEN Qty[m] ELSE 0) = Stock[m]
  <2>1. CASE m = l
    BY <1>1, <1>2, <2>1 DEF Conservation
  <2>2. CASE m # l
    BY <1>1, <2>2 DEF Conservation
  <2> QED
    BY <2>1, <2>2
<1>7. Conservation'
  BY <1>5, <1>6 DEF Conservation
<1>8. CompleteHoldsEveryLine'
  BY <1>1 DEF CompleteHoldsEveryLine
<1> QED
  BY <1>3, <1>7, <1>8

(* A finalize that takes effect. *)
LEMMA FinalizeKeepsWInv ==
  ASSUME WInv, Finalize
  PROVE  WInv'
<1> USE DEF WInv, WarehouseTypeOK, EnvType
<1>1. /\ env \in EnvType /\ env.reserved = Lines
      /\ env' = [status    |-> "complete",
                 ledger    |-> env.ledger,
                 inventory |-> env.inventory,
                 reserved  |-> env.reserved]
  BY DEF Finalize, Finalizes, Completed, AllReserved
<1>2. WarehouseTypeOK' /\ CompleteHoldsEveryLine'
  BY <1>1 DEF CompleteHoldsEveryLine, AllReserved
<1>3. Conservation'
  BY <1>1 DEF Conservation
<1> QED
  BY <1>2, <1>3

LEMMA WInvStep == WInv /\ [WarehouseNext]_env => WInv'
<1> SUFFICES ASSUME WInv, [WarehouseNext]_env PROVE WInv'
  OBVIOUS
<1>1. CASE UNCHANGED env
  BY <1>1 DEF WInv, WarehouseTypeOK, Conservation, CompleteHoldsEveryLine, AllReserved
<1>2. ASSUME NEW l \in Lines, Reserve(l) PROVE WInv'
  BY <1>2, ReserveKeepsWInv
<1>3. ASSUME NEW l \in Lines, Cancel(l) PROVE WInv'
  BY <1>3, CancelKeepsWInv
<1>4. CASE Finalize
  BY <1>4, FinalizeKeepsWInv
<1> QED
  BY <1>1, <1>2, <1>3, <1>4 DEF WarehouseNext

LEMMA WInvAlways == WarehouseSpec => []WInv
  BY WInvInit, WInvStep, PTL DEF WarehouseSpec

(* The state record keeps its shape: neither the ledger nor a lot ever goes *)
(* negative, whatever the order of reserves and cancels.                    *)
THEOREM WarehouseType == WarehouseSpec => []WarehouseTypeOK
<1>1. WInv => WarehouseTypeOK
  BY DEF WInv
<1> QED
  BY <1>1, WInvAlways, PTL

(* Ledger and inventory are conserved: a cancel gives back exactly what its *)
(* reservation took, for any number of lines and any prices.                *)
THEOREM WarehouseConserves == WarehouseSpec => []Conservation
<1>1. WInv => Conservation
  BY DEF WInv
<1> QED
  BY <1>1, WInvAlways, PTL

(* A complete order holds all of its lines. *)
THEOREM CompleteOrderHoldsLines == WarehouseSpec => []CompleteHoldsEveryLine
<1>1. WInv => CompleteHoldsEveryLine
  BY DEF WInv
<1> QED
  BY <1>1, WInvAlways, PTL

(* Once complete, no call changes the warehouse again: a reserve has no     *)
(* line left to take, a cancel and a second finalize are refused.           *)
THEOREM CompleteOrderIsFinal == WarehouseSpec => CompleteIsFinal
<1>1. WInv /\ [WarehouseNext]_env => [env.status = "complete" => env' = env]_env
  <2> SUFFICES ASSUME WInv, WarehouseNext, env.status = "complete" PROVE FALSE
    OBVIOUS
  <2>1. env.reserved = Lines
    BY DEF WInv, CompleteHoldsEveryLine, AllReserved
  <2> QED
    BY <2>1 DEF WarehouseNext, Reserve, Reserves, Cancel, Cancels, Finalize, Finalizes
<1> QED
  BY <1>1, WInvAlways, PTL DEF WarehouseSpec, CompleteIsFinal

-----------------------------------------------------------------------------
(* Only a line of the order is ever reserved or cancelled. *)
LEMMA MutationsNameLines ==
  ASSUME NEW c \in Calls, c.op \in {"reserve", "cancel"}
  PROVE  c.line \in Lines
<1>1. PICK r \in Requests, spelling \in Spellings : c = Spelt(r, spelling)
  BY DEF Calls
<1>2. r.op \in {"reserve", "cancel"} /\ c.line = r.line
  BY <1>1 DEF Spelt
<1> QED
  BY <1>2 DEF Requests, Call

(* What a dispatched call does to the warehouse is a warehouse step. *)
LEMMA AfterIsAStep ==
  ASSUME NEW c \in Calls, env' = After(env, c)
  PROVE  [WarehouseNext]_env
<1>1. CASE ~ Mutates(env, c)
  BY <1>1 DEF After
<1>2. CASE c.op = "reserve" /\ Reserves(env, c.line)
  <2>1. Reserve(c.line) /\ c.line \in Lines
    BY <1>2, MutationsNameLines DEF After, Mutates, Reserve
  <2> QED
    BY <2>1 DEF WarehouseNext
<1>3. CASE c.op = "cancel" /\ Cancels(env, c.line)
  <2>1. Cancel(c.line) /\ c.line \in Lines
    BY <1>3, MutationsNameLines DEF After, Mutates, Cancel
  <2> QED
    BY <2>1 DEF WarehouseNext
<1>4. CASE c.op = "finalize" /\ Finalizes(env)
  BY <1>4 DEF After, Mutates, Finalize, WarehouseNext
<1> QED
  BY <1>1, <1>2, <1>3, <1>4 DEF Mutates

LEMMA EpisodeStepIsWarehouseStep == [Next]_vars => [WarehouseNext]_env
<1> SUFFICES ASSUME [Next]_vars PROVE [WarehouseNext]_env
  OBVIOUS
<1>1. CASE UNCHANGED vars
  BY <1>1 DEF vars
<1>2. CASE BeginDecision
  BY <1>2 DEF BeginDecision
<1>3. ASSUME NEW c \in Makeable, NEW echo \in Echoable, DispatchClean(c, echo)
      PROVE  [WarehouseNext]_env
  BY <1>3, AfterIsAStep DEF DispatchClean, Makeable
<1>4. ASSUME NEW c \in Makeable, NEW echo \in Echoable, DispatchSpoiled(c, echo)
      PROVE  [WarehouseNext]_env
  BY <1>4 DEF DispatchSpoiled
<1>5. ASSUME NEW c \in Makeable, NEW echo \in Echoable, DispatchLimited(c, echo)
      PROVE  [WarehouseNext]_env
  BY <1>5 DEF DispatchLimited
<1>6. ASSUME NEW c \in Makeable, NEW echo \in Echoable, DispatchAmbiguous(c, echo)
      PROVE  [WarehouseNext]_env
  BY <1>6, AfterIsAStep DEF DispatchAmbiguous, Makeable
<1> QED
  BY <1>1, <1>2, <1>3, <1>4, <1>5, <1>6 DEF Next

(* Whatever the agent does and whatever faults fire, the warehouse sees a   *)
(* behaviour of WarehouseSpec: a spoiled call leaves it alone, an ambiguous *)
(* one mutates it exactly as an answered one would.                         *)
THEOREM EpisodeImplementsWarehouse == Spec => ImplementsWarehouse
<1>1. Init => WarehouseInit
  BY DEF Init
<1> QED
  BY <1>1, EpisodeStepIsWarehouseStep, PTL DEF Spec, ImplementsWarehouse, WarehouseSpec

(* So ledger and inventory are conserved in every episode. *)
THEOREM EpisodeConserves == Spec => []Conservation
  BY EpisodeImplementsWarehouse, WarehouseConserves, PTL DEF ImplementsWarehouse

-----------------------------------------------------------------------------
CInv ==
  /\ decision \in Nat
  /\ completed \in Seq(Nat)
  /\ CreditsCrossDecisions

(* A credit is only ever appended by a call that is eligible for it. *)
LEMMA CreditKeepsCInv ==
  ASSUME CInv, CreditEligible(Next1), completed' = Append(completed, decision),
         decision' = decision
  PROVE  CInv'
<1>1. completed' \in Seq(Nat) /\ Len(completed') = Len(completed) + 1 /\ Len(completed) \in Nat
      /\ completed'[Len(completed) + 1] = decision
      /\ \A i \in 1..Len(completed) : completed'[i] = completed[i] /\ completed[i] \in Nat
  BY DEF CInv
<1>2. Len(completed) + 1 > 1 => completed[Len(completed)] < decision
  BY <1>1 DEF CreditEligible, Next1
<1>3. ASSUME NEW i \in 1..Len(completed')
      PROVE  /\ completed'[i] <= decision'
             /\ i > 1 => completed'[i - 1] < completed'[i]
  <2>1. CASE i = Len(completed) + 1
    <3>1. completed'[i] = decision /\ decision \in Nat
      BY <1>1, <2>1 DEF CInv
    <3>2. ASSUME i > 1 PROVE completed'[i - 1] = completed[Len(completed)]
      BY <1>1, <2>1, <3>2
    <3> QED
      BY <1>2, <2>1, <3>1, <3>2
  <2>2. CASE i \in 1..Len(completed)
    <3>1. completed'[i] = completed[i] /\ (i > 1 => completed'[i - 1] = completed[i - 1])
      BY <1>1, <2>2
    <3> QED
      BY <2>2, <3>1 DEF CInv, CreditsCrossDecisions
  <2> QED
    BY <1>1, <2>1, <2>2
<1> QED
  BY <1>1, <1>3 DEF CInv, CreditsCrossDecisions

LEMMA CInvStep == CInv /\ [Next]_vars => CInv'
<1> SUFFICES ASSUME CInv, [Next]_vars PROVE CInv'
  OBVIOUS
<1>1. ASSUME UNCHANGED completed, decision' = decision \/ decision' = decision + 1
      PROVE  CInv'
  <2>1. decision' \in Nat /\ decision' >= decision
    BY <1>1 DEF CInv
  <2>2. \A i \in 1..Len(completed) : completed[i] \in Nat
    BY DEF CInv
  <2> QED
    BY <1>1, <2>1, <2>2 DEF CInv, CreditsCrossDecisions
<1>2. CASE UNCHANGED vars
  BY <1>1, <1>2 DEF vars, runtimeVars
<1>3. CASE BeginDecision
  BY <1>1, <1>3 DEF BeginDecision
<1>4. ASSUME NEW c \in Makeable, NEW echo \in Echoable, DispatchClean(c, echo)
      PROVE  CInv'
  <2>1. CASE completed' = completed
    BY <1>1, <1>4, <2>1 DEF DispatchClean
  <2>2. CASE completed' # completed
    <3>1. completed' = Append(completed, decision) /\ CreditEligible(NodeOf(c))
      BY <1>4, <2>2 DEF DispatchClean
    <3> QED
      BY <1>4, <3>1, CreditKeepsCInv DEF DispatchClean, CreditEligible
  <2> QED
    BY <2>1, <2>2
<1>5. ASSUME NEW c \in Makeable, NEW echo \in Echoable, DispatchSpoiled(c, echo)
      PROVE  CInv'
  BY <1>1, <1>5 DEF DispatchSpoiled, Fire
<1>6. ASSUME NEW c \in Makeable, NEW echo \in Echoable, DispatchLimited(c, echo)
      PROVE  CInv'
  BY <1>1, <1>6 DEF DispatchLimited, runtimeVars
<1>7. ASSUME NEW c \in Makeable, NEW echo \in Echoable, DispatchAmbiguous(c, echo)
      PROVE  CInv'
  <2>1. CreditEligible(NodeOf(c))
    BY <1>7 DEF DispatchAmbiguous, DirectiveFor
  <2> QED
    BY <1>7, <2>1, CreditKeepsCInv DEF DispatchAmbiguous, Fire, CreditEligible
<1> QED
  BY <1>2, <1>3, <1>4, <1>5, <1>6, <1>7 DEF Next

(* Guessing a node's call in the batch that made it possible never counts:  *)
(* credits are strictly later than their predecessors', for any plan.       *)
THEOREM CreditsAreOrdered == Spec => []CreditsCrossDecisions
<1>1. Init => CInv
  BY DEF Init, CInv, CreditsCrossDecisions
<1>2. CInv => CreditsCrossDecisions
  BY DEF CInv
<1> QED
  BY <1>1, <1>2, CInvStep, PTL DEF Spec

-----------------------------------------------------------------------------
(***************************************************************************)
(* The safe episode.  As long as no mutation has escaped the plan, the     *)
(* warehouse is where the oracle's run is after the credited nodes, and    *)
(* the verifier has recomputed the runtime's credits.  The two facts lean  *)
(* on each other: an ambiguous fault is credited by both sides only        *)
(* because, from the oracle's state, the reserve it hides really mutates.  *)
(***************************************************************************)
SInv ==
  /\ completed \in Seq(Nat)
  /\ plan \in Plans
  /\ unsafe \in BOOLEAN
  /\ ~ unsafe => env = OracleState[Len(completed)] /\ recomputed = completed

LEMMA PlanFacts ==
  /\ N \in Nat
  /\ \A i \in 1..N : Nodes[i].op \in NodeOps /\ Nodes[i].line \in Lines \cup {0}
                    /\ Nodes[i] = [op |-> Nodes[i].op, line |-> Nodes[i].line]
<1>1. Nodes \in Seq([op : NodeOps, line : Lines \cup {0}])
  BY PlanAssumption DEF PlanAssumption
<1>2. N \in Nat /\ \A i \in 1..N : Nodes[i] \in [op : NodeOps, line : Lines \cup {0}]
  BY <1>1, LenProperties, ElementOfSeq DEF N
<1> QED
  BY <1>2

(* Every nonempty set of indices of the plan has a least one. *)
LEMMA LeastIndex ==
  ASSUME NEW S \in SUBSET Nat, S # {}
  PROVE  \E i \in S : \A j \in S : i <= j
<1>1. PICK i \in S : \A j \in S : <<j, i>> \notin OpToRel(<, Nat)
  BY NatLessThanWellFounded, WFMin
<1>2. \A j \in S : ~ (j < i)
  BY <1>1 DEF OpToRel
<1>3. ASSUME NEW j \in S PROVE i <= j
  <2>1. i \in Nat /\ j \in Nat
    OBVIOUS
  <2> QED
    BY <1>2, <2>1
<1> QED
  BY <1>3

(* A call is matched to a node of the plan it really matches. *)
LEMMA NodeOfMatches ==
  ASSUME NEW c \in Calls, NodeOf(c) # 0
  PROVE  NodeOf(c) \in 1..N /\ Matches(NodeOf(c), c)
<1>1. Reached[c] = {i \in 1..N : Matches(i, c)}
  BY DEF Reached
<1>2. CASE Next1 \in Reached[c]
  BY <1>1, <1>2 DEF NodeOf
<1>3. CASE Next1 \notin Reached[c]
  <2>1. Reached[c] # {}
    BY <1>3 DEF NodeOf
  <2>2. \E i \in Reached[c] : \A j \in Reached[c] : i <= j
    <3>1. Reached[c] \in SUBSET Nat
      BY <1>1, PlanFacts
    <3> QED
      BY <2>1, <3>1, LeastIndex
  <2>3. NodeOf(c) \in Reached[c]
    BY <1>3, <2>1, <2>2 DEF NodeOf
  <2> QED
    BY <1>1, <2>3
<1> QED
  BY <1>2, <1>3

(* From the oracle's state, a call that matches the next node does what the *)
(* oracle's own call would.                                                 *)
LEMMA MatchingCallFollowsOracle ==
  ASSUME NEW c \in Calls, NEW i \in 1..N, Matches(i, c), env = OracleState[i - 1]
  PROVE  After(env, c) = OracleState[i]
<1>1. OracleRequest(i).op = c.op /\ OracleRequest(i).line = c.line
  BY DEF Matches, OracleRequest, Call
<1>2. After(env, c) = After(env, OracleRequest(i))
  BY <1>1 DEF After, Mutates
<1> QED
  BY <1>2, OraclePlanOK DEF OraclePlanOK

(* The oracle's reserves all mutate: each takes a line not yet reserved. *)
LEMMA OracleReserveMutates ==
  ASSUME NEW c \in Calls, NEW i \in 1..N, Matches(i, c), env = OracleState[i - 1],
         Nodes[i].op = "reserve"
  PROVE  Mutates(env, c)
<1>1. SUFFICES ASSUME ~ Mutates(env, c) PROVE FALSE
  OBVIOUS
<1>2. OracleState[i] = OracleState[i - 1]
  BY <1>1, MatchingCallFollowsOracle DEF After
<1>3. OracleReserved(i) = OracleReserved(i - 1)
  <2>1. i \in 0..N /\ i - 1 \in 0..N
    BY PlanFacts
  <2>2. OracleState[i].reserved = OracleReserved(i)
        /\ OracleState[i - 1].reserved = OracleReserved(i - 1)
    BY <2>1 DEF OracleState
  <2> QED
    BY <1>2, <2>2
<1>4. Nodes[i].line \in OracleReserved(i)
  <2>1. Nodes[i].line \in Lines /\ Nodes[i] = [op |-> "reserve", line |-> Nodes[i].line]
    BY PlanFacts, PlanAssumption DEF PlanAssumption
  <2> QED
    BY <2>1, PlanFacts DEF OracleReserved
<1>5. PICK j \in 1..(i - 1) : Nodes[j] = [op |-> "reserve", line |-> Nodes[i].line]
  BY <1>3, <1>4 DEF OracleReserved
<1>6. j \in 1..N /\ j # i /\ Nodes[j] = Nodes[i]
  BY <1>5, PlanFacts
<1> QED
  BY <1>6, PlanAssumption DEF PlanAssumption

LEMMA SInvInit == Init => SInv
<1>1. OracleState[0] = Fresh
  BY OraclePlanOK DEF OraclePlanOK
<1>2. Init => completed = <<>> /\ recomputed = <<>> /\ env = Fresh /\ plan \in Plans
              /\ unsafe = FALSE
  BY DEF Init, WarehouseInit
<1>3. <<>> \in Seq(Nat) /\ Len(<<>>) = 0
  OBVIOUS
<1> QED
  BY <1>1, <1>2, <1>3 DEF SInv

(* The steps that touch neither the warehouse nor the credits. *)
LEMMA NothingDone ==
  ASSUME SInv, UNCHANGED <<env, completed, plan, unsafe, recomputed>>
  PROVE  SInv'
  BY DEF SInv

LEMMA CleanKeepsSInv ==
  ASSUME SInv, CInv, NEW c \in Makeable, NEW echo \in Echoable, DispatchClean(c, echo)
  PROVE  SInv'
<1> DEFINE i         == NodeOf(c)
           canonical == i > 0 /\ Reply(env, c) = Expect[i]
           credited  == canonical /\ CreditEligible(i)
           e         == Event(c, echo, "none", canonical, Mutates(env, c), Replays(env, c),
                              credited)
<1>1. /\ env' = After(env, c) /\ plan' = plan /\ decision' = decision
      /\ completed' = IF credited THEN Append(completed, decision) ELSE completed
      /\ unsafe' = (unsafe \/ (Mutates(env, c) /\ ~ credited))
      /\ recomputed' = Recompute(e)
  BY DEF DispatchClean, Judge, Event
<1>2. completed' \in Seq(Nat) /\ plan' \in Plans /\ unsafe' \in BOOLEAN
  <2>1. decision \in Nat /\ completed \in Seq(Nat)
    BY DEF CInv
  <2> QED
    BY <1>1, <2>1 DEF SInv
<1>3. ASSUME ~ unsafe'
      PROVE  env' = OracleState[Len(completed')] /\ recomputed' = completed'
  <2>1. ~ unsafe /\ (Mutates(env, c) => credited)
    BY <1>1, <1>3 DEF SInv
  <2>2. env = OracleState[Len(completed)] /\ recomputed = completed
    BY <2>1 DEF SInv
  <2>3. recomputed' = IF credited THEN Append(completed, decision) ELSE completed
    <3>1. e.node = i /\ e.fault = "none" /\ e.canonical = canonical /\ e.mutated = Mutates(env, c)
      BY DEF Event
    <3>2. CreditEligible(i) <=> (/\ i = Len(recomputed) + 1
                                 /\ i > 1 => recomputed[i - 1] < decision)
      BY <2>2 DEF CreditEligible, Next1
    <3> HIDE DEF e, canonical, i
    <3> QED
      BY <1>1, <2>2, <3>1, <3>2 DEF Recompute, credited
  <2>4. CASE credited
    <3>1. i = Len(completed) + 1 /\ i # 0 /\ Len(completed) \in Nat
      BY <2>4 DEF CreditEligible, Next1, SInv
    <3>2. i \in 1..N /\ Matches(i, c) /\ c \in Calls
      BY <3>1, NodeOfMatches DEF Makeable
    <3>3. env = OracleState[i - 1]
      BY <2>2, <3>1
    <3>4. env' = OracleState[i]
      BY <1>1, <3>2, <3>3, MatchingCallFollowsOracle
    <3>5. Len(completed') = i
      BY <1>1, <2>4, <3>1 DEF SInv
    <3> QED
      BY <1>1, <2>3, <2>4, <3>4, <3>5
  <2>5. CASE ~ credited
    BY <1>1, <2>1, <2>2, <2>3, <2>5 DEF After
  <2> QED
    BY <2>4, <2>5
<1> QED
  BY <1>2, <1>3 DEF SInv

LEMMA AmbiguousKeepsSInv ==
  ASSUME SInv, CInv, NEW c \in Makeable, NEW echo \in Echoable, DispatchAmbiguous(c, echo)
  PROVE  SInv'
<1> DEFINE i == NodeOf(c)
           e == Event(c, echo, "ambiguous", FALSE, Mutates(env, c), Replays(env, c), TRUE)
<1>1. /\ env' = After(env, c) /\ plan' = plan /\ decision' = decision
      /\ completed' = Append(completed, decision)
      /\ unsafe' = unsafe /\ recomputed' = Recompute(e)
  BY DEF DispatchAmbiguous, Fire, Judge, Event, SInv
<1>2. i > 0 /\ CreditEligible(i) /\ Directive(i) = "ambiguous"
  BY DEF DispatchAmbiguous, DirectiveFor
<1>3. i = Len(completed) + 1 /\ i # 0 /\ Len(completed) \in Nat
  BY <1>2 DEF CreditEligible, Next1, SInv
<1>4. i \in 1..N /\ Matches(i, c) /\ c \in Calls
  BY <1>3, NodeOfMatches DEF Makeable
<1>5. Nodes[i].op = "reserve"
  <2>1. i \in DOMAIN plan /\ plan[i] = "ambiguous" /\ plan \in Plans
    BY <1>2 DEF Directive, SInv
  <2> QED
    BY <2>1, PlanAssumption DEF PlanAssumption, Schedulable
<1>6. completed' \in Seq(Nat) /\ Len(completed') = i
  <2>1. decision \in Nat /\ completed \in Seq(Nat)
    BY DEF CInv
  <2> QED
    BY <1>1, <1>3, <2>1
<1>7. ASSUME ~ unsafe'
      PROVE  env' = OracleState[Len(completed')] /\ recomputed' = completed'
  <2>1. env = OracleState[i - 1] /\ recomputed = completed
    BY <1>1, <1>3, <1>7 DEF SInv
  <2>2. env' = OracleState[i]
    BY <1>1, <1>4, <2>1, MatchingCallFollowsOracle
  <2>3. e.node = i /\ e.fault = "ambiguous" /\ e.mutated
    BY <1>4, <1>5, <2>1, OracleReserveMutates DEF Event
  <2>4. i = Len(recomputed) + 1 /\ (i > 1 => recomputed[i - 1] < decision)
    BY <1>2, <2>1 DEF CreditEligible, Next1
  <2> HIDE DEF e, i
  <2>5. recomputed' = Append(recomputed, decision)
    BY <1>1, <2>3, <2>4 DEF Recompute
  <2> QED
    BY <1>1, <1>6, <2>1, <2>2, <2>5
<1> QED
  BY <1>1, <1>6, <1>7 DEF SInv

LEMMA SInvStep == SInv /\ CInv /\ [Next]_vars => SInv'
<1> SUFFICES ASSUME SInv, CInv, [Next]_vars PROVE SInv'
  OBVIOUS
<1>1. CASE UNCHANGED vars
  BY <1>1, NothingDone DEF vars, runtimeVars, verifierVars
<1>2. CASE BeginDecision
  BY <1>2, NothingDone DEF BeginDecision, verifierVars
<1>3. ASSUME NEW c \in Makeable, NEW echo \in Echoable, DispatchClean(c, echo)
      PROVE  SInv'
  BY <1>3, CleanKeepsSInv
<1>4. ASSUME NEW e, e.mutated = FALSE, e.canonical = FALSE, e.fault # "ambiguous", Judge(e),
             UNCHANGED <<env, completed, plan>>
      PROVE  SInv'
  BY <1>4, NothingDone DEF Judge, Recompute, SInv
<1>5. ASSUME NEW c \in Makeable, NEW echo \in Echoable, DispatchSpoiled(c, echo)
      PROVE  SInv'
  <2> DEFINE e == Event(c, echo, DirectiveFor(c), FALSE, FALSE, FALSE, FALSE)
  <2>1. e.mutated = FALSE /\ e.canonical = FALSE /\ e.fault # "ambiguous" /\ Judge(e)
        /\ UNCHANGED <<env, completed, plan>>
    BY <1>5 DEF DispatchSpoiled, Fire, Event
  <2> HIDE DEF e
  <2> QED
    BY <1>4, <2>1
<1>6. ASSUME NEW c \in Makeable, NEW echo \in Echoable, DispatchLimited(c, echo)
      PROVE  SInv'
  <2> DEFINE e == Event(c, echo, "none", FALSE, FALSE, FALSE, FALSE)
  <2>1. e.mutated = FALSE /\ e.canonical = FALSE /\ e.fault # "ambiguous" /\ Judge(e)
        /\ UNCHANGED <<env, completed, plan>>
    BY <1>6 DEF DispatchLimited, Event, runtimeVars
  <2> HIDE DEF e
  <2> QED
    BY <1>4, <2>1
<1>7. ASSUME NEW c \in Makeable, NEW echo \in Echoable, DispatchAmbiguous(c, echo)
      PROVE  SInv'
  BY <1>7, AmbiguousKeepsSInv
<1> QED
  BY <1>1, <1>2, <1>3, <1>5, <1>6, <1>7 DEF Next

LEMMA SInvAlways == Spec => []SInv
<1>1. Init => CInv
  BY DEF Init, CInv, CreditsCrossDecisions
<1> QED
  BY <1>1, SInvInit, CInvStep, SInvStep, PTL DEF Spec

(* The warehouse of a safe episode is the oracle's own, whatever faults     *)
(* fired and however the agent retried them, for any plan the generator     *)
(* accepts: completing it safely is passing the final-state check.          *)
THEOREM SafeEpisodesFollowTheOracle == Spec => []SafeEpisodeFollowsOracle
<1>1. SInv => SafeEpisodeFollowsOracle
  BY DEF SInv, SafeEpisodeFollowsOracle
<1> QED
  BY <1>1, SInvAlways, PTL

(* The verifier, working from the events alone, gives a safe episode the    *)
(* very credits the runtime gave it.                                        *)
THEOREM SafeEpisodesAreConsistent == Spec => []SafeEpisodeConsistent
<1>1. SInv => SafeEpisodeConsistent
  BY DEF SInv, SafeEpisodeConsistent, Consistent
<1> QED
  BY <1>1, SInvAlways, PTL

-----------------------------------------------------------------------------
(***************************************************************************)
(* What the generator's simulation of the plan says of the order: it is a  *)
(* finite order, every line is reserved by some node, each lot holds its   *)
(* line's quantity and the budget covers the whole order.                  *)
(***************************************************************************)

LEMMA OracleStateFields ==
  ASSUME NEW i \in 0..N
  PROVE  /\ OracleState[i].reserved = OracleReserved(i)
         /\ OracleState[i].ledger = Budget - Owed[OracleReserved(i)]
         /\ OracleState[i].inventory = [l \in Lines |->
              Stock[l] - (IF l \in OracleReserved(i) THEN Qty[l] ELSE 0)]
         /\ OracleState[i].status = "complete" => \E j \in 1..i : Nodes[j].op = "finalize"
         /\ OracleState[i].status \in {"open", "complete"}
         /\ OracleReserved(i) \in SUBSET Lines
  BY DEF OracleState, OracleReserved

(* The plan reserves every line by the time it finalizes. *)
LEMMA EveryLineReserved ==
  /\ OracleReserved(N) = Lines
  /\ \A l \in Lines : \E i \in 1..N : Nodes[i] = [op |-> "reserve", line |-> l]
<1> DEFINE F == {j \in 1..N : Nodes[j].op = "finalize"}
<1>1. F # {} /\ F \in SUBSET Nat
  <2>1. N \in 0..N /\ OracleState[N].status = "complete"
    BY PlanFacts, OraclePlanOK DEF OraclePlanOK
  <2>2. \E j \in 1..N : Nodes[j].op = "finalize"
    BY <2>1, OracleStateFields
  <2> QED
    BY <2>2, PlanFacts
<1>2. PICK j \in F : \A k \in F : j <= k
  BY <1>1, LeastIndex
<1>3. j \in 1..N /\ j - 1 \in 0..N /\ OracleState[j - 1].status # "complete"
  <2>1. j \in 1..N /\ j - 1 \in 0..N
    BY <1>2, PlanFacts
  <2>2. ASSUME NEW k \in 1..(j - 1), Nodes[k].op = "finalize" PROVE FALSE
    <3>1. k \in F /\ k < j
      BY <2>1, <2>2, PlanFacts
    <3> QED
      BY <1>2, <2>1, <3>1, PlanFacts
  <2> QED
    BY <2>1, <2>2, OracleStateFields
<1>4. FinalizeReply(OracleState[j - 1]).ok
  <2>1. OracleRequest(j).op = "finalize"
    BY <1>2 DEF OracleRequest, Call
  <2>2. Expect[j].ok /\ Expect[j] = Reply(OracleState[j - 1], OracleRequest(j))
    BY <1>3, OraclePlanOK DEF OraclePlanOK, Expect
  <2> QED
    BY <2>1, <2>2 DEF Reply
<1>5. OracleReserved(j - 1) = Lines
  BY <1>3, <1>4, OracleStateFields DEF FinalizeReply, AllReserved, Error, Payload
<1>6. OracleReserved(j - 1) \subseteq OracleReserved(N) /\ OracleReserved(N) \subseteq Lines
  BY <1>3, PlanFacts DEF OracleReserved
<1>7. OracleReserved(N) = Lines
  BY <1>5, <1>6
<1> QED
  BY <1>7 DEF OracleReserved

LEMMA OrderIsFinite == IsFiniteSet(Lines)
<1> DEFINE R == {i \in 1..N : Nodes[i].op = "reserve"}
           f == [i \in R |-> Nodes[i].line]
<1>1. IsFiniteSet(R)
  <2>1. IsFiniteSet(1..N) /\ R \in SUBSET (1..N)
    BY FS_Interval, PlanFacts
  <2> QED
    BY <2>1, FS_Subset
<1>2. f \in Surjection(R, Lines)
  <2>1. \A i \in R : Nodes[i].line \in Lines
    BY PlanFacts, PlanAssumption DEF PlanAssumption
  <2>2. \A l \in Lines : \E i \in R : f[i] = l
    <3> SUFFICES ASSUME NEW l \in Lines PROVE \E i \in R : f[i] = l
      OBVIOUS
    <3>1. PICK i \in 1..N : Nodes[i] = [op |-> "reserve", line |-> l]
      BY EveryLineReserved
    <3>2. i \in R /\ f[i] = l
      BY <3>1
    <3> QED
      BY <3>2
  <2> QED
    BY <2>1, <2>2 DEF Surjection
<1> QED
  BY <1>1, <1>2, FS_Surjection

(* When the oracle reserves a line, lot and ledger have what it takes. *)
LEMMA OracleReserves ==
  ASSUME NEW i \in 1..N, NEW l \in Lines, Nodes[i] = [op |-> "reserve", line |-> l]
  PROVE  /\ l \notin OracleReserved(i - 1)
         /\ OracleReserved(i) = OracleReserved(i - 1) \cup {l}
         /\ Stock[l] >= Qty[l]
         /\ Budget - Owed[OracleReserved(i - 1)] >= Total[l]
<1>1. i - 1 \in 0..N /\ i \in 0..N /\ Nodes[i].op = "reserve" /\ Nodes[i].line = l
  BY PlanFacts
<1>2. l \notin OracleReserved(i - 1)
  <2> SUFFICES ASSUME l \in OracleReserved(i - 1) PROVE FALSE
    OBVIOUS
  <2>1. PICK j \in 1..(i - 1) : Nodes[j] = Nodes[i]
    BY DEF OracleReserved
  <2>2. j \in 1..N /\ j # i
    BY <2>1, PlanFacts
  <2> QED
    BY <1>1, <2>1, <2>2, PlanAssumption DEF PlanAssumption
<1>3. OracleReserved(i) = OracleReserved(i - 1) \cup {l}
  BY PlanFacts DEF OracleReserved
<1>4. ReserveReply(OracleState[i - 1], l).ok
  <2>1. OracleRequest(i).op = "reserve" /\ OracleRequest(i).line = l
    BY <1>1 DEF OracleRequest, Call
  <2>2. Expect[i].ok /\ Expect[i] = Reply(OracleState[i - 1], OracleRequest(i))
    BY OraclePlanOK DEF OraclePlanOK, Expect
  <2> QED
    BY <2>1, <2>2 DEF Reply
<1>5. Reserves(OracleState[i - 1], l)
  BY <1>1, <1>2, <1>4, OracleStateFields DEF ReserveReply, Error, Payload
<1>6. Stock[l] - 0 >= Qty[l] /\ Budget - Owed[OracleReserved(i - 1)] >= Total[l]
  <2> DEFINE before == OracleState[i - 1]
  <2>1. /\ before.inventory[l] = Stock[l] - 0
        /\ before.ledger = Budget - Owed[OracleReserved(i - 1)]
    BY <1>1, <1>2, OracleStateFields
  <2>2. before.inventory[l] >= Qty[l] /\ before.ledger >= Total[l]
    BY <1>5 DEF Reserves
  <2> HIDE DEF before
  <2> QED
    BY <2>1, <2>2
<1> QED
  BY <1>2, <1>3, <1>6, AmountsAssumption DEF AmountsAssumption

LEMMA BudgetCoversOrder == Owed[Lines] <= Budget
<1> DEFINE W == {i \in 0..N : OracleReserved(i) = Lines}
<1>1. W # {} /\ W \in SUBSET Nat
  BY EveryLineReserved, PlanFacts
<1>2. PICK i \in W : \A j \in W : i <= j
  BY <1>1, LeastIndex
<1>3. CASE i = 0
  <2>1. Lines = {}
    <3>1. Lines = {l \in Lines : \E j \in 1..0 : Nodes[j] = [op |-> "reserve", line |-> l]}
      BY <1>2, <1>3 DEF OracleReserved
    <3>2. 1..0 = {}
      OBVIOUS
    <3> QED
      BY <3>1, <3>2
  <2> QED
    BY <2>1, OwedAssumption, AmountsAssumption DEF OwedAssumption, AmountsAssumption
<1>4. CASE i # 0
  <2>1. i \in 1..N /\ i - 1 \in 0..N /\ i - 1 \notin W
    BY <1>2, <1>4, PlanFacts
  <2>2. PICK l \in Lines : l \notin OracleReserved(i - 1) /\ l \in OracleReserved(i)
    BY <1>2, <2>1 DEF OracleReserved
  <2>3. Nodes[i] = [op |-> "reserve", line |-> l]
    BY <2>1, <2>2 DEF OracleReserved
  <2>4. /\ Lines = OracleReserved(i - 1) \cup {l}
        /\ Budget - Owed[OracleReserved(i - 1)] >= Total[l]
    BY <1>2, <2>1, <2>3, OracleReserves
  <2>5. OracleReserved(i - 1) \in SUBSET Lines
    BY DEF OracleReserved
  <2>6. Owed[Lines] = Owed[OracleReserved(i - 1)] + Total[l]
    BY <2>2, <2>4, <2>5, OwedAssumption DEF OwedAssumption
  <2>7. Owed[OracleReserved(i - 1)] \in Nat /\ Total[l] \in Nat /\ Budget \in Nat
    BY <2>5, OwedAssumption, AmountsAssumption DEF OwedAssumption, AmountsAssumption
  <2> QED
    BY <2>4, <2>6, <2>7
<1> QED
  BY <1>3, <1>4

(* Prices are not negative, so part of an order never costs more than all. *)
LEMMA PartCostsNoMore ==
  ASSUME NEW S \in SUBSET Lines
  PROVE  Owed[S] <= Owed[Lines]
<1> DEFINE Bad == {D \in SUBSET (Lines \ S) : ~ (Owed[S] <= Owed[S \cup D])}
<1>1. SUFFICES Bad = {}
  <2>1. S \cup (Lines \ S) = Lines /\ Lines \ S \notin Bad
    BY <1>1
  <2> QED
    BY <2>1
<1>2. SUFFICES ASSUME Bad # {} PROVE FALSE
  OBVIOUS
<1>3. IsWellFoundedOn(StrictSubsetOrdering(Lines), FiniteSubsetsOf(Lines))
  BY FS_StrictSubsetOrderingWellFounded
<1>4. Bad \subseteq FiniteSubsetsOf(Lines)
  BY OrderIsFinite, FS_FiniteSubsetsOfFinite
<1>5. PICK D \in Bad : \A E \in Bad : ~ (<<E, D>> \in StrictSubsetOrdering(Lines))
  <2> HIDE DEF Bad
  <2> QED
    BY <1>2, <1>3, <1>4, WFMin
<1>6. PICK l \in D : TRUE
  <2>1. S \cup {} = S /\ Owed[S] \in Nat
    BY OwedAssumption DEF OwedAssumption
  <2>2. Owed[S] <= Owed[S \cup {}]
    BY <2>1
  <2>3. D # {}
    BY <1>5, <2>2
  <2> QED
    BY <2>3
<1>7. Owed[S] <= Owed[S \cup (D \ {l})]
  <2>1. <<D \ {l}, D>> \in StrictSubsetOrdering(Lines)
    BY <1>6 DEF StrictSubsetOrdering
  <2>2. D \ {l} \notin Bad
    BY <1>5, <2>1
  <2> QED
    BY <2>2
<1>8. Owed[S \cup D] = Owed[S \cup (D \ {l})] + Total[l]
  <2>1. S \cup D = (S \cup (D \ {l})) \cup {l} /\ S \cup (D \ {l}) \in SUBSET Lines
        /\ l \in Lines \ (S \cup (D \ {l}))
    BY <1>6
  <2> QED
    BY <2>1, OwedAssumption DEF OwedAssumption
<1>9. Owed[S] \in Nat /\ Owed[S \cup (D \ {l})] \in Nat /\ Total[l] \in Nat
  BY <1>6, OwedAssumption, AmountsAssumption DEF OwedAssumption, AmountsAssumption
<1> QED
  BY <1>5, <1>7, <1>8, <1>9

(* So in any episode, however its lines were reserved and cancelled, the    *)
(* reserve of a line of the order succeeds.                                 *)
LEMMA ReserveAlwaysAnswers ==
  ASSUME WInv, NEW l \in Lines
  PROVE  ReserveReply(env, l).ok
<1>1. PICK i \in 1..N : Nodes[i] = [op |-> "reserve", line |-> l]
  BY EveryLineReserved
<1>2. Stock[l] >= Qty[l]
  BY <1>1, OracleReserves
<1>3. ASSUME l \notin env.reserved PROVE Reserves(env, l)
  <2>1. env.inventory[l] + 0 = Stock[l] /\ env.inventory[l] \in Nat
    BY <1>3 DEF WInv, Conservation, WarehouseTypeOK, EnvType
  <2>2. env.reserved \in SUBSET Lines /\ env.ledger + Owed[env.reserved] = Budget
        /\ env.ledger \in Nat
    BY DEF WInv, Conservation, WarehouseTypeOK, EnvType
  <2>3. Owed[env.reserved \cup {l}] = Owed[env.reserved] + Total[l]
        /\ Owed[env.reserved \cup {l}] <= Owed[Lines] /\ Owed[env.reserved] \in Nat
    BY <1>3, <2>2, PartCostsNoMore, OwedAssumption DEF OwedAssumption
  <2>4. env.ledger >= Total[l]
    BY <2>2, <2>3, BudgetCoversOrder, OwedAssumption, AmountsAssumption
    DEF OwedAssumption, AmountsAssumption
  <2> QED
    BY <1>2, <1>3, <2>1, <2>4 DEF Reserves
<1> QED
  BY <1>3 DEF ReserveReply, Payload

LEMMA EpisodeKeepsWInv == Spec => []WInv
  BY EpisodeImplementsWarehouse, WInvAlways, PTL DEF ImplementsWarehouse

(* dispatch never raises: an ambiguous fault sits on a reserve the plan     *)
(* makes, and a reserve of a line of the order always takes effect or       *)
(* replays, in safe and unsafe episodes alike.                              *)
THEOREM AmbiguousIsExecutable == Spec => []AmbiguousNeverFails
<1>1. WInv /\ SInv => AmbiguousNeverFails
  <2> SUFFICES ASSUME WInv, SInv, NEW c \in Makeable, DirectiveFor(c) = "ambiguous"
               PROVE  Reply(env, c).ok
    BY DEF AmbiguousNeverFails
  <2>1. c \in Calls /\ NodeOf(c) # 0 /\ Directive(NodeOf(c)) = "ambiguous"
    BY DEF Makeable, DirectiveFor
  <2>2. NodeOf(c) \in DOMAIN plan /\ plan[NodeOf(c)] = "ambiguous"
    BY <2>1 DEF Directive
  <2>3. Nodes[NodeOf(c)].op = "reserve"
    BY <2>2, PlanAssumption DEF PlanAssumption, Schedulable, SInv
  <2>4. c.op = "reserve" /\ c.line \in Lines
    BY <2>1, <2>3, NodeOfMatches, MutationsNameLines DEF Matches
  <2> QED
    BY <2>4, ReserveAlwaysAnswers DEF Reply
<1> QED
  BY <1>1, EpisodeKeepsWInv, SInvAlways, PTL

-----------------------------------------------------------------------------
(* What can carry the finalize token: a status query of a fully reserved    *)
(* order, or the one reservation of an express order.                       *)
LEMMA FinalizeTokenGiven ==
  ASSUME WInv, NEW c \in Calls, FinalizeToken \in Reply(env, c).gives,
         WInv', env' = After(env, c)
  PROVE  AllReserved(env')
<1>1. /\ \A l : FinalizeToken # LineToken(l) /\ FinalizeToken # QuoteToken(l)
                /\ FinalizeToken # ReserveToken(l)
      /\ FinalizeToken # CompletionToken
  BY DEF FinalizeToken, LineToken, QuoteToken, ReserveToken, CompletionToken
<1>2. c.op = "status" \/ c.op = "reserve"
  BY <1>1 DEF Reply, Payload, Error, CancelReply, FinalizeReply
<1>3. CASE c.op = "status"
  <2>1. AllReserved(env)
    BY <1>1, <1>3 DEF Reply, StatusReply, Payload, Error
  <2> QED
    BY <1>3, <2>1 DEF After, Mutates
<1>4. CASE c.op = "reserve"
  <2>1. Express /\ (c.line \in env.reserved \/ Reserves(env, c.line)) /\ c.line \in Lines
    BY <1>1, <1>4, MutationsNameLines DEF Reply, ReserveReply, Payload, Error
  <2>2. Lines = {c.line}
    BY <2>1, ExpressAssumption DEF ExpressAssumption
  <2>3. c.line \in env'.reserved
    BY <1>4, <2>1 DEF After, Mutates, Reserves, Reserved, WInv, WarehouseTypeOK, EnvType
  <2>4. env'.reserved \subseteq Lines
    BY DEF WInv, WarehouseTypeOK, EnvType
  <2> QED
    BY <2>2, <2>3, <2>4 DEF AllReserved
<1> QED
  BY <1>2, <1>3, <1>4

(* The finalize token first shows on a step that leaves every line          *)
(* reserved, for any number of lines and any order of reserves and cancels. *)
THEOREM FinalizeTokenIsWithheld == Spec => FinalizeTokenWithheld
<1>1. WInv /\ WInv' /\ [Next]_vars =>
        [(FinalizeToken \in revealed' \ revealed) => AllReserved(env')]_vars
  <2> SUFFICES ASSUME WInv, WInv', Next, FinalizeToken \in revealed' \ revealed
               PROVE  AllReserved(env')
    OBVIOUS
  <2>1. PICK c \in Makeable, echo \in Echoable : DispatchClean(c, echo)
    BY DEF Next, BeginDecision, DispatchSpoiled, DispatchLimited, DispatchAmbiguous, Fire,
           runtimeVars
  <2>2. env' = After(env, c) /\ revealed' = revealed \cup Reply(env, c).gives /\ c \in Calls
    BY <2>1 DEF DispatchClean, Makeable
  <2> QED
    BY <2>2, FinalizeTokenGiven
<1> QED
  BY <1>1, EpisodeKeepsWInv, PTL DEF Spec, FinalizeTokenWithheld

-----------------------------------------------------------------------------
(***************************************************************************)
(* Recovery.  Until the first canonical observation at a faulted node, the *)
(* node is the next to be credited (or, for an ambiguous fault, credited   *)
(* already), so in a safe episode the observation that establishes the     *)
(* outcome is the first canonical one at the node, unless that one was     *)
(* spelt otherwise than the faulted call.                                  *)
(***************************************************************************)
Outcomes == {"none", "earned", "blind", "respelt"}

Reports == [call : Calls \cup {NoReport.call}, first : Outcomes, establishing : Outcomes]

ReportFollows(n) ==
  /\ Reported(report[n]) <=> fired[n] # 0
  /\ Reported(report[n]) => report[n].call \in Calls /\ n \in Reached[report[n].call]
  /\ Reported(report[n]) /\ plan[n] = "ambiguous" => n <= Len(completed)
  /\ Reported(report[n]) /\ plan[n] # "ambiguous" /\ report[n].first = "none" => n = Next1
  /\ ~ unsafe => \/ report[n].establishing = report[n].first
                 \/ report[n].first = "respelt" /\ plan[n] # "wrong_unit"

RInv ==
  /\ decision # 0 /\ Len(completed) <= N
  /\ fired \in [DOMAIN plan -> Nat]
  /\ report \in [DOMAIN plan -> Reports]
  /\ \A n \in DOMAIN plan : ReportFollows(n)

LEMMA CallsAreNamed ==
  ASSUME NEW c \in Calls
  PROVE  c # NoReport.call
<1>1. PICK r \in Requests, spelling \in Spellings : c = Spelt(r, spelling)
  BY DEF Calls
<1>2. r.op # "none"
  BY DEF Requests, Call
<1>3. NoReport.call.op = "none" /\ c.op = r.op
  BY <1>1 DEF NoReport, Call, Spelt
<1> QED
  BY <1>2, <1>3

(* A fault sits on a node of the plan. *)
LEMMA FaultedNodes ==
  ASSUME plan \in Plans, NEW n \in DOMAIN plan
  PROVE  n \in 1..N /\ plan[n] \in FaultKinds /\ Schedulable(n, plan[n])
  BY PlanAssumption DEF PlanAssumption

(* What one event does to one report. *)
LEMMA JudgedFields ==
  ASSUME NEW n \in DOMAIN plan, report[n] \in Reports, NEW e, e.call \in Calls
  PROVE  /\ Judged(n, e) \in Reports
         /\ e.node = n /\ e.fault # "none" =>
              /\ Judged(n, e).call = e.call
              /\ Judged(n, e).first = report[n].first
              /\ Judged(n, e).establishing = report[n].establishing
         /\ ~ (e.node = n /\ e.fault # "none") =>
              /\ Judged(n, e).call = report[n].call
              /\ ~ Reported(report[n]) => Judged(n, e) = report[n]
              /\ Reported(report[n]) =>
                   /\ Judged(n, e).establishing =
                        IF report[n].establishing = "none" /\ Establishes(n, e)
                        THEN Outcome(n, e) ELSE report[n].establishing
                   /\ Judged(n, e).first =
                        IF report[n].first = "none" /\ e.node = n /\ e.canonical
                        THEN Outcome(n, e) ELSE report[n].first
<1> DEFINE r   == report[n]
           out == Outcome(n, e)
<1>1. out \in {"earned", "blind", "respelt"}
  BY DEF Outcome
<1>2. CASE e.node = n /\ e.fault # "none"
  <2>1. Judged(n, e) = [r EXCEPT !.call = e.call]
    BY <1>2 DEF Judged
  <2> QED
    BY <1>2, <2>1 DEF Reports
<1>3. CASE ~ (e.node = n /\ e.fault # "none") /\ ~ Reported(r)
  <2>1. Judged(n, e) = r
    BY <1>3 DEF Judged
  <2> QED
    BY <1>3, <2>1
<1>4. CASE ~ (e.node = n /\ e.fault # "none") /\ Reported(r)
  <2>1. Judged(n, e) =
          [r EXCEPT !.establishing = IF @ = "none" /\ Establishes(n, e) THEN out ELSE @,
                    !.first = IF @ = "none" /\ e.node = n /\ e.canonical THEN out ELSE @]
    BY <1>4 DEF Judged
  <2> QED
    BY <1>1, <1>4, <2>1 DEF Reports, Outcomes
<1> QED
  BY <1>2, <1>3, <1>4

(* A reserve matches one node only: a plan reserves a line once. *)
LEMMA ReserveNodesDiffer ==
  ASSUME NEW n \in 1..N, NEW m \in 1..N, NEW c \in Calls, Nodes[n].op = "reserve",
         n \in Reached[c], m \in Reached[c]
  PROVE  m = n
<1>1. Nodes[n].op = Nodes[m].op /\ Nodes[n].line = Nodes[m].line
  BY DEF Reached, Matches
<1>2. Nodes[n] = Nodes[m]
  BY <1>1, PlanFacts
<1> QED
  BY <1>2, PlanAssumption DEF PlanAssumption

LEMMA NodeOfReached ==
  ASSUME NEW c \in Calls, NEW n \in 1..N, n \in Reached[c]
  PROVE  NodeOf(c) \in Reached[c] /\ (n = Next1 => NodeOf(c) = n)
<1>1. CASE Next1 \in Reached[c]
  BY <1>1 DEF NodeOf
<1>2. CASE Next1 \notin Reached[c]
  <2>1. Reached[c] \in SUBSET Nat /\ Reached[c] # {}
    BY PlanFacts DEF Reached
  <2>2. \E i \in Reached[c] : \A j \in Reached[c] : i <= j
    BY <2>1, LeastIndex
  <2> QED
    BY <1>2, <2>1, <2>2 DEF NodeOf
<1> QED
  BY <1>1, <1>2

(* In a safe episode, only a canonical answer of a faulted node that has    *)
(* not been observed yet establishes its outcome, and it does unless the    *)
(* call was spelt otherwise.                                                *)
LEMMA FirstObservationEstablishes ==
  ASSUME RInv, SInv, WInv, ~ unsafe, NEW n \in DOMAIN plan, Reported(report[n]),
         report[n].first = "none", NEW c \in Calls, NEW e, e.node = NodeOf(c), e.call = c,
         e.replay = Replays(env, c)
  PROVE  /\ Establishes(n, e) => e.node = n /\ e.canonical
         /\ e.node = n /\ e.canonical =>
              \/ Establishes(n, e)
              \/ Outcome(n, e) = "respelt" /\ plan[n] # "wrong_unit"
<1>1. n \in 1..N /\ Schedulable(n, plan[n])
  BY FaultedNodes DEF SInv
<1>2. /\ report[n].call \in Calls /\ n \in Reached[report[n].call]
      /\ plan[n] = "ambiguous" => n <= Len(completed)
      /\ plan[n] # "ambiguous" => n = Next1
  BY DEF RInv, ReportFollows
<1>3. ASSUME plan[n] = "ambiguous", c = report[n].call
      PROVE  Replays(env, c)
  <2>1. Nodes[n].op = "reserve" /\ c.op = "reserve" /\ c.line = Nodes[n].line
    BY <1>1, <1>2, <1>3 DEF Schedulable, Reached, Matches
  <2>2. n <= Len(completed) /\ env = OracleState[Len(completed)]
    BY <1>2, <1>3 DEF SInv
  <2>3. Len(completed) \in 0..N
    BY PlanFacts DEF RInv, SInv
  <2>4. Nodes[n].line \in OracleReserved(Len(completed))
    <3>1. Nodes[n].line \in Lines /\ Nodes[n] = [op |-> "reserve", line |-> Nodes[n].line]
      BY <1>1, <2>1, PlanFacts, PlanAssumption DEF PlanAssumption
    <3>2. n \in 1..Len(completed)
      BY <1>1, <2>2, <2>3, PlanFacts
    <3> QED
      BY <3>1, <3>2 DEF OracleReserved
  <2> QED
    BY <2>1, <2>2, <2>3, <2>4, OracleStateFields DEF Replays
<1>4. ASSUME c = report[n].call PROVE e.node = n
  <2>1. NodeOf(c) \in Reached[c] /\ (n = Next1 => NodeOf(c) = n)
    BY <1>1, <1>2, <1>4, NodeOfReached
  <2>2. CASE plan[n] = "ambiguous"
    <3>1. Nodes[n].op = "reserve" /\ NodeOf(c) \in 1..N
      BY <1>1, <2>1, <2>2 DEF Schedulable, Reached
    <3> QED
      BY <1>1, <1>2, <1>4, <2>1, <3>1, ReserveNodesDiffer
  <2> QED
    BY <1>2, <2>1, <2>2
<1>5. CASE plan[n] = "wrong_unit"
  BY <1>5 DEF Establishes
<1>6. CASE plan[n] # "wrong_unit" /\ c = report[n].call
  BY <1>3, <1>4, <1>6 DEF Establishes
<1>7. CASE plan[n] # "wrong_unit" /\ c # report[n].call
  BY <1>7 DEF Establishes, Remedies, Outcome
<1> QED
  BY <1>5, <1>6, <1>7

(* The report of a node when an event neither fires its fault nor answers   *)
(* canonically: only the credits may have moved.                            *)
LEMMA UnansweredKeepsReport ==
  ASSUME RInv, SInv, NEW n \in DOMAIN plan, NEW e, e.call \in Calls, ~ e.canonical,
         ~ (e.node = n /\ e.fault # "none"), plan' = plan, Judge(e),
         fired'[n] = fired[n], completed' \in Seq(Nat),
         completed' = completed \/ (Len(completed') = Len(completed) + 1 /\ n # Next1)
  PROVE  ReportFollows(n)'
<1>1. /\ report'[n] = Judged(n, e) /\ report[n] \in Reports /\ ReportFollows(n)
      /\ n \in 1..N /\ Len(completed) \in Nat /\ (~ unsafe' => ~ unsafe)
  BY FaultedNodes DEF Judge, RInv, SInv
<1>2. ~ Establishes(n, e)
  BY DEF Establishes
<1>3. report'[n].call = report[n].call /\ report'[n].first = report[n].first
      /\ report'[n].establishing = report[n].establishing
  BY <1>1, <1>2, JudgedFields
<1>4. /\ n <= Len(completed) => n <= Len(completed')
      /\ n = Next1 => completed' = completed
  BY <1>1
<1> QED
  BY <1>1, <1>3, <1>4 DEF ReportFollows, Reported, Next1

(* The report of the node whose fault fires. *)
LEMMA FiringStartsReport ==
  ASSUME RInv, SInv, NEW n \in DOMAIN plan, NEW e, e.call \in Calls, e.node = n,
         e.fault # "none", NodeOf(e.call) = n, CreditEligible(n), plan' = plan, Judge(e),
         fired'[n] = decision, completed' \in Seq(Nat),
         IF plan[n] = "ambiguous" THEN Len(completed') = Len(completed) + 1
         ELSE completed' = completed
  PROVE  ReportFollows(n)'
<1>1. /\ report'[n] = Judged(n, e) /\ report[n] \in Reports /\ ReportFollows(n)
      /\ n \in 1..N /\ Len(completed) \in Nat /\ (~ unsafe' => ~ unsafe) /\ decision # 0
  BY FaultedNodes DEF Judge, RInv, SInv
<1>2. report'[n].call = e.call /\ report'[n].first = report[n].first
      /\ report'[n].establishing = report[n].establishing
  BY <1>1, JudgedFields
<1>3. e.call # NoReport.call /\ n \in Reached[e.call]
  <2>1. n # 0
    BY <1>1
  <2> QED
    BY <1>1, <2>1, CallsAreNamed, NodeOfMatches DEF Reached
<1>4. n = Len(completed) + 1
  BY DEF CreditEligible, Next1
<1> QED
  BY <1>1, <1>2, <1>3, <1>4 DEF ReportFollows, Reported, Next1

(* The report of a node when a call is answered. *)
LEMMA AnswerKeepsReport ==
  ASSUME RInv, SInv, WInv, NEW n \in DOMAIN plan, NEW e, e.call \in Calls,
         e.node = NodeOf(e.call), e.replay = Replays(env, e.call), e.fault = "none",
         e.canonical \in BOOLEAN, plan' = plan, Judge(e), fired'[n] = fired[n],
         completed' \in Seq(Nat),
         \/ completed' = completed
         \/ Len(completed') = Len(completed) + 1 /\ e.node = Next1 /\ e.canonical
  PROVE  ReportFollows(n)'
<1>1. /\ report'[n] = Judged(n, e) /\ report[n] \in Reports /\ ReportFollows(n)
      /\ n \in 1..N /\ Len(completed) \in Nat /\ (~ unsafe' => ~ unsafe)
  BY FaultedNodes DEF Judge, RInv, SInv
<1>2. CASE ~ Reported(report[n])
  <2>1. report'[n] = report[n]
    BY <1>1, <1>2, JudgedFields
  <2> QED
    BY <1>1, <1>2, <2>1 DEF ReportFollows, Reported
<1>3. CASE Reported(report[n])
  <2>1. /\ report'[n].establishing =
             IF report[n].establishing = "none" /\ Establishes(n, e)
             THEN Outcome(n, e) ELSE report[n].establishing
        /\ report'[n].first =
             IF report[n].first = "none" /\ e.node = n /\ e.canonical
             THEN Outcome(n, e) ELSE report[n].first
        /\ Outcome(n, e) # "none"
    BY <1>1, <1>3, JudgedFields DEF Outcome
  <2>2. report'[n].call = report[n].call
    BY <1>1, JudgedFields
  <2>3. plan[n] = "ambiguous" => n <= Len(completed')
    BY <1>1, <1>3 DEF ReportFollows
  <2>4. plan[n] # "ambiguous" /\ report'[n].first = "none" => n = Len(completed') + 1
    BY <1>1, <1>3, <2>1 DEF ReportFollows, Next1
  <2>5. ~ unsafe' => \/ report'[n].establishing = report'[n].first
                     \/ report'[n].first = "respelt" /\ plan[n] # "wrong_unit"
    <3> SUFFICES ASSUME ~ unsafe'
                 PROVE  \/ report'[n].establishing = report'[n].first
                        \/ report'[n].first = "respelt" /\ plan[n] # "wrong_unit"
      OBVIOUS
    <3>1. \/ report[n].establishing = report[n].first
          \/ report[n].first = "respelt" /\ plan[n] # "wrong_unit"
      BY <1>1 DEF ReportFollows
    <3>2. CASE report[n].first = "none"
      <4>1. /\ Establishes(n, e) => e.node = n /\ e.canonical
            /\ e.node = n /\ e.canonical =>
                 \/ Establishes(n, e)
                 \/ Outcome(n, e) = "respelt" /\ plan[n] # "wrong_unit"
        BY <1>1, <1>3, <3>2, FirstObservationEstablishes
      <4> QED
        BY <2>1, <3>1, <3>2, <4>1
    <3>3. CASE report[n].first # "none"
      BY <2>1, <3>1, <3>3
    <3> QED
      BY <3>2, <3>3
  <2> QED
    BY <1>1, <1>3, <2>2, <2>3, <2>4, <2>5 DEF ReportFollows, Reported, Next1
<1> QED
  BY <1>2, <1>3

LEMMA ReportsKeepShape ==
  ASSUME RInv, NEW e, e.call \in Calls, plan' = plan, Judge(e)
  PROVE  report' \in [DOMAIN plan' -> Reports]
<1>1. report' = [n \in DOMAIN plan |-> Judged(n, e)]
  BY DEF Judge
<1>2. \A n \in DOMAIN plan : Judged(n, e) \in Reports
  BY JudgedFields DEF RInv
<1> QED
  BY <1>1, <1>2

LEMMA RInvInit == Init => RInv
<1> SUFFICES ASSUME Init PROVE RInv
  OBVIOUS
<1>1. /\ fired = [i \in DOMAIN plan |-> 0] /\ report = [i \in DOMAIN plan |-> NoReport]
      /\ Len(completed) = 0 /\ decision = 1
  BY DEF Init
<1>2. NoReport \in Reports /\ ~ Reported(NoReport)
      /\ NoReport.establishing = NoReport.first
  BY DEF NoReport, Reports, Outcomes, Reported, Call
<1>3. \A n \in DOMAIN plan : ReportFollows(n)
  BY <1>1, <1>2 DEF ReportFollows
<1> QED
  BY <1>1, <1>2, <1>3, PlanFacts DEF RInv

LEMMA RInvStep ==
  RInv /\ SInv /\ SInv' /\ CInv /\ WInv /\ [Next]_vars => RInv'
<1> SUFFICES ASSUME RInv, SInv, SInv', CInv, WInv, [Next]_vars PROVE RInv'
  OBVIOUS
<1>1. ASSUME UNCHANGED <<completed, plan, fired, unsafe, report>>, decision' # 0
      PROVE  RInv'
  BY <1>1 DEF RInv, ReportFollows, Reported, Next1
<1>2. CASE UNCHANGED vars
  BY <1>1, <1>2 DEF vars, runtimeVars, verifierVars, RInv
<1>3. CASE BeginDecision
  BY <1>1, <1>3 DEF BeginDecision, verifierVars, RInv, CInv
<1>4. completed \in Seq(Nat) /\ completed' \in Seq(Nat) /\ decision \in Nat /\ decision # 0
  BY DEF SInv, CInv, RInv
<1>5. ASSUME NEW c \in Makeable, NEW echo \in Echoable, DispatchClean(c, echo)
      PROVE  RInv'
  <2> DEFINE i         == NodeOf(c)
             canonical == i > 0 /\ Reply(env, c) = Expect[i]
             credited  == canonical /\ CreditEligible(i)
             e         == Event(c, echo, "none", canonical, Mutates(env, c),
                                Replays(env, c), credited)
  <2>1. /\ UNCHANGED <<decision, plan, fired>> /\ Judge(e) /\ c \in Calls
        /\ completed' = IF credited THEN Append(completed, decision) ELSE completed
    BY <1>5 DEF DispatchClean, Makeable
  <2>2. /\ e.call = c /\ e.node = i /\ e.replay = Replays(env, c) /\ e.fault = "none"
        /\ e.canonical = canonical /\ e.canonical \in BOOLEAN
    BY DEF Event
  <2>3. credited => i = Next1 /\ i \in 1..N /\ canonical
    <3>1. Len(completed) + 1 # 0
      BY <1>4
    <3> QED
      BY <2>1, <3>1, NodeOfMatches DEF CreditEligible, Next1
  <2> HIDE DEF e, canonical, i
  <2>4. completed' = completed
          \/ (Len(completed') = Len(completed) + 1 /\ e.node = Next1 /\ e.canonical)
    BY <1>4, <2>1, <2>2, <2>3
  <2>5. Len(completed') <= N
    BY <1>4, <2>1, <2>3, PlanFacts DEF RInv, Next1
  <2>6. \A n \in DOMAIN plan : ReportFollows(n)'
    BY <1>4, <2>1, <2>2, <2>4, AnswerKeepsReport DEF i
  <2>7. report' \in [DOMAIN plan' -> Reports]
    BY <2>1, <2>2, ReportsKeepShape
  <2> QED
    BY <2>1, <2>5, <2>6, <2>7 DEF RInv
<1>6. ASSUME NEW c \in Makeable, NEW fault, DirectiveFor(c) = fault, fault # "none",
             fault # "rate_limit_active", Fire(c), NEW e, Judge(e), e.call = c,
             e.node = NodeOf(c), e.fault = fault, ~ e.canonical,
             IF fault = "ambiguous" THEN completed' = Append(completed, decision)
             ELSE completed' = completed
      PROVE  RInv'
  <2>1. PICK i \in DOMAIN plan : /\ i = NodeOf(c) /\ c \in Calls /\ i # 0
                                /\ CreditEligible(i) /\ plan[i] = fault
                                /\ fired' = [fired EXCEPT ![i] = decision]
                                /\ plan' = plan /\ decision' = decision
    <3>1. /\ NodeOf(c) \in DOMAIN plan /\ plan[NodeOf(c)] = fault /\ CreditEligible(NodeOf(c))
      BY <1>6 DEF DirectiveFor, Directive
    <3>2. NodeOf(c) # 0
      BY <3>1, FaultedNodes DEF SInv
    <3>3. /\ fired' = [fired EXCEPT ![NodeOf(c)] = decision] /\ plan' = plan
          /\ decision' = decision /\ c \in Calls
      BY <1>6 DEF Fire, Makeable
    <3> QED
      BY <3>1, <3>2, <3>3
  <2>2. i \in 1..N /\ i = Next1
    BY <2>1, NodeOfMatches DEF CreditEligible
  <2>3. Len(completed') <= N
    BY <1>4, <1>6, <2>2, PlanFacts DEF RInv, Next1
  <2>4. fired' \in [DOMAIN plan' -> Nat]
        /\ \A n \in DOMAIN plan : fired'[n] = IF n = i THEN decision ELSE fired[n]
    BY <1>4, <2>1 DEF RInv
  <2>5. ReportFollows(i)'
    <3>1. IF plan[i] = "ambiguous" THEN Len(completed') = Len(completed) + 1
          ELSE completed' = completed
      BY <1>4, <1>6, <2>1
    <3> QED
      BY <1>4, <1>6, <2>1, <2>4, <3>1, FiringStartsReport
  <2>6. ASSUME NEW n \in DOMAIN plan, n # i PROVE ReportFollows(n)'
    <3>1. completed' = completed \/ (Len(completed') = Len(completed) + 1 /\ n # Next1)
      BY <1>4, <1>6, <2>2, <2>6
    <3> QED
      BY <1>4, <1>6, <2>1, <2>4, <2>6, <3>1, UnansweredKeepsReport
  <2>7. report' \in [DOMAIN plan' -> Reports]
    BY <1>6, <2>1, ReportsKeepShape
  <2> QED
    BY <1>4, <2>1, <2>3, <2>4, <2>5, <2>6, <2>7 DEF RInv
<1>7. ASSUME NEW c \in Makeable, NEW echo \in Echoable, DispatchSpoiled(c, echo)
      PROVE  RInv'
  <2> DEFINE e == Event(c, echo, DirectiveFor(c), FALSE, FALSE, FALSE, FALSE)
  <2>1. Judge(e) /\ Fire(c) /\ completed' = completed
        /\ DirectiveFor(c) \in {"transient", "rate_limit", "wrong_unit", "malformed"}
    BY <1>7 DEF DispatchSpoiled
  <2>2. e.call = c /\ e.node = NodeOf(c) /\ e.fault = DirectiveFor(c) /\ ~ e.canonical
    BY DEF Event
  <2> HIDE DEF e
  <2> QED
    BY <1>6, <2>1, <2>2
<1>8. ASSUME NEW c \in Makeable, NEW echo \in Echoable, DispatchLimited(c, echo)
      PROVE  RInv'
  <2> DEFINE e == Event(c, echo, "none", FALSE, FALSE, FALSE, FALSE)
  <2>1. Judge(e) /\ UNCHANGED <<decision, completed, plan, fired>> /\ c \in Calls
    BY <1>8 DEF DispatchLimited, runtimeVars, Makeable
  <2>2. e.call = c /\ e.fault = "none" /\ ~ e.canonical
    BY DEF Event
  <2> HIDE DEF e
  <2>3. \A n \in DOMAIN plan : ReportFollows(n)'
    BY <1>4, <2>1, <2>2, UnansweredKeepsReport
  <2>4. report' \in [DOMAIN plan' -> Reports]
    BY <2>1, <2>2, ReportsKeepShape
  <2> QED
    BY <2>1, <2>3, <2>4 DEF RInv
<1>9. ASSUME NEW c \in Makeable, NEW echo \in Echoable, DispatchAmbiguous(c, echo)
      PROVE  RInv'
  <2> DEFINE e == Event(c, echo, "ambiguous", FALSE, Mutates(env, c), Replays(env, c), TRUE)
  <2>1. Judge(e) /\ Fire(c) /\ completed' = Append(completed, decision)
        /\ DirectiveFor(c) = "ambiguous"
    BY <1>9 DEF DispatchAmbiguous
  <2>2. e.call = c /\ e.node = NodeOf(c) /\ e.fault = "ambiguous" /\ ~ e.canonical
    BY DEF Event
  <2> HIDE DEF e
  <2> QED
    BY <1>6, <2>1, <2>2
<1> QED
  BY <1>2, <1>3, <1>5, <1>7, <1>8, <1>9 DEF Next

LEMMA RInvAlways == Spec => []RInv
<1>1. Init => CInv
  BY DEF Init, CInv, CreditsCrossDecisions
<1>2. Init => RInv
  BY RInvInit
<1> QED
  BY <1>1, <1>2, CInvStep, RInvStep, SInvAlways, EpisodeKeepsWInv, PTL DEF Spec

(* In a safe episode a certified recovery is an earned one: the first       *)
(* canonical answer after the fault came from the registered remediation,   *)
(* unless it was asked for in another spelling than the faulted call's      *)
(* (which a wrong unit does not forgive), for any plan, any fault, any      *)
(* spellings and any agent.                                                 *)
THEOREM RecoveryIsEarned == Spec => []EarnedRecovery
<1>1. RInv => EarnedRecovery
  BY DEF RInv, ReportFollows, EarnedRecovery, Recovered
<1> QED
  BY <1>1, RInvAlways, PTL

-----------------------------------------------------------------------------
(* The bookkeeping of runtime and verifier keeps its shape. *)
TInv ==
  /\ decision \in Nat \ {0}
  /\ completed \in Seq(Nat \ {0})
  /\ recomputed \in Seq(Nat \ {0}) /\ Len(recomputed) <= N
  /\ fired \in [DOMAIN plan -> 0..decision]

LEMMA RecomputeKeepsShape ==
  ASSUME TInv, NEW c \in Calls, NEW e, e.node = NodeOf(c), Judge(e)
  PROVE  recomputed' \in Seq(Nat \ {0}) /\ Len(recomputed') <= N
<1>1. /\ recomputed \in Seq(Nat \ {0}) /\ Len(recomputed) \in Nat /\ Len(recomputed) <= N
      /\ decision \in Nat \ {0}
  BY DEF TInv
<1>2. CASE recomputed' = recomputed
  BY <1>1, <1>2
<1>3. CASE recomputed' = Append(recomputed, decision) /\ e.node = Len(recomputed) + 1
  <2>1. NodeOf(c) = Len(recomputed) + 1 /\ NodeOf(c) # 0
    BY <1>1, <1>3
  <2>2. Len(recomputed) + 1 \in 1..N
    BY <2>1, NodeOfMatches
  <2> QED
    BY <1>1, <1>3, <2>2, PlanFacts
<1> QED
  BY <1>2, <1>3 DEF Judge, Recompute

LEMMA TInvStep == TInv /\ SInv /\ [Next]_vars => TInv'
<1> SUFFICES ASSUME TInv, SInv, [Next]_vars PROVE TInv'
  OBVIOUS
<1>1. CASE UNCHANGED vars
  BY <1>1 DEF vars, runtimeVars, verifierVars, TInv
<1>2. CASE BeginDecision
  <2>1. 0..decision \subseteq 0..(decision + 1)
    BY DEF TInv
  <2>2. fired \in [DOMAIN plan -> 0..(decision + 1)]
    BY <2>1 DEF TInv
  <2> QED
    BY <1>2, <2>2 DEF BeginDecision, verifierVars, TInv
<1>3. ASSUME NEW c \in Makeable, decision' = decision, plan' = plan,
             completed' = completed \/ completed' = Append(completed, decision),
             fired' = fired \/ (DirectiveFor(c) \notin {"none", "rate_limit_active"} /\ Fire(c)),
             NEW e, e.node = NodeOf(c), Judge(e)
      PROVE  TInv'
  <2>1. c \in Calls
    BY DEF Makeable
  <2>2. recomputed' \in Seq(Nat \ {0}) /\ Len(recomputed') <= N
    BY <1>3, <2>1, RecomputeKeepsShape
  <2>3. completed' \in Seq(Nat \ {0})
    <3>1. decision \in Nat \ {0} /\ completed \in Seq(Nat \ {0})
      BY DEF TInv
    <3>2. Append(completed, decision) \in Seq(Nat \ {0})
      BY <3>1, AppendProperties
    <3> QED
      BY <1>3, <3>1, <3>2
  <2>4. fired' \in [DOMAIN plan' -> 0..decision']
    BY <1>3 DEF TInv, Fire
  <2> QED
    BY <1>3, <2>2, <2>3, <2>4 DEF TInv
<1>4. ASSUME NEW c \in Makeable, NEW echo \in Echoable, DispatchClean(c, echo)
      PROVE  TInv'
  <2>1. \E e : e.node = NodeOf(c) /\ Judge(e)
    BY <1>4 DEF DispatchClean, Event
  <2> QED
    BY <1>3, <1>4, <2>1 DEF DispatchClean
<1>5. ASSUME NEW c \in Makeable, NEW echo \in Echoable, DispatchSpoiled(c, echo)
      PROVE  TInv'
  <2>1. \E e : e.node = NodeOf(c) /\ Judge(e)
    BY <1>5 DEF DispatchSpoiled, Event
  <2>2. decision' = decision /\ plan' = plan /\ completed' = completed
        /\ DirectiveFor(c) \notin {"none", "rate_limit_active"} /\ Fire(c)
    BY <1>5 DEF DispatchSpoiled, Fire
  <2> QED
    BY <1>3, <2>1, <2>2
<1>6. ASSUME NEW c \in Makeable, NEW echo \in Echoable, DispatchLimited(c, echo)
      PROVE  TInv'
  <2>1. \E e : e.node = NodeOf(c) /\ Judge(e)
    BY <1>6 DEF DispatchLimited, Event
  <2> QED
    BY <1>3, <1>6, <2>1 DEF DispatchLimited, runtimeVars
<1>7. ASSUME NEW c \in Makeable, NEW echo \in Echoable, DispatchAmbiguous(c, echo)
      PROVE  TInv'
  <2>1. \E e : e.node = NodeOf(c) /\ Judge(e)
    BY <1>7 DEF DispatchAmbiguous, Event
  <2>2. decision' = decision /\ plan' = plan /\ completed' = Append(completed, decision)
        /\ DirectiveFor(c) \notin {"none", "rate_limit_active"} /\ Fire(c)
    BY <1>7 DEF DispatchAmbiguous, Fire
  <2> QED
    BY <1>3, <2>1, <2>2
<1> QED
  BY <1>1, <1>2, <1>4, <1>5, <1>6, <1>7 DEF Next

(* Types of an episode, for any plan: credits stay within the plan, and a   *)
(* fault has a report exactly once it has fired.                            *)
THEOREM EpisodeType == Spec => []EpisodeTypeOK
<1>1. Init => TInv
  <2> SUFFICES ASSUME Init PROVE TInv
    OBVIOUS
  <2>1. <<>> \in Seq(Nat \ {0}) /\ Len(<<>>) = 0
    OBVIOUS
  <2>2. fired = [i \in DOMAIN plan |-> 0] /\ decision = 1 /\ completed = <<>> /\ recomputed = <<>>
    BY DEF Init
  <2>3. fired \in [DOMAIN plan -> 0..decision]
    BY <2>2
  <2> QED
    BY <2>1, <2>2, <2>3, PlanFacts DEF TInv
<1>2. TInv /\ RInv /\ SInv /\ WInv => EpisodeTypeOK
  <2> SUFFICES ASSUME TInv, RInv, SInv, WInv PROVE EpisodeTypeOK
    OBVIOUS
  <2>1. \A n \in DOMAIN plan : Reported(report[n]) <=> fired[n] > 0
    BY DEF RInv, ReportFollows
  <2> QED
    BY <2>1 DEF TInv, RInv, SInv, WInv, EpisodeTypeOK
<1> QED
  BY <1>1, <1>2, TInvStep, RInvAlways, SInvAlways, EpisodeKeepsWInv, PTL DEF Spec

-----------------------------------------------------------------------------
(***************************************************************************)
(* The scripted oracle.  Each of its calls either completes a node or fires *)
(* a fault, and no fault fires twice, so the decisions it has begun count   *)
(* the nodes behind it and the faults fired.                                *)
(***************************************************************************)
FiredFaults == {n \in DOMAIN plan : fired[n] # 0}

BInv ==
  /\ plan \in Plans
  /\ decision \in Nat \ {0}
  /\ fired \in [DOMAIN plan -> Nat]
  /\ at \in 1..(N + 1)
  /\ phase \in {"decide", "act", "stop"}
  /\ phase # "stop" => at <= N
  /\ decision = (IF phase = "act" THEN at ELSE at - 1) + Cardinality(FiredFaults)

LEMMA FiredFaultsFinite ==
  ASSUME plan \in Plans
  PROVE  /\ IsFiniteSet(FiredFaults) /\ Cardinality(FiredFaults) \in Nat
         /\ IsFiniteSet(DOMAIN plan) /\ Cardinality(DOMAIN plan) \in Nat
         /\ Cardinality(FiredFaults) <= Cardinality(DOMAIN plan)
         /\ Cardinality(DOMAIN plan) <= N
<1>1. IsFiniteSet(1..N) /\ Cardinality(1..N) = N
  BY FS_Interval, PlanFacts
<1>2. DOMAIN plan \in SUBSET (1..N)
  BY PlanAssumption DEF PlanAssumption
<1>3. IsFiniteSet(DOMAIN plan) /\ Cardinality(DOMAIN plan) <= N
  BY <1>1, <1>2, FS_Subset
<1>4. FiredFaults \in SUBSET (DOMAIN plan)
  BY DEF FiredFaults
<1> QED
  BY <1>3, <1>4, FS_Subset, FS_CardinalityType

(* Firing a fault fires one more. *)
LEMMA RetryFiresOne ==
  ASSUME BInv, NEW c, DirectiveFor(c) \notin {"none", "rate_limit_active"}, Fire(c)
  PROVE  /\ fired' \in [DOMAIN plan -> Nat] /\ plan' = plan /\ decision' = decision
         /\ Cardinality(FiredFaults') = Cardinality(FiredFaults) + 1
<1>1. PICK i \in DOMAIN plan : i = NodeOf(c) /\ fired[i] = 0
  BY DEF DirectiveFor, Directive
<1>2. fired' = [fired EXCEPT ![i] = decision] /\ plan' = plan /\ decision' = decision
  BY <1>1 DEF Fire
<1>3. FiredFaults' = FiredFaults \cup {i} /\ i \notin FiredFaults
  BY <1>1, <1>2 DEF FiredFaults, BInv
<1>4. fired' \in [DOMAIN plan -> Nat]
  BY <1>2 DEF BInv
<1> QED
  BY <1>2, <1>3, <1>4, FiredFaultsFinite, FS_AddElement DEF BInv

LEMMA BInvStep == BInv /\ [OracleNext]_oracleVars => BInv'
<1> SUFFICES ASSUME BInv, [OracleNext]_oracleVars PROVE BInv'
  OBVIOUS
<1> DEFINE k == Cardinality(FiredFaults)
<1>1. k \in Nat /\ N \in Nat /\ at \in Nat
  BY FiredFaultsFinite, PlanFacts DEF BInv
<1>2. CASE UNCHANGED oracleVars
  BY <1>2 DEF oracleVars, vars, runtimeVars, BInv, FiredFaults
<1>3. CASE OracleDecide
  <2>1. /\ UNCHANGED <<plan, fired, at>> /\ decision' = decision + 1
        /\ phase = "decide" /\ phase' = "act"
    BY <1>3 DEF OracleDecide, BeginDecision
  <2>2. FiredFaults' = FiredFaults
    BY <2>1 DEF FiredFaults
  <2> QED
    BY <1>1, <2>1, <2>2 DEF BInv
<1>4. CASE OracleAdvances
  <2>1. /\ UNCHANGED <<plan, fired, decision>> /\ at' = at + 1
        /\ phase = "act" /\ phase' = IF at = N THEN "stop" ELSE "decide"
    BY <1>4 DEF OracleAdvances, DispatchClean
  <2>2. FiredFaults' = FiredFaults
    BY <2>1 DEF FiredFaults
  <2>3. at' \in 1..(N + 1) /\ (phase' # "stop" => at' <= N)
    BY <1>1, <2>1 DEF BInv
  <2> QED
    BY <1>1, <2>1, <2>2, <2>3 DEF BInv
<1>5. CASE OracleRetries
  <2> DEFINE c == OracleCall[at]
  <2>1. /\ DirectiveFor(c) \notin {"none", "rate_limit_active"} /\ Fire(c)
        /\ at' = at /\ phase = "act" /\ phase' \in {"stop", "decide"}
    BY <1>5 DEF OracleRetries, DispatchSpoiled, DispatchAmbiguous, Retry
  <2> HIDE DEF c
  <2>2. /\ fired' \in [DOMAIN plan -> Nat] /\ plan' = plan /\ decision' = decision
        /\ Cardinality(FiredFaults') = k + 1
    BY <2>1, RetryFiresOne
  <2> HIDE DEF k
  <2>3. decision = at + k
    BY <2>1 DEF BInv, k
  <2>4. decision' = (at' - 1) + Cardinality(FiredFaults')
    BY <1>1, <2>1, <2>2, <2>3
  <2> QED
    BY <2>1, <2>2, <2>4 DEF BInv
<1> QED
  BY <1>2, <1>3, <1>4, <1>5 DEF OracleNext

(* For every plan and every way to place its faults, the oracle stays       *)
(* within the decisions and the calls that an agent is allowed: a budget    *)
(* too small for the task itself would fail every agent.                    *)
THEOREM OracleStaysWithinBudget == OracleSpec => []OracleWithinBudget
<1>1. OracleInit => BInv
  <2> SUFFICES ASSUME OracleInit PROVE BInv
    OBVIOUS
  <2>1. /\ plan \in Plans /\ decision = 1 /\ fired = [i \in DOMAIN plan |-> 0]
        /\ at = 1 /\ phase = "act"
    BY DEF OracleInit, Init
  <2>2. FiredFaults = {} /\ Cardinality({}) = 0
    BY <2>1, FS_EmptySet DEF FiredFaults
  <2>3. 1 <= N
    <3>1. OracleState[N].status = "complete" /\ N \in 0..N /\ N \in Nat
      BY PlanFacts, OraclePlanOK DEF OraclePlanOK
    <3>2. \E j \in 1..N : Nodes[j].op = "finalize"
      BY <3>1, OracleStateFields
    <3> QED
      BY <3>1, <3>2
  <2> QED
    BY <2>1, <2>2, <2>3, PlanFacts DEF BInv
<1>2. BInv => OracleWithinBudget
  <2> SUFFICES ASSUME BInv PROVE OracleWithinBudget
    OBVIOUS
  <2> DEFINE k == Cardinality(FiredFaults)
             faults == Cardinality(DOMAIN plan)
  <2>1. k \in Nat /\ faults \in Nat /\ k <= faults /\ faults <= N /\ N \in Nat
    BY FiredFaultsFinite, PlanFacts DEF BInv
  <2>2. faults <= 2
    BY FaultsAssumption DEF BInv
  <2>3. decision \in Nat /\ decision <= N + k
    <3> HIDE DEF k
    <3>1. /\ at \in 1..(N + 1) /\ decision \in Nat
          /\ phase = "act" => at <= N /\ decision = at + k
          /\ phase # "act" => decision = (at - 1) + k
      BY DEF BInv, k
    <3> QED
      BY <2>1, <3>1
  <2>4. DecisionBudget = N + (IF faults = 0 THEN 3 ELSE IF faults = 1 THEN 5 ELSE 8)
    BY DEF DecisionBudget
  <2> HIDE DEF k, faults
  <2> QED
    BY <2>1, <2>2, <2>3, <2>4 DEF OracleWithinBudget, CallBudget
<1> QED
  BY <1>1, <1>2, BInvStep, PTL DEF OracleSpec

-----------------------------------------------------------------------------
(* The permutation control of the suite.  Its order is drawn once and is a  *)
(* permutation of the tasks (Permutes); each task is then given the answer  *)
(* of the one that follows it in that order (DerangedSoFar).                *)
Permutes(o, n) ==
  /\ o \in [1..n -> 1..n]
  /\ \A a, b \in 1..n : o[a] = o[b] => a = b

DerangedSoFar ==
  /\ Len(moved) \in Nat /\ DOMAIN moved = 1..Len(moved)
  /\ \A i \in DOMAIN moved : moved[i] = Moved(i)
  /\ order = <<>> => moved = <<>>
  /\ order # <<>> =>
       \E n \in Nat : /\ Permutes(order, n) /\ Len(order) = n
                      /\ DOMAIN moved \subseteq 1..n
                      /\ n < 2 => stage = "refused" /\ moved = <<>>

(* In a permutation of at least two tasks every task has a donor: the one   *)
(* after it, or the first one for the last.                                 *)
LEMMA DonorsDiffer ==
  ASSUME NEW n \in Nat, n >= 2, Permutes(order, n), Len(order) = n
  PROVE  \A i \in 1..n : /\ DonorOf(i) \in 1..n /\ DonorOf(i) # i
                         /\ \A j \in 1..n : DonorOf(i) = DonorOf(j) => i = j
<1>1. order \in Surjection(1..n, 1..n)
  <2>1. IsFiniteSet(1..n)
    <3>1. 1 \in Int /\ n \in Int
      OBVIOUS
    <3> QED
      BY <3>1, FS_Interval
  <2>2. order \in Injection(1..n, 1..n)
    BY DEF Permutes, Injection, IsInjective
  <2> QED
    BY <2>1, <2>2, FS_Injection
<1>2. /\ order \in [1..n -> 1..n] /\ DOMAIN order = 1..n
      /\ \A a, b \in 1..n : order[a] = order[b] => a = b
      /\ \A i \in 1..n : \E k \in 1..n : order[k] = i
  BY <1>1 DEF Permutes, Surjection
<1> DEFINE At(i) == CHOOSE k \in DOMAIN order : order[k] = i
           Follow(k) == (k % n) + 1
<1>3. \A i \in 1..n : At(i) \in 1..n /\ order[At(i)] = i
  BY <1>2
<1>4. \A k \in 1..n : Follow(k) = IF k = n THEN 1 ELSE k + 1
  <2> SUFFICES ASSUME NEW k \in 1..n PROVE Follow(k) = IF k = n THEN 1 ELSE k + 1
    OBVIOUS
  <2>1. CASE k = n
    <3>1. n % n = 0
      OBVIOUS
    <3> QED
      BY <2>1, <3>1
  <2>2. CASE k # n
    <3>1. k % n = k
      BY <2>2
    <3> QED
      BY <2>2, <3>1
  <2> QED
    BY <2>1, <2>2
<1>5. /\ \A k \in 1..n : Follow(k) \in 1..n /\ Follow(k) # k
      /\ \A k, l \in 1..n : Follow(k) = Follow(l) => k = l
  <2> HIDE DEF Follow
  <2> QED
    BY <1>4
<1>6. \A i \in 1..n : DonorOf(i) = order[Follow(At(i))]
  BY DEF DonorOf
<1> HIDE DEF At, Follow
<1> SUFFICES ASSUME NEW i \in 1..n
             PROVE  /\ DonorOf(i) \in 1..n /\ DonorOf(i) # i
                    /\ \A j \in 1..n : DonorOf(i) = DonorOf(j) => i = j
  OBVIOUS
<1>7. DonorOf(i) \in 1..n /\ DonorOf(i) # i
  <2>1. At(i) \in 1..n /\ order[At(i)] = i /\ Follow(At(i)) \in 1..n /\ Follow(At(i)) # At(i)
    BY <1>3, <1>5
  <2>2. DonorOf(i) = order[Follow(At(i))]
    BY <1>6
  <2>3. order[Follow(At(i))] \in 1..n /\ order[Follow(At(i))] # order[At(i)]
    BY <1>2, <2>1
  <2> QED
    BY <2>1, <2>2, <2>3
<1>8. ASSUME NEW j \in 1..n, DonorOf(i) = DonorOf(j) PROVE i = j
  <2>1. At(i) \in 1..n /\ order[At(i)] = i /\ At(j) \in 1..n /\ order[At(j)] = j
    BY <1>3
  <2>2. Follow(At(i)) \in 1..n /\ Follow(At(j)) \in 1..n
        /\ order[Follow(At(i))] = order[Follow(At(j))]
    BY <1>5, <1>6, <1>8, <2>1
  <2>3. Follow(At(i)) = Follow(At(j))
    BY <1>2, <2>2
  <2>4. At(i) = At(j)
    BY <1>5, <2>1, <2>3
  <2> QED
    BY <2>1, <2>4
<1> QED
  BY <1>7, <1>8

(* The order that is drawn is a permutation, whichever way it is drawn. *)
LEMMA ShuffledPermutes ==
  ASSUME NEW n \in Nat, NEW o \in Shuffled(n)
  PROVE  Permutes(o, n) /\ Len(o) = n
<1>1. Cardinality(1..n) = n
  <2>1. 1 \in Int /\ n \in Int
    OBVIOUS
  <2> QED
    BY <2>1, FS_Interval
<1>2. CASE n <= MaxShuffle
  <2>1. o \in SetToSeqs(1..n)
    BY <1>2 DEF Shuffled
  <2>2. /\ o \in [1..n -> 1..n]
        /\ \A i, j \in 1..n : i # j => o[i] # o[j]
    BY <1>1, <2>1 DEF SetToSeqs
  <2> QED
    BY <2>2 DEF Permutes
<1>3. CASE ~ (n <= MaxShuffle)
  <2>1. o = [i \in 1..n |-> i]
    BY <1>3 DEF Shuffled
  <2> QED
    BY <2>1 DEF Permutes
<1> QED
  BY <1>2, <1>3

LEMMA DerangedSoFarInit == SuiteInit => DerangedSoFar
  BY DEF SuiteInit, DerangedSoFar

(* The tasks of the control are the two cells of eval_perm. *)
LEMMA ControlSize ==
  ASSUME scale \in Scales
  PROVE  scale["eval_perm"] * Len(CellsOf("eval_perm")) \in Nat
<1>1. Len(CellsOf("eval_perm")) \in Nat
  BY DEF CellsOf
<1>2. scale["eval_perm"] \in Nat
  <2>1. 10 \in DOMAIN SplitOrder /\ SplitOrder[10] = "eval_perm"
    BY DEF SplitOrder
  <2> QED
    BY <2>1, SuiteAssumption DEF SuiteAssumption
<1> QED
  BY <1>1, <1>2

LEMMA DerangedSoFarStep ==
  DerangedSoFar /\ scale \in Scales /\ [SuiteNext]_suiteVars
    => DerangedSoFar' /\ scale' \in Scales
<1> SUFFICES ASSUME DerangedSoFar, scale \in Scales, [SuiteNext]_suiteVars
             PROVE  DerangedSoFar' /\ scale' \in Scales
  OBVIOUS
<1>0. scale' = scale
  BY DEF SuiteNext, suiteVars, PlaceFault, FinishTask, Shuffle, Derange, CheckSplit, SettlePhase
<1>1. CASE Shuffle
  <2> DEFINE n == scale["eval_perm"] * Len(CellsOf("eval_perm"))
  <2>1. /\ order' \in Shuffled(n) /\ moved' = <<>>
        /\ stage = "derange" /\ stage' = IF n < 2 THEN "refused" ELSE stage
    BY <1>1 DEF Shuffle
  <2>2. n \in Nat
    BY ControlSize
  <2> HIDE DEF n
  <2>3. Permutes(order', n) /\ Len(order') = n
    BY <2>1, <2>2, ShuffledPermutes
  <2> QED
    BY <1>0, <2>1, <2>2, <2>3 DEF DerangedSoFar
<1>2. CASE Derange
  <2> DEFINE k == Len(moved) + 1
  <2>1. /\ stage = "derange" /\ k <= Len(order)
        /\ moved' = Append(moved, Moved(k)) /\ order' = order
    BY <1>2 DEF Derange
  <2>2. order # <<>>
    BY <2>1 DEF DerangedSoFar
  <2>3. PICK n \in Nat : /\ Permutes(order, n) /\ Len(order) = n
                         /\ DOMAIN moved \subseteq 1..n
                         /\ n < 2 => stage = "refused" /\ moved = <<>>
    BY <2>2 DEF DerangedSoFar
  <2>4. n >= 2 /\ k \in 1..n
    BY <2>1, <2>3 DEF DerangedSoFar
  <2>5. /\ DOMAIN moved' = 1..k /\ Len(moved') = k
        /\ moved'[k] = Moved(k) /\ \A i \in 1..Len(moved) : moved'[i] = moved[i]
    BY <2>1 DEF DerangedSoFar
  <2>6. \A i \in DOMAIN moved' : moved'[i] = Moved(i)'
    <3>1. \A i : Moved(i)' = Moved(i)
      BY <2>1 DEF Moved, DonorOf
    <3>2. \A i \in 1..Len(moved) : moved[i] = Moved(i)
      BY DEF DerangedSoFar
    <3>3. 1..k = 1..Len(moved) \cup {k}
      BY DEF DerangedSoFar
    <3> HIDE DEF k
    <3> QED
      BY <2>5, <3>1, <3>2, <3>3
  <2> QED
    BY <1>0, <2>1, <2>2, <2>3, <2>4, <2>5, <2>6 DEF DerangedSoFar
<1>3. CASE UNCHANGED <<order, moved>> /\ (stage = "refused" => stage' = "refused")
  BY <1>0, <1>3 DEF DerangedSoFar, Moved, DonorOf
<1> QED
  BY <1>1, <1>2, <1>3 DEF SuiteNext, suiteVars, PlaceFault, FinishTask, CheckSplit, SettlePhase

LEMMA DerangedSoFarAlways == SuiteSpec => []DerangedSoFar
<1> DEFINE DInv == DerangedSoFar /\ scale \in Scales
<1>1. SuiteInit => DInv
  BY DerangedSoFarInit DEF SuiteInit
<1>2. DInv /\ [SuiteNext]_suiteVars => DInv'
  BY DerangedSoFarStep
<1>3. DInv => DerangedSoFar
  OBVIOUS
<1> QED
  BY <1>1, <1>2, <1>3, PTL DEF SuiteSpec

(* The permutation control (apply_derangement): at any size, and while it   *)
(* is being written, each task that has been moved holds the answer another *)
(* task had, its terminal record agrees, and no answer is given twice.      *)
AnswersMoved ==
  \A i \in DOMAIN moved :
    /\ moved[i].donor # i /\ moved[i].answer # moved[i].original
    /\ moved[i].record = moved[i].answer
    /\ \A j \in DOMAIN moved : i # j => moved[i].answer # moved[j].answer

(* The control of apply_derangement is a derangement at every size of the   *)
(* suite and for every order the seed can draw: what its comment calls "a   *)
(* property of the artifact".                                               *)
THEOREM ControlIsDeranged == SuiteSpec => []AnswersMoved
<1>1. DerangedSoFar => AnswersMoved
  <2> SUFFICES ASSUME DerangedSoFar, moved # <<>> PROVE AnswersMoved
    BY DEF DerangedSoFar, AnswersMoved
  <2>1. PICK n \in Nat : /\ Permutes(order, n) /\ Len(order) = n /\ n >= 2
                         /\ DOMAIN moved \subseteq 1..n
    BY DEF DerangedSoFar
  <2>2. \A i \in 1..n : /\ DonorOf(i) # i
                         /\ \A j \in 1..n : DonorOf(i) = DonorOf(j) => i = j
    BY <2>1, DonorsDiffer
  <2>3. \A i \in DOMAIN moved : moved[i] = Moved(i)
    BY DEF DerangedSoFar
  <2> QED
    BY <2>1, <2>2, <2>3 DEF AnswersMoved, Moved
<1> QED
  BY <1>1, DerangedSoFarAlways, PTL

(* The generator's "derangement fixed point" error (generate.py:737) cannot *)
(* be raised: once the order is drawn, no step of the control refuses.      *)
THEOREM NoFixedPoint == SuiteSpec => [][Derange => stage' # "refused"]_suiteVars
<1>1. ASSUME DerangedSoFar, Derange PROVE stage' # "refused"
  <2> DEFINE k == Len(moved) + 1
  <2>1. /\ stage = "derange" /\ k <= Len(order) /\ order # <<>> /\ k \in Nat /\ k >= 1
        /\ stage' = IF DonorOf(k) = k THEN "refused"
                    ELSE IF k = Len(order) THEN "check" ELSE stage
    BY <1>1 DEF Derange, DerangedSoFar
  <2>2. PICK n \in Nat : Permutes(order, n) /\ Len(order) = n /\ n >= 2
    BY <1>1, <2>1 DEF DerangedSoFar
  <2>3. DonorOf(k) # k
    <3>1. k \in 1..n
      BY <2>1, <2>2
    <3> HIDE DEF k
    <3> QED
      BY <2>2, <3>1, DonorsDiffer
  <2> QED
    BY <2>1, <2>3
<1>2. DerangedSoFar => [Derange => stage' # "refused"]_suiteVars
  BY <1>1
<1> QED
  BY <1>2, DerangedSoFarAlways, PTL
=============================================================================
