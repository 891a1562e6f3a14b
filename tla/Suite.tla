------------------------------- MODULE Suite --------------------------------
(***************************************************************************)
(* The suite generator (suite/generate.py and the family grammars under    *)
(* suite/envs) and the validator's checks of what it built                 *)
(* (scripts/validate_suite.py).  The generator builds the registered       *)
(* splits task by task: the grammar gives the plan of required calls, the  *)
(* registered tables give the faults, a seeded draw places each fault on a *)
(* call that can carry it, and the permutation control then moves every    *)
(* answer to another task.  A table the grammars cannot satisfy shows only *)
(* when a build refuses, or when the validator rejects what was built.     *)
(*                                                                         *)
(* A draw is nondeterminism when it decides something (the node a fault    *)
(* lands on, the order of the derangement) and left out when it does not   *)
(* (keys, numbers, prompt wordings).  Of the tasks already built only what *)
(* the registered counts read is kept.                                     *)
(***************************************************************************)
EXTENDS Integers, Sequences, FiniteSets, SequencesExt
LOCAL INSTANCE BagsExt

CONSTANTS
  Scales,      \* the sizes a build may have: specs per cell of each split
  MaxShuffle   \* bound: a longer permutation control takes one order only

VARIABLES
  scale,     \* the sizes of this build
  split,     \* the split being built, by its place in SplitOrder
  cell,      \* the cell being built, by its place in CellsOf
  index,     \* the task of the cell
  waiting,   \* the faults of the task still to place, most constrained first
  taken,     \* the faults placed: the node of each
  tally,     \* what the registered counts read of the tasks built so far
  order,     \* the shuffled order of the derangement
  moved,     \* the tasks of the permutation control
  stage      \* "build", "derange", "check", "settle", "done"; "refused"

suiteVars == <<scale, split, cell, index, waiting, taken, tally, order, moved, stage>>

-----------------------------------------------------------------------------
(* The registered splits and cells.                                        *)
NoPattern == -1

Cell(f, h)  == [family |-> f, horizon |-> h, pattern |-> NoPattern, absent |-> FALSE]
MTCell(p)   == [Cell("typed_relay", 4) EXCEPT !.pattern = p]
AbsentRelay == [Cell("typed_relay", 4) EXCEPT !.absent = TRUE]

HorizonsOf(f) == IF f = "fulfillment" THEN <<4, 8, 14, 20>> ELSE <<2, 4, 8, 12>>
CellsIn(f)    == [i \in 1..4 |-> Cell(f, HorizonsOf(f)[i])]
PrimaryCells  == CellsIn("lookup_chain") \o CellsIn("typed_relay") \o CellsIn("fulfillment")

SplitOrder == <<"oracle_sft", "distill", "grpo_train", "dev",
                "eval", "eval_stress", "eval_mt", "eval_h8", "eval_absent", "eval_perm">>
TrainDev == 1..4
HeldOut  == 5..10

SuiteAssumption ==
  /\ \A z \in Scales : \A i \in DOMAIN SplitOrder : z[SplitOrder[i]] \in Nat
  /\ MaxShuffle \in Nat
ASSUME SuiteAssumption

CellsOf(s) ==
  CASE s = "eval_stress" -> SelectSeq(PrimaryCells, LAMBDA c : c.horizon >= 8)
    [] s = "eval_mt"     -> [i \in 1..6 |-> MTCell(i - 1)]
    [] s = "eval_h8"     -> <<Cell("lookup_chain", 8), Cell("typed_relay", 8)>>
    [] s = "eval_absent" -> <<Cell("lookup_chain", 4), AbsentRelay, Cell("fulfillment", 4)>>
    [] s = "eval_perm"   -> <<Cell("lookup_chain", 4), Cell("typed_relay", 4)>>
    [] OTHER             -> PrimaryCells

DefaultSizes ==
  [oracle_sft |-> 400, distill |-> 200, grpo_train |-> 200, dev |-> 300,
   eval |-> 100, eval_stress |-> 40, eval_mt |-> 100, eval_h8 |-> 100,
   eval_absent |-> 200, eval_perm |-> 50]
RegisteredTotals ==
  [oracle_sft |-> 4800, distill |-> 2400, grpo_train |-> 2400, dev |-> 3600,
   eval |-> 1200, eval_stress |-> 280, eval_mt |-> 600, eval_h8 |-> 200,
   eval_absent |-> 600, eval_perm |-> 100]

-----------------------------------------------------------------------------
(* The grammars: the required calls of a task, in order.  A call is a tool  *)
(* and its structural role: the shape of the record it reads, the           *)
(* conversion or the arithmetic form (0 when drawn at random), the          *)
(* warehouse resource or action.                                            *)
Kb(shape) == [tool |-> "kb", role |-> shape, form |-> 0]
Uc(pair)  == [tool |-> "uc", role |-> "convert", form |-> pair]
Calc(f)   == [tool |-> "calc", role |-> "compute", form |-> f]
Wq(what)  == [tool |-> "wq", role |-> what, form |-> 0]
Wu(act)   == [tool |-> "wu", role |-> act, form |-> 0]

Repeat(block, n) == FlattenSeq([i \in 1..n |-> block])

(* MT_COMBOS: ten conversions by five forms, allocated by the index. *)
Combo(i) == [pair |-> ((i % 50) \div 5) + 1, form |-> (i % 5) + 1]
Drawn    == [pair |-> 0, form |-> 0]

LookupCalls(h) == Repeat(<<Kb("next")>>, h - 1) \o <<Kb("code")>>

FulfillmentCalls(h) ==
  LET lines == CASE h \in {4, 8} -> 1 [] h = 14 -> 2 [] h = 20 -> 3
      each  == IF h = 4
               THEN <<Wq("quote"), Wu("reserve")>>
               ELSE <<Kb("spec"), Calc(0), Uc(0), Wq("quote"), Wu("reserve"),
                      Wq("reservation")>>
  IN  <<Wq("order")>> \o Repeat(each, lines) \o <<Wu("finalize")>>

Full(shape, c) == <<Kb(shape), Uc(c.pair), Calc(c.form)>>

RelayCalls(h, c) ==
  CASE h = 2  -> <<Kb("convert_final"), Uc(0)>>
    [] h = 4  -> Full("full_next", c) \o <<Kb("code")>>
    [] h = 8  -> Repeat(Full("full_next", Drawn), 2) \o <<Kb("value_final"), Calc(0)>>
    [] h = 12 -> Repeat(Full("full_next", Drawn), 3) \o Full("full_final", Drawn)

PatternCalls(p, c) ==
  CASE p = 0 -> Full("full_next", c) \o <<Kb("code")>>
    [] p = 1 -> <<Kb("convert_next"), Uc(c.pair), Kb("formula_final"), Calc(c.form)>>
    [] p = 2 -> <<Kb("value_next"), Calc(c.form), Kb("convert_final"), Uc(c.pair)>>
    [] p = 3 -> <<Kb("follow")>> \o Full("full_final", c)
    [] p = 4 -> <<Uc(c.pair), Kb("formula_next"), Calc(c.form), Kb("code")>>
    [] p = 5 -> <<Calc(c.form), Kb("convert_next"), Uc(c.pair), Kb("code")>>

MTPatterns ==
  << <<"kb", "uc", "calc", "kb">>, <<"kb", "uc", "kb", "calc">>,
     <<"kb", "calc", "kb", "uc">>, <<"kb", "kb", "uc", "calc">>,
     <<"uc", "kb", "calc", "kb">>, <<"calc", "kb", "uc", "kb">> >>

AbsentCalls == <<Kb("convert_next"), Uc(0), Kb("formula_final"), Calc(1)>>

CallsOf(c, i) ==
  CASE c.family = "lookup_chain" -> LookupCalls(c.horizon)
    [] c.family = "fulfillment"  -> FulfillmentCalls(c.horizon)
    [] c.absent                  -> AbsentCalls
    [] c.pattern # NoPattern     -> PatternCalls(c.pattern, Combo(i))
    [] OTHER                     -> RelayCalls(c.horizon, Combo(i))

ToolOrder(calls) == [i \in DOMAIN calls |-> calls[i].tool]
AllTools(calls)  == {"kb", "uc", "calc"} \subseteq {calls[i].tool : i \in DOMAIN calls}

(* What the grammars assert of their own draft.                            *)
DraftStands(c, calls) ==
  /\ Len(calls) = c.horizon
  /\ c.pattern # NoPattern =>
       ToolOrder(calls) = MTPatterns[c.pattern + 1] /\ AllTools(calls)

-----------------------------------------------------------------------------
(* The fault plan: how many specs of a cell carry which faults.  An         *)
(* ambiguous malformed fault, the one that targets a mutation, is a kind of *)
(* its own.                                                                 *)
HasConvert(c) == c.family = "typed_relay" \/ (c.family = "fulfillment" /\ c.horizon >= 8)

EvalWeights(c) ==
  IF ~ HasConvert(c) THEN <<25, 50, 0, 25>>
  ELSE IF c.family = "typed_relay" THEN <<8, 15, 70, 7>>
  ELSE <<15, 30, 40, 15>>

FaultOrder == <<"transient", "malformed", "wrong_unit", "rate_limit">>
Weights(s, c) ==
  IF s = "eval" THEN EvalWeights(c)
  ELSE IF HasConvert(c) THEN <<1, 1, 1, 1>>
  ELSE <<34, 33, 0, 33>>

SumOf(s) == FoldLeft(+, 0, s)

(* Largest remainders, ties to the earlier entry. *)
Apportion(n, weights) ==
  LET all      == SumOf(weights)
      share    == [i \in DOMAIN weights |-> (n * weights[i]) \div all]
      rest     == [i \in DOMAIN weights |-> (n * weights[i]) % all]
      before(i) == {j \in DOMAIN weights :
                      rest[j] > rest[i] \/ (rest[j] = rest[i] /\ j < i)}
  IN  [i \in DOMAIN weights |->
         share[i] + (IF Cardinality(before(i)) < n - SumOf(share) THEN 1 ELSE 0)]

(* n entries in the order of the kinds, each kind as often as apportioned. *)
Spread(n, kinds, weights) ==
  LET count == Apportion(n, weights)
  IN  FlattenSeq([i \in DOMAIN kinds |-> [k \in 1..count[i] |-> kinds[i]]])

(* Every fourth malformed fault of a fulfillment cell targets a mutation. *)
Ordinal(entries, k, j) ==
  Cardinality({x \in (1..k) \X (1..2) :
                 /\ x[2] \in DOMAIN entries[x[1]]
                 /\ x[1] < k \/ x[2] < j
                 /\ entries[x[1]][x[2]] = "malformed"})

Ambiguous(c, entries) ==
  [k \in DOMAIN entries |-> [j \in DOMAIN entries[k] |->
     IF /\ c.family = "fulfillment"
        /\ entries[k][j] = "malformed"
        /\ Ordinal(entries, k, j) % 4 = 0
     THEN "ambiguous" ELSE entries[k][j]]]

FaultPairs(s, c) ==
  LET types == SelectSeq(FaultOrder,
                         LAMBDA t : t # "wrong_unit" \/ HasConvert(c))
      later(i) == [j \in 1..(Len(types) - i) |-> <<types[i], types[i + j]>>]
  IN  FlattenSeq([i \in DOMAIN types |-> later(i)])

FaultPlan(s, c, n) ==
  LET none      == <<>>
      single(m) == Ambiguous(c, Spread(m, [i \in 1..4 |-> <<FaultOrder[i]>>], Weights(s, c)))
      pairs     == FaultPairs(s, c)
  IN  CASE s \in {"eval_mt", "eval_h8", "eval_absent", "eval_perm"} ->
             [i \in 1..n |-> none]
        [] s = "eval_stress" ->
             Ambiguous(c, Spread(n, pairs, [i \in DOMAIN pairs |-> 1]))
        [] s \in {"oracle_sft", "distill", "grpo_train"} ->
             [i \in 1..(n \div 2) |-> none] \o single(n - n \div 2)
        [] OTHER -> single(n)

(* The plan of every cell of every build. *)
PlanOf ==
  [z \in Scales |-> [i \in DOMAIN SplitOrder |->
     LET s == SplitOrder[i]
     IN  [k \in DOMAIN CellsOf(s) |-> FaultPlan(s, CellsOf(s)[k], z[s])]]]

-----------------------------------------------------------------------------
(* Where a fault can sit.                                                  *)
Eligible(calls, kind) ==
  {n \in DOMAIN calls :
     CASE kind = "wrong_unit" -> calls[n].tool = "uc"
       [] kind = "ambiguous"  -> calls[n].tool = "wu" /\ calls[n].role = "reserve"
       [] kind = "malformed"  -> calls[n].tool # "wu"
       [] OTHER               -> TRUE}

(* Defective variant: the faults are placed in the order of the plan. *)
AssignmentPlanOrder(calls, kinds) == kinds

(* Most constrained first: a permissive fault must not take the one node a  *)
(* scarce one needs.                                                        *)
AssignmentOrder(calls, kinds) ==
  LET room(i) == Cardinality(Eligible(calls, kinds[i]))
      sooner(i, j) == room(i) < room(j) \/ (room(i) = room(j) /\ i < j)
      seq == SetToSortSeq(DOMAIN kinds, sooner)
  IN  [k \in DOMAIN seq |-> kinds[seq[k]]]

-----------------------------------------------------------------------------
(* What the controls do to a task.  The absent-information control deletes  *)
(* the record the answer rests on (0 when it is no record) or withholds the *)
(* completion token; `bits' is the entropy of what is hidden.               *)
Redaction(c, calls) ==
  LET records == {n \in DOMAIN calls : calls[n].tool = "kb"}
      last    == CHOOSE n \in records : \A k \in records : k <= n
  IN  CASE c.family = "lookup_chain" -> [node |-> Len(calls), token |-> FALSE, bits |-> 128]
        [] c.family = "typed_relay"  -> [node |-> last, token |-> FALSE, bits |-> 48]
        [] c.family = "fulfillment"  -> [node |-> 0, token |-> TRUE, bits |-> 80]

Untouched == [node |-> 0, token |-> FALSE, bits |-> 0]

(* The calls an agent that only has what it saw can make before the path    *)
(* breaks, and whether their replies show it the answer.                    *)
Frontier(calls, r) == IF r.node = 0 THEN Len(calls) ELSE r.node
Exposed(calls, r) == Frontier(calls, r) = Len(calls) /\ r.node # Len(calls) /\ ~ r.token

AnswerAbsent(c, calls) ==
  LET r == Redaction(c, calls)
  IN  /\ ~ Exposed(calls, r)
      /\ r.token \/ r.node # 0
      /\ Exposed(calls, Untouched)
      /\ r.bits >= 48

-----------------------------------------------------------------------------
(* The task being built.                                                   *)
SplitName == SplitOrder[split]
CellNow   == CellsOf(SplitName)[cell]
CallsNow     == CallsOf(CellNow, index)

(* Enter the task: its draft, its control, its faults in placement order.   *)
Enter(s, k, i) ==
  LET c     == CellsOf(SplitOrder[s])[k]
      calls == CallsOf(c, i)
  IN  /\ split' = s /\ cell' = k /\ index' = i
      /\ taken' = <<>>
      /\ waiting' = AssignmentOrder(calls, PlanOf[scale][s][k][i + 1])
      /\ stage' = IF DraftStands(c, calls) THEN "build" ELSE "refused"

NothingBuilt == [cells |-> EmptyBag, faulted |-> EmptyBag, groups |-> EmptyBag,
                 clusters |-> EmptyBag, astray |-> {}]

SuiteInit ==
  /\ scale \in Scales
  /\ split = 1 /\ cell = 1 /\ index = 0
  /\ waiting = <<>>    \* the first specs of a training cell are clean
  /\ taken = <<>>
  /\ tally = NothingBuilt
  /\ order = <<>> /\ moved = <<>>
  /\ stage = "build"

PlaceFault ==
  /\ stage = "build" /\ waiting # <<>>
  /\ LET free == Eligible(CallsNow, Head(waiting)) \ DOMAIN taken
     IN  \/ /\ free = {}
            /\ stage' = "refused"
            /\ UNCHANGED <<waiting, taken>>
         \/ \E n \in free :
              /\ taken' = taken @@ (n :> Head(waiting))
              /\ waiting' = Tail(waiting)
              /\ UNCHANGED stage
  /\ UNCHANGED <<scale, split, cell, index, tally, order, moved>>

GroupOf(kind) ==
  CASE kind \in {"transient", "rate_limit"} -> "transient_rate_limit"
    [] kind \in {"malformed", "ambiguous"}  -> "malformed"
    [] kind = "wrong_unit"                  -> "wrong_unit"

AddAll(bag, seq) == FoldLeft(BagAdd, bag, seq)

(* The structural template of a task: its family, its horizon, its calls.   *)
ClusterOf(c, calls) == <<c.family, c.horizon, calls>>

InMTStratum(s, c, calls) == s \in {"eval", "eval_mt"} /\ c.horizon = 4 /\ AllTools(calls)

Counted ==
  LET kinds == SetToSeq({<<n, taken[n]>> : n \in DOMAIN taken})
      flaw  == \/ Len(CallsNow) # CellNow.horizon
               \/ SplitName = "eval_absent" /\ ~ AnswerAbsent(CellNow, CallsNow)
  IN  [cells    |-> BagAdd(tally.cells, <<SplitName, CellNow>>),
       faulted  |-> IF taken = <<>> THEN tally.faulted ELSE BagAdd(tally.faulted, SplitName),
       groups   |-> IF SplitName # "eval" THEN tally.groups
                    ELSE AddAll(tally.groups, [k \in DOMAIN kinds |-> GroupOf(kinds[k][2])]),
       clusters |-> IF ~ InMTStratum(SplitName, CellNow, CallsNow) THEN tally.clusters
                    ELSE BagAdd(tally.clusters, <<SplitName, ClusterOf(CellNow, CallsNow)>>),
       astray   |-> IF flaw THEN tally.astray \cup {SplitName} ELSE tally.astray]

(* The task is built: on to the next one of the cell, of the split.         *)
FinishTask ==
  /\ stage = "build" /\ waiting = <<>>
  /\ tally' = Counted
  /\ IF index + 1 < scale[SplitName] THEN Enter(split, cell, index + 1)
     ELSE IF cell < Len(CellsOf(SplitName)) THEN Enter(split, cell + 1, 0)
     ELSE /\ stage' = IF SplitName = "eval_perm" THEN "derange" ELSE "check"
          /\ UNCHANGED <<split, cell, index, waiting, taken>>
  /\ UNCHANGED <<scale, order, moved>>

-----------------------------------------------------------------------------
(* The permutation control.  A task is known by its place, and its own      *)
(* answer is that number; `record' is what its terminal record holds.       *)
Shuffled(n) ==
  IF n <= MaxShuffle THEN SetToSeqs(1..n) ELSE {[i \in 1..n |-> i]}

Shuffle ==
  LET n == scale["eval_perm"] * Len(CellsOf("eval_perm"))
  IN  /\ stage = "derange" /\ order = <<>>
      /\ \E o \in Shuffled(n) : order' = o
      /\ moved' = <<>>
      /\ stage' = IF n < 2 THEN "refused" ELSE stage
      /\ UNCHANGED <<scale, split, cell, index, waiting, taken, tally>>

DonorOf(i) ==
  LET at == CHOOSE k \in DOMAIN order : order[k] = i
  IN  order[(at % Len(order)) + 1]

(* Defective variant: the answer moves and the record keeps its own. *)
MovedAnswerOnly(i) ==
  [answer |-> DonorOf(i), record |-> i, donor |-> DonorOf(i), original |-> i]

(* Move to task i the answer its donor had before anything moved. *)
Moved(i) ==
  [answer |-> DonorOf(i), record |-> DonorOf(i), donor |-> DonorOf(i), original |-> i]

Derange ==
  LET i == Len(moved) + 1
  IN  /\ stage = "derange" /\ i <= Len(order)
      /\ moved' = Append(moved, Moved(i))
      /\ stage' = IF DonorOf(i) = i THEN "refused"
                  ELSE IF i = Len(order) THEN "check" ELSE stage
      /\ UNCHANGED <<scale, split, cell, index, waiting, taken, tally, order>>

-----------------------------------------------------------------------------
(* The registered counts.                                                  *)
Exact(s) == scale[s] = DefaultSizes[s]

Count(bag, keys) == SumFunctionOnSet(bag, keys)

SpecsIn(S) == Count(tally.cells, {k \in DOMAIN tally.cells : k[1] \in S})
CellSpecs(s, c) == IF <<s, c>> \in DOMAIN tally.cells THEN tally.cells[<<s, c>>] ELSE 0
FamilySpecs(S, f, H) ==
  Count(tally.cells,
        {k \in DOMAIN tally.cells : k[1] \in S /\ k[2].family = f /\ k[2].horizon \in H})
FamiliesIn(s) == {k[2].family : k \in {x \in DOMAIN tally.cells : x[1] = s}}

FaultGroupsMet ==
  /\ BagToSet(tally.groups) = {"transient_rate_limit", "malformed", "wrong_unit"}
  /\ \A g \in DOMAIN tally.groups : tally.groups[g] = 400

Clusters(S) == {k[2] : k \in {x \in DOMAIN tally.clusters : x[1] \in S}}
Copies(S, t) == Count(tally.clusters, {k \in DOMAIN tally.clusters : k[1] \in S /\ k[2] = t})
ClusterFloor(S)   == Cardinality(Clusters(S)) >= 240
ClusterCeiling(S) == \A t \in Clusters(S) : Copies(S, t) <= 5

PatternsMet(s)      == \A p \in 0..5 : CellSpecs(s, MTCell(p)) > 0
PatternsBalanced(s) == \A p \in 0..5 : CellSpecs(s, MTCell(p)) = 100

Families == {"lookup_chain", "typed_relay", "fulfillment"}

Deranged ==
  LET n == Len(moved)
  IN  /\ n = SpecsIn({"eval_perm"})
      /\ \A i \in 1..n : moved[i].original # moved[i].answer /\ moved[i].donor # i
      /\ Cardinality({moved[i].answer : i \in 1..n}) = n

(* assert_split_cardinalities: the exact numbers bind at registered sizes.  *)
SplitStands(s) ==
  /\ Exact(s) => SpecsIn({s}) = RegisteredTotals[s]
  /\ s = "eval" /\ Exact(s) => FaultGroupsMet
  /\ s = "eval_mt" =>
       /\ PatternsMet(s) /\ ClusterCeiling({s})
       /\ Exact(s) => PatternsBalanced(s) /\ ClusterFloor({s})
  /\ s = "eval_h8" => FamiliesIn(s) = {"lookup_chain", "typed_relay"}
  /\ s = "eval_absent" =>
       /\ FamiliesIn(s) = Families
       /\ Exact(s) => \A f \in Families : FamilySpecs({s}, f, {4}) = scale[s]
  /\ s = "eval_perm" => Deranged

H8Met ==
  \A f \in {"lookup_chain", "typed_relay"} : FamilySpecs({"eval", "eval_h8"}, f, {8}) = 200

(* The three axes of the prompt tournament: orchestration, H8, recovery.    *)
DevAxesMet ==
  /\ CellSpecs("dev", Cell("typed_relay", 4)) >= 300
  /\ FamilySpecs({"dev"}, "lookup_chain", {8}) + FamilySpecs({"dev"}, "typed_relay", {8}) >= 300
  /\ Count(tally.faulted, DOMAIN tally.faulted \cap {"dev"}) >= 300

MTStratum == {"eval", "eval_mt"}

Whole(s) == SpecsIn({s}) = RegisteredTotals[s]

(* assert_suite_cardinalities, over the splits of the phase. *)
SuiteStands(S) ==
  /\ {"eval", "eval_h8"} \subseteq S /\ Whole("eval") /\ Whole("eval_h8") => H8Met
  /\ MTStratum \subseteq S =>
       /\ ClusterCeiling(MTStratum)
       /\ Count(tally.clusters, DOMAIN tally.clusters) >= 600 => ClusterFloor(MTStratum)
  /\ "dev" \in S /\ Whole("dev") => DevAxesMet

SplitsOf(part) == {SplitOrder[i] : i \in part}
PartNow == IF split \in TrainDev THEN TrainDev ELSE HeldOut

CheckSplit ==
  /\ stage = "check"
  /\ IF ~ SplitStands(SplitName)
     THEN /\ stage' = "refused"
          /\ UNCHANGED <<split, cell, index, waiting, taken>>
     ELSE IF split + 1 \in PartNow THEN Enter(split + 1, 1, 0)
     ELSE /\ stage' = "settle"
          /\ UNCHANGED <<split, cell, index, waiting, taken>>
  /\ UNCHANGED <<scale, tally, order, moved>>

(* The splits of a phase are all built; the held-out phase comes after.     *)
SettlePhase ==
  /\ stage = "settle"
  /\ IF ~ SuiteStands(SplitsOf(PartNow))
     THEN /\ stage' = "refused"
          /\ UNCHANGED <<split, cell, index, waiting, taken>>
     ELSE IF split \in TrainDev THEN Enter(split + 1, 1, 0)
     ELSE /\ stage' = "done"
          /\ UNCHANGED <<split, cell, index, waiting, taken>>
  /\ UNCHANGED <<scale, tally, order, moved>>

SuiteNext ==
  \/ PlaceFault \/ FinishTask
  \/ Shuffle \/ Derange
  \/ CheckSplit \/ SettlePhase

SuiteSpec == SuiteInit /\ [][SuiteNext]_suiteVars

-----------------------------------------------------------------------------
(* validate_suite.py: the same numbers, unconditionally, and what only it   *)
(* checks, over the splits in scope.                                        *)
SizesMet(S) ==
  /\ \A s \in S :
       /\ {k[2] : k \in {x \in DOMAIN tally.cells : x[1] = s}} = ToSet(CellsOf(s))
       /\ \A c \in ToSet(CellsOf(s)) : CellSpecs(s, c) = scale[s]
       /\ Whole(s)
  /\ SuiteStands(S)
  /\ SplitsOf(HeldOut) \subseteq S =>
       /\ FaultGroupsMet
       /\ PatternsMet("eval_mt") /\ PatternsBalanced("eval_mt")
       /\ \A T \in {{"eval_mt"}, MTStratum} : ClusterFloor(T) /\ ClusterCeiling(T)
       /\ H8Met
       /\ FamiliesIn("eval_absent") = Families
       /\ \A f \in Families : FamilySpecs({"eval_absent"}, f, {4}) = 200

(* The core split clusters by family and horizon at least. *)
CoreClustered(S) ==
  "eval" \in S => Cardinality({k \in DOMAIN tally.cells : k[1] = "eval"}) >= 12

PermutationMet(S) ==
  "eval_perm" \in S =>
    /\ \A i \in DOMAIN moved :
         /\ moved[i].donor # i
         /\ moved[i].original # moved[i].answer
         /\ moved[i].record = moved[i].answer
    /\ Cardinality({moved[i].donor : i \in DOMAIN moved}) = SpecsIn({"eval_perm"})

Validates(S) ==
  /\ SizesMet(S) /\ CoreClustered(S) /\ PermutationMet(S)
  /\ tally.astray \cap S = {}

-----------------------------------------------------------------------------
(* The registered tables can be met: whatever the draws, a build at the     *)
(* registered sizes, or at the size of the unit tests, never runs out of    *)
(* nodes for a fault ("deterministic and always succeeds when a valid       *)
(* assignment exists for these grammars", _assignment_order), and none of   *)
(* the generator's own assertions stops it.                                 *)
GenerationNeverRefuses == stage # "refused"

(* What the generator accepts at the registered sizes, the validator        *)
(* accepts: train/dev alone before the reveal, the whole suite after it.    *)
BuiltValidates ==
  scale = DefaultSizes =>
    /\ stage = "settle" /\ split \in TrainDev => Validates(SplitsOf(TrainDev))
    /\ stage = "done" => Validates(SplitsOf(TrainDev \cup HeldOut))
=============================================================================
