----------------------------- MODULE EvalTable -----------------------------
(***************************************************************************)
(* The schedule of the paired evaluation, as the chain driver emits it.    *)
(***************************************************************************)
EXTENDS Integers, Sequences, SequencesExt, FiniteSets, Functions

CONSTANTS
  MandatoryArms,    \* the paired arms, in the order of the configuration
  DescriptiveArms,  \* the arms that run last, over the ordinary manifests
  SpecManifests,    \* each manifest under one condition, in order
  BlockTasks        \* tasks in a block of the schedule

SpecSet        == ToSet(SpecManifests)
MandatoryPairs == ToSet(MandatoryArms) \X {m \in SpecSet : m.mandatory}

(* eval_table: block by block, the arms back to back, in an order that     *)
(* flips with every block.                                                 *)
Blocks(m) == (Len(m.tasks) + BlockTasks - 1) \div BlockTasks

Position(m, t) == CHOOSE i \in DOMAIN m.tasks : m.tasks[i] = t

Emit(arms, manifests) ==
  FlattenSeq([i \in DOMAIN manifests |->
    FlattenSeq([b \in 1..Blocks(manifests[i]) |->
      LET order == IF b % 2 = 1 THEN arms ELSE Reverse(arms)
      IN [k \in DOMAIN order |->
            [arm |-> order[k], manifest |-> manifests[i], block |-> b - 1]]])])

Core     == SelectSeq(SpecManifests, LAMBDA m : m.mandatory)
Extra    == SelectSeq(SpecManifests, LAMBDA m : ~ m.mandatory)
Ordinary == SelectSeq(Core \o Extra, LAMBDA m : m.control = "none")

Table == Emit(MandatoryArms, Core) \o Emit(MandatoryArms, Extra)
         \o Emit(DescriptiveArms, Ordinary)
=============================================================================
