------------------------------ MODULE MCCorpus ------------------------------
(* The training corpus in one model: the files and the commands that write *)
(* them (Corpus), one rollout and the readings it is accepted and judged   *)
(* by (Rollout), and the rows a build of the views may keep (ViewCap).     *)
(* Corpus takes what the other two decide as an input, so a behaviour      *)
(* follows one of the three, `focus', while the others keep their initial  *)
(* states.                                                                 *)
(*                                                                         *)
(* Two tasks in one block: two shards at the driver's size, one at the     *)
(* other.  Two producers and two contracts.  The quota asks for both.  Two *)
(* strata of a shallow trajectory of two rows or a deep one of five, and a *)
(* ceiling three deep builds exceed.                                       *)
EXTENDS Corpus, Rollout, ViewCap

CONSTANTS Focuses, t1, t2, g1, g2, c1, c2

TwoTasks == <<t1, t2>>

VARIABLE focus

line == <<focus, vars, rollout, capVars>>

(* A chain of two nodes, the budget of three spare decisions, and a fault   *)
(* of every kind: on the node that feeds the answer or on the answer's own. *)
FaultOfEachKind ==
  {[node |-> 0, kind |-> "none"], [node |-> 1, kind |-> "rate_limit"],
   [node |-> 2, kind |-> "transient"], [node |-> 2, kind |-> "wrong_unit"]}

-----------------------------------------------------------------------------
LineInit ==
  /\ focus \in Focuses
  /\ Init /\ RolloutInit /\ CapInit
  /\ focus # "files" => contract = c1 /\ producer = g1
  /\ focus # "rollout" => runner = "engine" /\ fault.node = 0
  /\ focus # "views" => accepted = built

FilesStep   == focus = "files" /\ Next /\ UNCHANGED <<focus, rollout, capVars>>
RolloutStep == focus = "rollout" /\ RolloutNext /\ UNCHANGED <<focus, vars, capVars>>
ViewsStep   == focus = "views" /\ CapNext /\ UNCHANGED <<focus, vars, rollout>>

LineNext == FilesStep \/ RolloutStep \/ ViewsStep

Line == LineInit /\ [][LineNext]_line

(* The fairness of Corpus: a behaviour that follows another part has none,  *)
(* and no liveness property speaks of it.                                   *)
ResumedLine == Line /\ Resumption
=============================================================================
