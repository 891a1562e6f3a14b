------------------------------ MODULE Verdict ------------------------------
(***************************************************************************)
(* The machine verdict and the stage that ships what it selected: the      *)
(* harness vetoes S8 to S19 over the trace rows and the documents beside   *)
(* them, the gates and floors the winner depends on, the truth table.      *)
(*                                                                         *)
(* A row is what the checks can tell of it: whether the episode was        *)
(* certified (on a faulted row: recovered, too), and at most one flaw.     *)
(* Rows are lost, rows are flawed, documents go missing; the verdict is    *)
(* judged, perhaps interrupted, and a configuration is shipped upon it.    *)
(***************************************************************************)
EXTENDS Integers, FiniteSets, FiniteSetsExt, Nothing

CONSTANTS
  CoreTasks,       \* the tasks of the specification manifest, split eval
  OrchTasks,       \* the all-tools tasks: clean rows, in no manifest read here
  RedactedTasks,   \* of the absent-information control
  PermutedTasks,   \* of the counterfactual control
  Family,          \* the family of a task
  Place,           \* the place of a task in its manifest
  RedactedNeed,    \* registered coverage per family and arm
  PermutedNeed,    \* registered minimum of permuted rows, pooled
  MinCommon,       \* registered minimum of commonly solved tasks (ER1)
  RecoveryMargin, CleanMargin,    \* ER2 and ER4, in percent
  FloorOverall, FloorFamily, CrashMax,  \* F1/F3, F2/F4, F5, in percent
  Profiles,        \* which arms are good at which condition
  MaxLosses        \* bound on rows and documents lost or spoilt

VerdictAssumption ==
  /\ IsFiniteSet(CoreTasks) /\ FloorOverall \in Nat
  /\ RedactedNeed \in Nat /\ PermutedNeed \in Nat /\ MinCommon \in Nat
  /\ MaxLosses \in Nat

ASSUME VerdictAssumption

VARIABLES
  rows,      \* the trace rows
  papers,    \* the documents the verdict reads beside them
  verdict,   \* the verdict file; None before it exists
  serving,   \* the verdict upon which the ship stage serves now; None when it is not running
  losses

verdictVars == <<rows, papers, verdict, serving, losses>>

Arms       == {"BP", "TP"}
Conditions == {"clean", "faulted"}

(* The trace files of the paired arms: condition, control, and their tasks. *)
Cells == [condition : Conditions, control : {"none"}, task : CoreTasks]
         \cup [condition : {"clean"}, control : {"none"}, task : OrchTasks]
         \cup [condition : {"clean"}, control : {"redacted"}, task : RedactedTasks]
         \cup [condition : {"clean"}, control : {"permuted"}, task : PermutedTasks]

Row(arm, c, good, flaw) ==
  [arm |-> arm, condition |-> c.condition, control |-> c.control,
   task |-> c.task, good |-> good, flaw |-> flaw]

(* What can be wrong with a row; "foreign" is another base or adapter,      *)
(* "unreplayed" a verdict only the canonical replay contradicts.            *)
Flaws(c) ==
  {"receipt", "foreign", "misscored", "unreplayed", "early", "unplaced",
   "othercard", "nocard"}
  \cup (IF c.control = "none" THEN {"unpaired"} ELSE {})
  \cup (IF c.condition = "faulted" THEN {"misfired", "crashed"} ELSE {})
  \cup (IF c.control = "redacted" THEN {"leak", "idle"} ELSE {})
  \cup (IF c.control = "permuted" THEN {"untracked"} ELSE {})

Sound == [specs |-> "ok", splits |-> "ok", locks |-> "ok", history |-> "ok",
          disposition |-> "ok"]

FreshRow(p, a, c) == Row(a, c, c.control # "redacted" /\ <<a, c.condition>> \in p, "none")

VerdictInit ==
  /\ \E p \in Profiles : rows = {FreshRow(p, a, c) : a \in Arms, c \in Cells}
  /\ papers = Sound
  /\ verdict = None /\ serving = None /\ losses = 0

-----------------------------------------------------------------------------
(* load_agentic_episodes *)
EpisodesOf(a, cond, ctl) ==
  {r \in rows : r.arm = a /\ r.condition = cond /\ r.control = ctl}
TasksOf(R)  == {r.task : r \in R}
Flawed(R, flaws) == \E r \in R : r.flaw \in flaws

Judge(bug, inconclusive) ==
  IF bug THEN "BUG" ELSE IF inconclusive THEN "INCONCLUSIVE" ELSE "OK"

(* A condition that neither arm has a row of is passed over.               *)
S8 == Judge(\E cond \in Conditions :
              \/ TasksOf(EpisodesOf("BP", cond, "none")) # TasksOf(EpisodesOf("TP", cond, "none"))
              \/ \E a \in Arms : Flawed(EpisodesOf(a, cond, "none"), {"unpaired"}),
            FALSE)
S9  == Judge(papers.specs = "spoilt", papers.specs = "absent")
S10 == Judge(papers.splits = "spoilt", papers.splits = "absent")

Redacted == {r \in rows : r.control = "redacted"}
Ran      == {r \in Redacted : r.flaw # "idle"}
Covered(f, a) == Cardinality({r \in Ran : Family[r.task] = f /\ r.arm = a})
ScoredFamilies   == {Family[r.task] : r \in {s \in rows : s.control = "none"}}
S11 == Judge(Flawed(Redacted, {"leak", "idle"}),
             \/ Ran = {}
             \/ \E a \in Arms, f \in ScoredFamilies : Covered(f, a) = 0
             \/ \E a \in Arms, f \in {Family[t] : t \in RedactedTasks} :
                  Covered(f, a) \in 1..(RedactedNeed - 1))

FaultedRows == {r \in rows : r.condition = "faulted" /\ r.control = "none"}
S12 == Judge(Flawed(FaultedRows, {"misfired"}), FaultedRows = {})
S13 == Judge(Flawed(rows, {"receipt"}), FALSE)

PermutedRows == {r \in rows : r.control = "permuted"}
S14 == Judge(Flawed(PermutedRows, {"untracked"}),
             Cardinality(PermutedRows) < PermutedNeed)

S15Clean ==  \* Defective variant: the faulted condition is not looked at.
  Judge(FALSE, papers.specs = "absent"
               \/ \E a \in Arms : ~ CoreTasks \subseteq TasksOf(EpisodesOf(a, "clean", "none")))

S15 == Judge(FALSE,
             papers.specs = "absent"
             \/ \E a \in Arms, cond \in Conditions :
                  ~ CoreTasks \subseteq TasksOf(EpisodesOf(a, cond, "none")))

(* Base, prompt and adapter are read off the first episode of each file.   *)
First(F) == {r \in F : \A s \in F : Place[r.task] <= Place[s.task]}
Misattributed ==
  \E a \in Arms, c \in Cells : Flawed(First(EpisodesOf(a, c.condition, c.control)), {"foreign"})

(* A locked checkpoint that is not grpo needs its disposition on record.   *)
DispositionFails == papers.locks # "absent" /\ papers.disposition # "ok"
S16 == Judge(papers.locks = "spoilt" \/ Misattributed \/ DispositionFails, rows = {})

(* Only a task of the manifest can be replayed.                            *)
Replayable == IF papers.specs = "absent" THEN {} ELSE {r \in rows : r.task \in CoreTasks}
S17 == Judge(Flawed(rows, {"misscored"}) \/ Flawed(Replayable, {"unreplayed"}),
             rows # {} /\ Replayable = {})

S18 == IF papers.locks = "absent" \/ papers.history = "absent" THEN "INCONCLUSIVE"
       ELSE Judge(papers.history = "spoilt" \/ Flawed(rows, {"early"}),
                  Flawed(rows, {"unplaced"}))
S19 == Judge(Flawed(rows, {"othercard"}), rows = {} \/ Flawed(rows, {"nocard"}))

Vetoes == {S8, S9, S10, S11, S12, S13, S14, S15, S16, S17, S18, S19}

-----------------------------------------------------------------------------
(* evaluate_floors: the core rows of an arm; crashes count over both.      *)
CoreRows(a, cond) == {r \in EpisodesOf(a, cond, "none") : r.task \in CoreTasks}
Passed(R)         == Cardinality({r \in R : r.good})
Reaches(R, floor) == Passed(R) * 100 >= floor * Cardinality(R)
OfFamily(R, f)    == {r \in R : Family[r.task] = f}

Floors(a) ==
  LET clean == CoreRows(a, "clean")
      faulted == CoreRows(a, "faulted")
      crashed == {r \in clean \cup faulted : r.flaw = "crashed"}
  IN IF clean = {} \/ faulted = {} THEN "INCONCLUSIVE"
     ELSE IF /\ Reaches(clean, FloorOverall) /\ Reaches(faulted, FloorOverall)
             /\ \A R \in {clean, faulted}, r \in clean \cup faulted :
                  Reaches(OfFamily(R, Family[r.task]), FloorFamily)
             /\ Cardinality(crashed) * 100 < CrashMax * Cardinality(clean \cup faulted)
          THEN "PASS" ELSE "FAIL"

(* _bootstrap_gate: over one to three clusters of one task each, the 2.5%   *)
(* quantile of the resampled mean is the least difference between the arms. *)
Good(a, cond)  == {r.task : r \in {s \in CoreRows(a, cond) : s.good}}
Paired(cond)   == TasksOf(CoreRows("BP", cond)) \cap TasksOf(CoreRows("TP", cond))
Difference(cond, t) == (IF t \in Good("TP", cond) THEN 100 ELSE 0)
                       - (IF t \in Good("BP", cond) THEN 100 ELSE 0)
LowerBound(cond, T) == Min({Difference(cond, t) : t \in T})
Exceeds(cond, T, margin) ==
  IF T = {} THEN "INCONCLUSIVE"
  ELSE IF LowerBound(cond, T) > margin THEN "PASS" ELSE "FAIL"

(* The tasks both arms solve clean; too few of them give no verdict.       *)
Common == Good("BP", "clean") \cap Good("TP", "clean") \cap Paired("faulted")
ER2 == IF Cardinality(Common) < MinCommon THEN "INCONCLUSIVE"
       ELSE Exceeds("faulted", Common, RecoveryMargin)
ER4 == Exceeds("clean", Paired("clean"), CleanMargin)

(* The truth table, in the order of its ranks.                             *)
Outcome ==
  CASE "BUG" \in Vetoes -> "BUG / NO VERDICT"
    [] "BUG" \notin Vetoes /\ "INCONCLUSIVE" \in Vetoes -> "NO VERDICT"
    [] Vetoes = {"OK"} /\ Floors("TP") = "PASS" /\ ER4 = "PASS" /\ ER2 = "PASS" -> "TP"
    [] OTHER -> IF Floors("BP") = "PASS" THEN "BP"
                ELSE IF "INCONCLUSIVE" \in {Floors("TP"), Floors("BP")}
                     THEN "NO VERDICT" ELSE "none"

-----------------------------------------------------------------------------
(* What happens to the evidence before it is judged, or judged again.      *)
Mishap == serving = None /\ losses < MaxLosses /\ losses' = losses + 1

LoseRow ==
  /\ Mishap /\ \E r \in rows : rows' = rows \ {r}
  /\ UNCHANGED <<papers, verdict, serving>>

SpoilRow ==
  /\ Mishap
  /\ \E r \in {s \in rows : s.flaw = "none"} :
       \/ \E flaw \in Flaws(r) : rows' = (rows \ {r}) \cup {[r EXCEPT !.flaw = flaw]}
       \/ rows' = (rows \ {r}) \cup {[r EXCEPT !.good = ~ @]} /\ r.control # "redacted"
  /\ UNCHANGED <<papers, verdict, serving>>

SpoilPaper ==
  /\ Mishap
  /\ \E p \in DOMAIN papers, s \in {"absent", "spoilt"} :
       papers[p] = "ok" /\ papers' = [papers EXCEPT ![p] = s]
  /\ UNCHANGED <<rows, verdict, serving>>

(* stage_verdict always runs again; the file is written in place.          *)
WriteVerdict ==
  /\ serving = None
  /\ verdict' \in {Outcome, "torn"}
  /\ UNCHANGED <<rows, papers, serving, losses>>

(* stage_ship: nothing for a verdict that begins with NO VERDICT or none,  *)
(* the locked adapter for one that begins with TP, the base for any other. *)
Skips(v) == v \in {"NO VERDICT", "none"}

Ship ==
  /\ serving = None /\ verdict # None /\ ~ Skips(verdict)
  /\ verdict = "TP" => papers.locks # "absent"
  /\ serving' = verdict
  /\ UNCHANGED <<rows, papers, verdict, losses>>

StopServing ==
  /\ serving # None /\ serving' = None
  /\ UNCHANGED <<rows, papers, verdict, losses>>

VerdictNext == LoseRow \/ SpoilRow \/ SpoilPaper \/ WriteVerdict \/ Ship \/ StopServing
VerdictSpec == VerdictInit /\ [][VerdictNext]_verdictVars

-----------------------------------------------------------------------------
(* What a check can see of a row: the prompt and weights of a file's first *)
(* episode only, the replayed verdict of manifest tasks only.              *)
Seen(r) == CASE r.flaw = "foreign" -> r \in First(EpisodesOf(r.arm, r.condition, r.control))
             [] r.flaw = "unreplayed" -> r \in Replayable
             [] r.flaw = "crashed" -> FALSE
             [] OTHER -> r.flaw # "none"

(* A verdict names an arm only over every task that arm was assigned: each *)
(* core task has a row in both arms under both conditions, the arm's       *)
(* registered floor holds over those tasks, no document is missing and no  *)
(* row has a flaw a check can see, whatever was lost or spoilt before      *)
(* (agentic_verdict).                                                      *)
Verified(arm) ==
  /\ \A a \in Arms, cond \in Conditions : TasksOf(CoreRows(a, cond)) = CoreTasks
  /\ \A cond \in Conditions :
       Cardinality(Good(arm, cond)) * 100 >= FloorOverall * Cardinality(CoreTasks)
  /\ papers = Sound
  /\ \A r \in rows : ~ Seen(r)
NothingNamedUnverified ==
  [][verdict' \in Arms /\ verdict' # verdict => Verified(verdict')]_verdictVars

(* agentic_preregister.json promises "BUG, no winner": no configuration is *)
(* served upon the verdict that the harness has a bug (stage_ship).        *)
BugShipsNothing == serving # "BUG / NO VERDICT"
=============================================================================
