------------------------------ MODULE MCStudy ------------------------------
(***************************************************************************)
(* The components of the study around its episodes, in one model: the      *)
(* held-out release, the prompt tournament, the paired evaluation, the     *)
(* verdict and the artifact publisher.                                     *)
(*                                                                         *)
(* They meet in files only, and each takes what it reads from the others   *)
(* as an input of its own; so a behaviour follows one of them, `focus',    *)
(* while the others keep their initial states.  Where a component has      *)
(* several initial states, another component's behaviours see one of them. *)
(***************************************************************************)
EXTENDS Release, Evaluation, Publisher, Tournament, Verdict

CONSTANTS
  Focuses,   \* the components a run follows
  gpu1, gpu2, yaml1, yaml2, env1, env2,  \* cards, configurations, contracts
  t1, t2, d1, m1, p1,                    \* tasks
  f1, f2, f3                             \* files of a run, prompt candidates

VARIABLE focus

study == <<focus, vars, evalVars, publisherVars, tournamentVars, verdictVars>>

-----------------------------------------------------------------------------
(* Two arms; two core tasks in a block, an optional manifest in the same   *)
(* trace files, and a control whose only task cannot be redacted.          *)
Manifest(tasks, control, mandatory) ==
  [tasks |-> tasks, condition |-> "clean", control |-> control, mandatory |-> mandatory]

EvalArms == <<"BP", "TP">>
NoArms   == <<>>
EvalManifests ==
  <<Manifest(<<t1, t2>>, "none", TRUE), Manifest(<<m1>>, "none", FALSE),
    Manifest(<<d1>>, "redacted", TRUE)>>

EvalUnits == Table

(* A batch of two files and one of one; the second group may not leave.    *)
TwoGroups == <<{f1, f2}, {f3}>>

ThreeCandidates == <<f1, f2, f3>>

(* Two core tasks and one row of every other kind; both arms are good, so  *)
(* that the base arm wins, and the trained one after two rows went bad.    *)
TaskFamily == [t \in {t1, t2, m1, d1, p1} |-> "H4"]
TaskPlace  == [t \in {t1, t2, m1, d1, p1} |-> IF t = t2 THEN 2 ELSE 1]
CleanLoss  == -3
BothGood   == {{"BP", "TP"} \X {"clean", "faulted"}}

-----------------------------------------------------------------------------
StudyInit ==
  /\ focus \in Focuses
  /\ Init /\ EvalInit /\ PublisherInit /\ TournamentInit /\ VerdictInit
  /\ card = gpu1 /\ config = yaml1 /\ contract = env1 /\ checkout = env1
  /\ focus # "release" => payload = Absent

ReleaseStep ==
  /\ focus = "release" /\ Next
  /\ UNCHANGED <<focus, evalVars, publisherVars, tournamentVars, verdictVars>>

EvaluationStep ==
  /\ focus = "evaluation" /\ EvalNext
  /\ UNCHANGED <<focus, vars, publisherVars, tournamentVars, verdictVars>>

PublisherStep ==
  /\ focus = "publisher" /\ PublisherNext
  /\ UNCHANGED <<focus, vars, evalVars, tournamentVars, verdictVars>>

TournamentStep ==
  /\ focus = "tournament" /\ TournamentNext
  /\ UNCHANGED <<focus, vars, evalVars, publisherVars, verdictVars>>

VerdictStep ==
  /\ focus = "verdict" /\ VerdictNext
  /\ UNCHANGED <<focus, vars, evalVars, publisherVars, tournamentVars>>

StudyNext ==
  ReleaseStep \/ EvaluationStep \/ PublisherStep \/ TournamentStep \/ VerdictStep

Study == StudyInit /\ [][StudyNext]_study

(* The fairness of the evaluation: a behaviour that follows another        *)
(* component has none, and no liveness property speaks of it.              *)
ResumedStudy == Study /\ Fairness
=============================================================================
