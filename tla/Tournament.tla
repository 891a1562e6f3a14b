---------------------------- MODULE Tournament ----------------------------
(***************************************************************************)
(* The prompt tournament that freezes the control arm's prompt.            *)
(*                                                                         *)
(* Every candidate is rolled out over the round-one sample, the best two   *)
(* over another sample, and finalize freezes the winner of the pooled      *)
(* rows.  One file per round and candidate is the only memory between      *)
(* invocations: a file that exists is done, whatever its rows say.  An     *)
(* operator may name a candidate, force a unit or finalize again.          *)
(*                                                                         *)
(* The three axes have equal samples and equal weight, so a candidate's    *)
(* combined rate is its pooled fraction of successes.                      *)
(***************************************************************************)
EXTENDS Integers, Sequences, SequencesExt, FiniteSets, Nothing

CONSTANTS
  Candidates,      \* the candidates, shorter file first, then lower index
  Round1, Round2,  \* tasks of the two samples
  Checkouts,       \* the environment contracts a checkout may have
  MaxForced, MaxChanges  \* bounds on forced runs and on contract changes

TournamentAssumption ==
  /\ Round1 \in Nat \ {0} /\ Round2 \in Nat \ {0}
  /\ MaxForced \in Nat /\ MaxChanges \in Nat
ASSUME TournamentAssumption

VARIABLES
  checkout,  \* the environment contract of the checkout
  r1, r2,    \* per candidate its round file: the successes and, where anything
             \* reads it, the contract they are stamped with; None without one
  run,       \* the units an invocation has left; None when none runs
  winner,    \* the winner in the frozen file; None before it exists
  reworked,  \* rows were forced or discarded since the file was written
  forced, changes

tournamentVars == <<checkout, r1, r2, run, winner, reworked, forced, changes>>

Ids == ToSet(Candidates)
PlaceOf(c) == CHOOSE i \in DOMAIN Candidates : Candidates[i] = c
NoFiles == [c \in Ids |-> None]

TournamentInit ==
  /\ checkout \in Checkouts
  /\ r1 = NoFiles /\ r2 = NoFiles /\ run = None
  /\ winner = None /\ reworked = FALSE /\ forced = 0 /\ changes = 0

-----------------------------------------------------------------------------
(* axis_rates and rank: pooled rate, then the committed order.             *)
Tally(one, two) ==
  [won |-> (IF one = None THEN 0 ELSE one.won) + (IF two = None THEN 0 ELSE two),
   of  |-> (IF one = None THEN 0 ELSE Round1) + (IF two = None THEN 0 ELSE Round2)]

Better(t, c, d) ==
  \/ t[c].won * t[d].of > t[d].won * t[c].of
  \/ t[c].won * t[d].of = t[d].won * t[c].of /\ PlaceOf(c) < PlaceOf(d)

Ranking(t) == SetToSortSeq(DOMAIN t, LAMBDA c, d : Better(t, c, d))
TopTwo(order) == {order[i] : i \in DOMAIN order \cap {1, 2}}

Rolled(r)     == {c \in Ids : r[c] # None}
FirstRanking  == Ranking([c \in Rolled(r1) |-> Tally(r1[c], None)])
Finalists     == TopTwo(FirstRanking)

(* cmd_finalize: the rows of round one, and of the finalists' round two.   *)
Rows2Any(c)  == r2[c]  \* Defective variant: every round-two file counts.
Rows2(c)     == IF c \in Finalists THEN r2[c] ELSE None
Winner       == Ranking([c \in Ids |-> Tally(r1[c], Rows2(c))])[1]
Finalizable  == Rolled(r1) = Ids /\ Finalists \subseteq Rolled(r2)

-----------------------------------------------------------------------------
File(u) == IF u[1] = 1 THEN r1[u[2]] ELSE r2[u[2]]
UnitsOf(round, ids) ==
  LET chosen == SelectSeq(Candidates, LAMBDA c : c \in ids)
  IN [i \in DOMAIN chosen |-> <<round, chosen[i]>>]

(* Round two refuses rows of another contract; round one never looks.      *)
RowsCurrent  == \A c \in Rolled(r1) : r1[c].contract = checkout
Eligible(round) == IF round = 1 THEN Ids ELSE IF RowsCurrent THEN Finalists ELSE {}

(* cmd_run: of a round's units, or of the one a caller names, those that   *)
(* have no file yet, or all of them by force.                              *)
Start ==
  /\ run = None
  /\ \E round \in {1, 2}, force \in BOOLEAN :
     \E ids \in {Eligible(round)} \cup {{c} : c \in Ids} :
       LET pending == SelectSeq(UnitsOf(round, ids), LAMBDA u : force \/ File(u) = None)
       IN /\ pending # <<>> /\ run' = pending
          /\ forced' = forced + (IF force THEN 1 ELSE 0)
          /\ forced' <= MaxForced
  /\ UNCHANGED <<checkout, r1, r2, winner, reworked, changes>>

(* run_one: one unit is rolled out and its file written or replaced.       *)
RunUnit ==
  /\ run # None /\ run # <<>>
  /\ LET c == Head(run)[2]
         sample == IF Head(run)[1] = 1 THEN Round1 ELSE Round2
     IN \E won \in 0..sample :
          IF Head(run)[1] = 1
          THEN r1' = [r1 EXCEPT ![c] = [won |-> won, contract |-> checkout]] /\ UNCHANGED r2
          ELSE r2' = [r2 EXCEPT ![c] = won] /\ UNCHANGED r1
  /\ run' = Tail(run)
  /\ reworked' = (reworked \/ File(Head(run)) # None)
  /\ UNCHANGED <<checkout, winner, forced, changes>>

(* The units are through, the budget is spent, or the engine is killed.    *)
Stop ==
  /\ run # None /\ run' = None
  /\ UNCHANGED <<checkout, r1, r2, winner, reworked, forced, changes>>

Finalize ==
  /\ Finalizable
  /\ winner' = Winner /\ reworked' = FALSE
  /\ UNCHANGED <<checkout, r1, r2, run, forced, changes>>

(* What a stale round asks for: the directory is deleted by hand.          *)
Discard ==
  /\ run = None /\ ~ RowsCurrent
  /\ r1' = NoFiles /\ r2' = NoFiles /\ reworked' = TRUE
  /\ UNCHANGED <<checkout, run, winner, forced, changes>>

ChangeContract ==
  /\ run = None /\ changes < MaxChanges /\ changes' = changes + 1
  /\ checkout' \in Checkouts \ {checkout}
  /\ UNCHANGED <<r1, r2, run, winner, reworked, forced>>

(* stage_prompt: passes over a round until none is left, then finalize; the *)
(* same commands may be given by hand.                                     *)
Stage == Start \/ RunUnit \/ Stop \/ Finalize

TournamentNext == \/ Stage \/ Discard \/ ChangeContract
TournamentSpec == TournamentInit /\ [][TournamentNext]_tournamentVars

-----------------------------------------------------------------------------
(* Until somebody forces a unit or deletes the rows, the frozen winner is  *)
(* the one finalize would write again, whatever units are run later and    *)
(* whenever finalize ran among them (cmd_run, cmd_finalize).               *)
FrozenStands == winner # None /\ ~ reworked => Finalizable /\ winner = Winner
=============================================================================
