------------------------------ MODULE ViewCap ------------------------------
(***************************************************************************)
(* The rows of the view corpus (suite/datasets.py): build_views turns each *)
(* accepted trajectory into rows or drops it, plan_view_cap cuts a build   *)
(* above the registered ceiling down to it, trajectory by trajectory, and  *)
(* require_expected_rows refuses what is left outside the range.           *)
(*                                                                         *)
(* A trajectory is the number of rows its view plan gives, 0 when it is    *)
(* dropped (another contract, no producer named, no committed answer, over *)
(* the token budget).  A corpus is a sequence of strata in the order of    *)
(* their names; a stratum's trajectories are in the order of their cap     *)
(* key, a hash: any order.                                                 *)
(***************************************************************************)
EXTENDS Integers, Sequences, FiniteSets, SequencesExt

CONSTANTS
  NumStrata,       \* the family and horizon cells
  RowCounts,       \* the rows one trajectory may give, 0 for none
  MaxTrajectories, \* bound on the trajectories of a stratum
  Lo, Hi,          \* views.expected_rows
  TerminalCopies   \* views.terminal_copies: rows of every trajectory's answer

ASSUME ViewCapAssumption ==
  /\ RowCounts \subseteq Nat
  /\ {NumStrata, MaxTrajectories, Lo, Hi, TerminalCopies} \subseteq Nat
  /\ \A n \in RowCounts : n = 0 \/ n >= TerminalCopies

Strata == 1..NumStrata

VARIABLES
  accepted,  \* the accepted trajectories of each stratum
  built,     \* those whose views were built
  kept,      \* those the cap keeps
  phase      \* "accepted", "built", "capped", "trainable", "refused"

capVars == <<accepted, built, kept, phase>>

(* The running totals of a sequence of numbers, the last one its sum.       *)
Totals(seq) ==
  LET upTo[n \in 0..Len(seq)] == IF n = 0 THEN 0 ELSE upTo[n - 1] + seq[n] IN upTo

Sum(seq) == Totals(seq)[Len(seq)]

Rows(corpus)  == Sum([s \in Strata |-> Sum(corpus[s])])
Count(corpus) == Sum([s \in Strata |-> Len(corpus[s])])

NoTrajectories == [s \in Strata |-> <<>>]

CapInit ==
  /\ accepted \in [Strata -> BoundedSeq(RowCounts, MaxTrajectories)]
  /\ built = NoTrajectories /\ kept = NoTrajectories /\ phase = "accepted"

(* The trajectories with views, in their order.  (A recursive function, as  *)
(* the proofs can open it; the prover knows nothing of SelectSeq.)          *)
WithViews(seq) ==
  LET upTo[n \in 0..Len(seq)] ==
        IF n = 0 THEN <<>>
        ELSE IF seq[n] > 0 THEN Append(upTo[n - 1], seq[n]) ELSE upTo[n - 1]
  IN upTo[Len(seq)]

(* build_views up to the cap. *)
Build ==
  /\ phase = "accepted"
  /\ built' = [s \in Strata |-> WithViews(accepted[s])]
  /\ phase' = "built"
  /\ UNCHANGED <<accepted, kept>>

-----------------------------------------------------------------------------
(* plan_view_cap above the ceiling: the first trajectory of every stratum   *)
(* is reserved, the other rows share what is left of the ceiling.           *)
Present   == {s \in Strata : built[s] # <<>>}
Others(s) == IF s \in Present THEN Tail(built[s]) ELSE <<>>
First     == [s \in Strata |-> IF s \in Present THEN Head(built[s]) ELSE 0]
Rest      == [s \in Strata |-> Sum(Others(s))]
Reserved  == Sum(First)
AllRest   == Sum(Rest)
Left      == Hi - Reserved

Quotient  == [s \in Strata |-> IF AllRest = 0 THEN 0 ELSE (Left * Rest[s]) \div AllRest]
Remainder == [s \in Strata |-> IF AllRest = 0 THEN 0 ELSE (Left * Rest[s]) % AllRest]
Leftover  == IF AllRest = 0 THEN 0 ELSE Left - Sum(Quotient)

(* Defective variant: the rows the division leaves over go to nobody.       *)
SharesRoundedDown == {Quotient}

(* The rows left over go one each to the strata of the largest remainders;  *)
(* the code compares floating-point remainders, so equal ones in any order. *)
Shares ==
  {[s \in Strata |-> Quotient[s] + IF s \in more THEN 1 ELSE 0] :
     more \in {S \in SUBSET Present :
                 /\ Cardinality(S) = Leftover
                 /\ \A s \in S, t \in Present \ S : Remainder[s] >= Remainder[t]}}

(* The longest prefix of the others that fits the stratum's share.          *)
Fits(s, share) == {n \in 0..Len(Others(s)) : Totals(Others(s))[n] <= share}
Fitting(s, share) == CHOOSE n \in Fits(s, share) : \A m \in Fits(s, share) : m <= n

Trimmed(share) ==
  [s \in Strata |-> IF s \in Present THEN SubSeq(built[s], 1, 1 + Fitting(s, share[s]))
                    ELSE <<>>]

Applied == Rows(built) > Hi

Cap ==
  /\ phase = "built"
  /\ IF ~ Applied THEN kept' = built /\ phase' = "capped"
     ELSE IF Reserved > Hi THEN phase' = "refused" /\ UNCHANGED kept
     ELSE \E share \in Shares :
            /\ kept' = Trimmed(share)
            /\ phase' = IF Rows(kept') \in Lo..Hi THEN "capped" ELSE "refused"
  /\ UNCHANGED <<accepted, built>>

(* require_expected_rows: the range, and the answers' share of the rows, at *)
(* least a half (views.terminal_weight_min).                                *)
Require ==
  /\ phase = "capped"
  /\ phase' = IF /\ Rows(kept) \in Lo..Hi
                 /\ 2 * TerminalCopies * Count(kept) >= Rows(kept)
              THEN "trainable" ELSE "refused"
  /\ UNCHANGED <<accepted, built, kept>>

CapNext == Build \/ Cap \/ Require

CapSpec == CapInit /\ [][CapNext]_capVars

-----------------------------------------------------------------------------
(* The cap takes no more than it must.  It is inert below the ceiling;      *)
(* above it, what it keeps fits, every stratum keeps its first trajectory   *)
(* and drops only from the end of the key's order, and the rows it leaves   *)
(* unused are fewer, per stratum cut, than one trajectory: so the refusal   *)
(* it ends with can come only of trajectories too long for the range, as    *)
(* its message says.                                                        *)
Cut        == {s \in Present : kept[s] # built[s]}
Longest(s) == CHOOSE n \in Range(built[s]) : \A m \in Range(built[s]) : m <= n

Filled ==
  IF ~ Applied THEN kept = built
  ELSE /\ Rows(kept) <= Hi
       /\ \A s \in Present : kept[s] # <<>> /\ IsPrefix(kept[s], built[s])
       /\ Hi - Rows(kept) <= Sum([s \in Strata |-> IF s \in Cut THEN Longest(s) - 1 ELSE 0])

CapFills == (phase \in {"capped", "trainable"} \/ kept # NoTrajectories) => Filled
=============================================================================
