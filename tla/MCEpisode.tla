----------------------------- MODULE MCEpisode -----------------------------
(* An H14 episode: two lines.  Of the four read steps per line (knowledge  *)
(* base, calculator, conversion, quote) the conversion is kept for line 1, *)
(* where the wrong-unit trap lives, and the quote for both.                *)
EXTENDS Episode, FiniteSetsExt, TLC

MCLines  == 1..2
MCQty    == [l \in MCLines |-> l]
MCTotal  == [l \in MCLines |-> 3 - l]
MCStock  == [l \in MCLines |-> 2]
MCOwed   == [S \in SUBSET MCLines |-> MapThenSumSet(LAMBDA l : MCTotal[l], S)]
MCBudget == 3

Step(op, l) == [op |-> op, line |-> l]

MCNodes ==
  << Step("order", 0), Step("convert", 1), Step("quote", 1), Step("reserve", 1),
     Step("status", 1), Step("quote", 2), Step("reserve", 2), Step("status", 2),
     Step("finalize", 0) >>

(* Nothing but its difference from another tells a spelling apart. *)
MCSymmetry == Permutations(Spellings)

(* Every kind of fault, one in an episode or two. *)
MCPlans ==
  { (2 :> "wrong_unit") @@ (7 :> "rate_limit"), 4 :> "ambiguous",
    (5 :> "malformed") @@ (9 :> "transient") }

(* A fault on a read; a fault on a mutation. *)
MCReadFault      == { 2 :> "transient" }
MCAmbiguousFault == { 4 :> "ambiguous" }
=============================================================================
