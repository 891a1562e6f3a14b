--------------------------- MODULE PairedCensus ---------------------------
(***************************************************************************)
(* What the paired evaluation promises, whatever happens to the processes  *)
(* that carry it out: a traced episode stays traced, episodes are traced   *)
(* one at a time, and the evaluation is declared over once and only when   *)
(* every episode the census asks for is traced.                            *)
(***************************************************************************)
CONSTANTS
  Episodes,  \* a trace file and a task
  Required   \* those of the mandatory manifests and arms

VARIABLES traced, declared
vars == <<traced, declared>>

Init == traced = {} /\ declared = FALSE

Trace(e) == ~ declared /\ e \notin traced /\ traced' = traced \cup {e} /\ UNCHANGED declared
Declare  == ~ declared /\ Required \subseteq traced /\ declared' = TRUE /\ UNCHANGED traced

Next == Declare \/ \E e \in Episodes : Trace(e)
Spec == Init /\ [][Next]_vars
=============================================================================
