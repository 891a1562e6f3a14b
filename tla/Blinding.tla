------------------------------ MODULE Blinding ------------------------------
(***************************************************************************)
(* What the held-out release promises, without git, files or receipts: the *)
(* seed of the held-out set is one published lock, it is chosen once, and  *)
(* an arm is evaluated only on the set of the chosen seed.                 *)
(***************************************************************************)
CONSTANT Locks        \* what a seed can be a function of

VARIABLES
  published,          \* the locks anyone can read
  seed,               \* the lock the seed was drawn from: at most one
  evaluated           \* the seeds some arm was evaluated on

vars == <<published, seed, evaluated>>

Init == published = {} /\ seed = {} /\ evaluated = {}

Publish ==
  /\ published \subseteq published' /\ published' \subseteq Locks
  /\ UNCHANGED <<seed, evaluated>>

Draw(l) ==
  /\ l \in published /\ seed = {}
  /\ seed' = {l}
  /\ UNCHANGED <<published, evaluated>>

Evaluate ==
  /\ evaluated' = seed
  /\ UNCHANGED <<published, seed>>

Next == Publish \/ (\E l \in Locks : Draw(l)) \/ Evaluate

Spec == Init /\ [][Next]_vars
=============================================================================
