------------------------------- MODULE Lineage -------------------------------
(***************************************************************************)
(* What the training corpus promises, without files or processes: builds   *)
(* are published and withdrawn, one at a time; none stands while the last  *)
(* attempt is refused; and an adapter that can be locked was trained on a  *)
(* build that was published, perhaps since withdrawn.                      *)
(***************************************************************************)
CONSTANTS
  Registered,   \* the builds that meet the registered minimum
  Nobody        \* no build

VARIABLES
  published,    \* the builds published so far
  standing,     \* the one that stands
  refused,      \* the last attempt ended in a refusal
  adapter       \* the build of the adapter that can be locked

vars == <<published, standing, refused, adapter>>

Init == published = {} /\ standing = Nobody /\ refused = FALSE /\ adapter = Nobody

Publish ==
  /\ standing = Nobody /\ ~ refused
  /\ standing' \in Registered
  /\ published' = published \cup {standing'}
  /\ UNCHANGED <<refused, adapter>>

Withdraw == standing' = Nobody /\ UNCHANGED <<published, refused, adapter>>

Reconsider ==
  /\ standing = Nobody /\ refused' = ~ refused
  /\ UNCHANGED <<published, standing, adapter>>

Attest ==
  /\ adapter = Nobody /\ adapter' \in published
  /\ UNCHANGED <<published, standing, refused>>

Discard == adapter' = Nobody /\ UNCHANGED <<published, standing, refused>>

Next == Publish \/ Withdraw \/ Reconsider \/ Attest \/ Discard
Spec == Init /\ [][Next]_vars
=============================================================================
