------------------------------ MODULE Rollout ------------------------------
(***************************************************************************)
(* One episode of a chain of lookups as its two runners drive it, and the  *)
(* readings taken of it afterwards: RolloutEngine (multidistill.py), whose *)
(* records the acceptance filters and the view selection read, and         *)
(* run_episode (suite/evaluate.py), whose traces provenance.py certifies a *)
(* second time from their bytes.                                           *)
(*                                                                         *)
(* Node i of the chain takes the value node i-1 gave; a call is known by   *)
(* the node it asks for, 0 for none, and by how it is spelt: a key or a    *)
(* unit in another case is another call (its arguments have another        *)
(* digest) that gets the same answer.  The module Episode has the runtime  *)
(* in full; here it is what one such call answers.  Values are random, so  *)
(* an agent passes only what it has been shown, but it may say anything.   *)
(***************************************************************************)
EXTENDS Integers, Sequences, FiniteSets

CONSTANTS
  H,             \* the nodes of the chain; value H is the answer
  Faults,        \* the faults considered: [node, kind], node 0 for none
  Spellings,     \* the ways to spell a call
  Registered,    \* the one the nodes are written in
  MaxDecisions, MaxCalls,  \* the budgets of the task
  MaxStray,      \* bound on the calls no node asks for, or spelt otherwise than it
                 \* is, or of no existing tool
  MaxAsides,     \* bound on the turns that say an answer beside their calls
  CallSlack, FaultSlack,   \* acceptance.call_upper_slack and faulted_extra
  MaxRedundant,  \* acceptance.max_redundant_calls
  MaxLate,       \* acceptance.recovery.max_decisions_after_fault
  MaxRetries     \* acceptance.recovery.max_identical_retries

RolloutAssumption ==
  /\ H \in Nat \ {0} /\ MaxDecisions \in Nat \ {0} /\ MaxCalls \in Nat \ {0}
  /\ Registered \in Spellings
  /\ {MaxStray, MaxAsides, CallSlack, FaultSlack, MaxRedundant, MaxLate,
      MaxRetries} \subseteq Nat
  /\ \A f \in Faults :
       f.node \in 0..H /\ f.kind \in {"none", "transient", "rate_limit", "wrong_unit"}

ASSUME RolloutAssumption

VARIABLES
  runner,       \* "engine" or "evaluator"
  fault,        \* the fault this episode was assigned
  messages,     \* what the assistant said, and the event behind a tool's answer
  events,       \* the calls the runtime dispatched, and what they exposed
  clock,        \* decisions begun
  turn,         \* "open": calls emitted, none handled; "acting": some handled
  capped,       \* one more call than MaxCalls was attempted
  ending,       \* why the runner stopped, "none" while it runs
  final         \* the final text the runner handed to the verifier

rollout == <<runner, fault, messages, events, clock, turn, capped, ending, final>>

(* What a text or a result holds: value i of node i, or one of these. *)
Silent   == 0        \* nothing
Trap     == H + 1    \* the value in the wrong unit
Refused  == H + 2    \* the fault's error, with its recovery token
Limited  == H + 3    \* a rate limit still in force
Failed   == H + 4    \* the error of a useless call
Invented == H + 5    \* a value no tool gives
Prose    == H + 6    \* words that commit to no value

Values  == 1..Trap
Errors  == {Refused, Limited, Failed}
Commits(text) == text \in Values \cup {Invented}

Assistant(says) == [role |-> "assistant", says |-> says, event |-> 0]
ToolMessage(k)  == [role |-> "tool", says |-> Silent, event |-> k]

Clean == fault.node = 0
Ended == ending # "none"

RolloutInit ==
  /\ runner \in {"engine", "evaluator"} /\ fault \in Faults
  /\ messages = <<>> /\ events = <<>> /\ clock = 0 /\ turn = "none"
  /\ capped = FALSE /\ ending = "none" /\ final = Silent

-----------------------------------------------------------------------------
(* The runtime. *)
CreditOf(i) == {e.decision : e \in {events[k] : k \in {j \in DOMAIN events :
                                      events[j].credited /\ events[j].id = i}}}
Progress    == Cardinality({k \in DOMAIN events : events[k].credited})
FiredAt     == {events[k].decision : k \in {j \in DOMAIN events : events[j].fault}}

Eligible(id) == id = Progress + 1 /\ \A d \in CreditOf(id - 1) : d < clock

Spoils(id) == id = fault.node /\ id > 0 /\ Eligible(id) /\ FiredAt = {}

Result(id) ==
  CASE id = 0     -> Failed
    [] Spoils(id) -> IF fault.kind = "wrong_unit" THEN Trap ELSE Refused
    [] id = fault.node /\ Eligible(id) /\ fault.kind = "rate_limit" /\ clock \in FiredAt
                  -> Limited
    [] OTHER      -> id

(* What an earlier decision showed: the agent emits a turn's calls together.*)
Shown(result) == \E k \in DOMAIN events :
                   events[k].result = result /\ events[k].decision < clock

Callable(id) == id > 1 => Shown(id - 1)

-----------------------------------------------------------------------------
(* The runners.  A decision with calls opens a turn; its calls are handled  *)
(* one by one.                                                              *)
Asides == {m \in DOMAIN messages : Commits(messages[m].says)}

Ask(says) ==
  /\ ~ Ended /\ turn # "open" /\ clock < MaxDecisions
  /\ Commits(says) => Cardinality(Asides) < MaxAsides
  /\ clock' = clock + 1 /\ turn' = "open"
  /\ messages' = Append(messages, Assistant(says))
  /\ UNCHANGED <<runner, fault, events, capped, ending, final>>

Unknown == {m \in DOMAIN messages : messages[m].role = "tool" /\ messages[m].event = 0}
Stray   == Cardinality(Unknown)
             + Cardinality({k \in DOMAIN events :
                              events[k].id = 0 \/ events[k].spelling # Registered})

Event(id, spelling, echo) ==
  [decision |-> clock, id |-> id, spelling |-> spelling, echo |-> echo,
   result |-> Result(id), fault |-> Spoils(id),
   credited |-> Result(id) = id /\ Eligible(id)]

Dispatch(id, spelling, echo) ==
  /\ ~ Ended /\ turn # "none" /\ Len(events) < MaxCalls
  /\ Callable(id) /\ (echo => id = fault.node /\ Shown(Refused))
  /\ id = 0 \/ spelling # Registered => Stray < MaxStray
  /\ turn' = "acting"
  /\ events' = Append(events, Event(id, spelling, echo))
  /\ messages' = Append(messages, ToolMessage(Len(events) + 1))
  /\ UNCHANGED <<runner, fault, clock, capped, ending, final>>

(* The engine answers for a tool that does not exist; the runtime never     *)
(* hears of it.                                                             *)
CallUnknown ==
  /\ ~ Ended /\ turn # "none" /\ Len(events) < MaxCalls
  /\ runner = "engine" /\ Stray < MaxStray
  /\ turn' = "acting"
  /\ messages' = Append(messages, ToolMessage(0))
  /\ UNCHANGED <<runner, fault, events, clock, capped, ending, final>>

(* One call too many: the rest of the turn is dropped.  The engine goes on, *)
(* the evaluator stops.                                                     *)
CallCap ==
  /\ ~ Ended /\ turn # "none" /\ Len(events) >= MaxCalls
  /\ turn' = "none" /\ capped' = TRUE
  /\ ending' = IF runner = "evaluator" THEN "call_cap" ELSE ending
  /\ UNCHANGED <<runner, fault, messages, events, clock, final>>

(* A decision without calls is the answer; the engine voids one cut short.  *)
Answer(says, truncated) ==
  /\ ~ Ended /\ turn # "open" /\ clock < MaxDecisions
  /\ truncated => runner = "engine"
  /\ clock' = clock + 1 /\ turn' = "none"
  /\ messages' = Append(messages, Assistant(says))
  /\ ending' = IF truncated THEN "token_budget" ELSE "answered"
  /\ final' = IF truncated THEN Silent ELSE says
  /\ UNCHANGED <<runner, fault, events, capped>>

Exhaust ==
  /\ ~ Ended /\ turn # "open" /\ clock = MaxDecisions
  /\ ending' = "decision_budget" /\ turn' = "none"
  /\ UNCHANGED <<runner, fault, messages, events, clock, capped, final>>

(* The evaluator's clock runs out, or it cannot parse the reply.            *)
Break(why) ==
  /\ ~ Ended /\ turn # "open" /\ clock < MaxDecisions
  /\ runner = "evaluator"
  /\ ending' = why /\ turn' = "none"
  /\ messages' = IF why = "parser_budget" THEN Append(messages, Assistant(Prose))
                 ELSE messages
  /\ UNCHANGED <<runner, fault, events, clock, capped, final>>

(* What the engine's turns say beside their calls is never read again.      *)
RolloutNext ==
  \/ Ask(Silent)
  \/ runner = "evaluator" /\ Ask(H)
  \/ \E id \in 0..H, spelling \in Spellings, echo \in BOOLEAN : Dispatch(id, spelling, echo)
  \/ CallUnknown \/ CallCap \/ Exhaust
  \/ \E says \in {Silent, H, Invented} : Answer(says, FALSE)
  \/ Answer(H, TRUE)
  \/ \E why \in {"wall_clock", "parser_budget"} : Break(why)

RolloutSpec == RolloutInit /\ [][RolloutNext]_rollout

-----------------------------------------------------------------------------
(* Readings of a ledger: ev are its events, valid those whose receipt       *)
(* covers their bytes, said the final text it is read with.                 *)
Termination == IF capped THEN "call_cap" ELSE ending

(* canonical_args_digest: the identity of a call. *)
SameCall(e, f) == e.id = f.id /\ e.spelling = f.spelling

ErrorLoop(ev) ==
  \E k \in 3..Len(ev) : /\ ev[k].result \in Errors
                        /\ \A j \in {k - 1, k - 2} :
                             SameCall(ev[j], ev[k]) /\ ev[j].result = ev[k].result

NoAdvance(ev) ==
  \E k \in 4..Len(ev) : \A j \in k-3..k : \E i \in 1..j-1 : ev[i].result = ev[j].result

Runaway(ev) ==
  \/ Len(ev) > MaxCalls \/ ErrorLoop(ev) \/ NoAdvance(ev)
  \/ Termination \in {"token_budget", "wall_clock", "parser_budget", "call_cap"}

(* The last valid event that shows the committed answer, 0 for none.        *)
Source(ev, valid, said) ==
  LET showing == {k \in valid : ev[k].result = H}
  IN IF said # H \/ showing = {} THEN 0
     ELSE CHOOSE k \in showing : \A j \in showing : j <= k

Hallucinated(ev, valid, said) ==
  \/ Cardinality({m \in DOMAIN messages : messages[m].role = "tool"}) > Len(ev)
  \/ Commits(said) /\ \A k \in valid : ev[k].result # said

Reading(ev, valid, said) ==
  [raw |-> said = H, receipts |-> valid = DOMAIN ev, runaway |-> Runaway(ev),
   hallucinated |-> Hallucinated(ev, valid, said), source |-> Source(ev, valid, said)]

Sound(r) == r.raw /\ r.receipts /\ r.source # 0 /\ ~ r.runaway /\ ~ r.hallucinated

-----------------------------------------------------------------------------
(* The strict verifier, at the end of the run. *)
FireCall == CHOOSE k \in DOMAIN events : events[k].fault

(* The later calls the verifier looks at: where a token was minted, only    *)
(* those that are the faulted call over again.                              *)
Judged == {k \in DOMAIN events :
             /\ k > FireCall /\ events[k].id = fault.node
             /\ fault.kind # "wrong_unit" => SameCall(events[k], events[FireCall])}

(* Those that perform the registered remedy, and those that were answered.  *)
Attempts ==
  {k \in Judged : /\ fault.kind # "wrong_unit" => events[k].echo
                  /\ fault.kind # "transient" =>
                       events[k].decision > events[FireCall].decision}

Canonical == {k \in Judged : events[k].result = fault.node}

(* The call that established the result, if the agent earned it.            *)
Remedied == {k \in Canonical \cap Attempts : \A j \in Canonical : k <= j}

Reason ==
  IF FiredAt = {}        THEN "not_exposed"
  ELSE IF Remedied # {}  THEN "ok"
  ELSE IF Canonical # {} THEN "blind_retry"
  ELSE IF Attempts # {}  THEN "no_post_fault_result"
  ELSE "no_remediation"

Verdict == Reading(events, DOMAIN events, final)

Certified ==
  /\ Sound(Verdict) /\ Progress = H /\ Len(events) <= MaxCalls
  /\ Clean \/ Reason = "ok"

-----------------------------------------------------------------------------
(* provenance.py, from the serialized trace: the bytes of event `forged'    *)
(* were changed after the run, or of none if it is 0.                       *)
Trace(forged) == IF forged = 0 THEN events ELSE [events EXCEPT ![forged].result = Failed]
Valid(forged) == DOMAIN events \ {forged}

(* _final_assistant_text: the last assistant message that is not empty.     *)
FinalText ==
  LET said == {m \in DOMAIN messages : messages[m].says # Silent}
  IN IF said = {} THEN final ELSE messages[CHOOSE m \in said : \A j \in said : j <= m].says

(* Defective variant: every event is read, whatever its receipt says.       *)
LedgerUnreceipted(forged) == Reading(Trace(forged), DOMAIN events, FinalText)

Ledger(forged) == Reading(Trace(forged), Valid(forged), FinalText)

LedgerCertified(forged) == Sound(Ledger(forged)) /\ Certified

Agrees(forged) == Ledger(forged) = Verdict /\ (Certified => Sound(Ledger(forged)))

(* certify_recovery: the verifier's report, under the ledger's conditions.  *)
RecoveryCertified(forged) ==
  LET r == Ledger(forged)
  IN /\ ~ Clean /\ FiredAt # {} /\ FireCall \in Valid(forged)
     /\ ~ r.hallucinated /\ ~ r.runaway
     /\ Reason = "ok"
     /\ r.raw /\ r.source > FireCall
     /\ LedgerCertified(forged)

(* certify_orchestration: a call feeds one of a later decision that takes   *)
(* its value, and every node must be on the dataflow into the answer.       *)
Feeds(a, b) == /\ events[a].decision < events[b].decision
               /\ events[b].id > 1 /\ events[a].result = events[b].id - 1

(* What reaches the answer over such edges: every set with the answer's     *)
(* call and whatever feeds a call of the set.                               *)
Backwards(S) == /\ Verdict.source \in S
                /\ \A b \in S, a \in DOMAIN events : Feeds(a, b) => a \in S
Contributing == {k \in DOMAIN events :
                   \A S \in SUBSET DOMAIN events : Backwards(S) => k \in S}

Orchestrated ==
  /\ LedgerCertified(0)
  /\ \A i \in 1..H : \E k \in Contributing : events[k].id = i

-----------------------------------------------------------------------------
(* multidistill.py: what a rollout is accepted and taught for. *)
Duplicates == {k \in DOMAIN events : \E j \in 1..k-1 : SameCall(events[j], events[k])}

Budgeted ==
  /\ Len(events) \in H..(H + CallSlack + IF Clean THEN 0 ELSE FaultSlack)
  /\ Cardinality(Duplicates) <= MaxRedundant

RecoveryCall == CHOOSE k \in Remedied : TRUE

PostFaultRetries == {k \in DOMAIN events : k > FireCall /\ events[k].id = fault.node}

RecoveryAccepted ==
  Clean \/ /\ FiredAt # {} /\ Reason = "ok"
           /\ events[RecoveryCall].decision - events[FireCall].decision <= MaxLate
           /\ Cardinality(PostFaultRetries) <= MaxRetries

RecordAccepted ==
  /\ runner = "engine" /\ ending = "answered" /\ ~ capped /\ Unknown = {}
  /\ Commits(final) /\ Certified /\ Budgeted /\ RecoveryAccepted

(* The assistant message whose calls an event is one of.                    *)
MessageOf(k) == CHOOSE m \in DOMAIN messages : messages[m].event = k

TurnOf(k) ==
  CHOOSE m \in 1..MessageOf(k) :
    /\ messages[m].role = "assistant"
    /\ \A j \in m+1..MessageOf(k) : messages[j].role = "tool"

(* Defective variant: the turn that hit the fault counts as after it.       *)
PostFromFaultTurn == {m \in DOMAIN messages :
                        messages[m].role = "assistant" /\ m >= TurnOf(FireCall)
                        /\ m # Len(messages)}

(* The turns after the fault's result, the answer excepted.                 *)
Post == {m \in DOMAIN messages :
           messages[m].role = "assistant" /\ m > MessageOf(FireCall) /\ m # Len(messages)}

(* select_views: the turns taught as recovery, the first one after the      *)
(* fault and the certified one.                                             *)
RecoveryTurns ==
  IF Clean THEN {}
  ELSE {m \in Post : \A j \in Post : m <= j} \cup (Post \cap {TurnOf(RecoveryCall)})

-----------------------------------------------------------------------------
(* What got the faulted node's value after the fault, however it was spelt. *)
Obtained == {k \in DOMAIN events : k > FireCall /\ events[k].result = fault.node}

(* An accepted rollout that met a fault teaches a recovery that was earned: *)
(* a call that is the faulted one over again, with its token (and in a      *)
(* later decision; or any call for the value that had seen the wrong unit)  *)
(* got the value, and what got it before was spelt otherwise than the       *)
(* faulted call, never a blind retry of it and never after a wrong unit;    *)
(* the turn that asked is taught, and no turn is taught as recovery that    *)
(* had not seen the fault or came after that call.                          *)
RecoveryTaught ==
  (RecordAccepted /\ ~ Clean) =>
    \E k \in Obtained :
      /\ \/ fault.kind = "wrong_unit"
         \/ SameCall(events[k], events[FireCall]) /\ events[k].echo
      /\ fault.kind = "transient" \/ events[k].decision > events[FireCall].decision
      /\ \A j \in Obtained : \/ k <= j
                             \/ /\ fault.kind # "wrong_unit"
                                /\ events[j].spelling # events[FireCall].spelling
      /\ TurnOf(k) \in RecoveryTurns
      /\ \A m \in RecoveryTurns : TurnOf(FireCall) < m /\ m <= TurnOf(k)

(* "equality is the right assertion and a difference is a harness defect    *)
(* (or a tampered trace)": of an untouched trace the verifier and the       *)
(* ledger read the same, unless the run ended with no final text after a    *)
(* turn that had said an answer; they certify the same recoveries, and find *)
(* the whole chain behind a certified answer.  Changing any event is        *)
(* noticed, and nothing is certified from it.                               *)
ReadingsAgree ==
  (runner = "evaluator" /\ Ended) =>
    /\ Agrees(0) \/ (final = Silent /\ Asides # {})
    /\ RecoveryCertified(0) <=> (Certified /\ ~ Clean)
    /\ Certified => Orchestrated
    /\ \A k \in DOMAIN events :
         ~ Agrees(k) /\ ~ LedgerCertified(k) /\ ~ RecoveryCertified(k)
=============================================================================
