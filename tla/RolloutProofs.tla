---------------------------- MODULE RolloutProofs ----------------------------
(***************************************************************************)
(* The readings of a rollout, for a chain of any length, any budgets, any  *)
(* fault and any agent: what is accepted teaches the recovery it earned,   *)
(* and the verifier and the certification of the trace read the same.      *)
(*                                                                         *)
(* The readings are taken of the finished run, so each rests on how the    *)
(* two records grew: the events (credits follow the chain, each in a later *)
(* decision than the one before; one fault, before its node is credited;   *)
(* a token is echoed later than it was shown) and the transcript (one tool *)
(* message per event in the same order, an assistant message wherever the  *)
(* decision changed, the final text as its last word).                     *)
(***************************************************************************)
EXTENDS Rollout, SequenceTheorems, FiniteSetTheorems, WellFoundedInduction, TLAPS

Events   == [decision : Nat, id : 0..H, spelling : Spellings, echo : BOOLEAN,
             result : Nat, fault : BOOLEAN, credited : BOOLEAN]
Messages == [role : {"assistant", "tool"}, says : Nat, event : Nat]

RolloutType ==
  /\ runner \in {"engine", "evaluator"} /\ fault \in Faults
  /\ clock \in Nat /\ final \in Nat
  /\ events \in Seq(Events) /\ messages \in Seq(Messages)

Credited == {k \in DOMAIN events : events[k].credited}

(* How the events grow. *)
EventOrder ==
  \A k \in DOMAIN events :
    /\ events[k].decision <= clock
    /\ \A j \in DOMAIN events : j < k => events[j].decision <= events[k].decision

EventResults ==
  \A k \in DOMAIN events :
    /\ events[k].result \in 1..H => events[k].result = events[k].id
    /\ events[k].result = Refused => events[k].fault
    /\ events[k].echo => \E j \in DOMAIN events :
                           /\ events[j].result = Refused
                           /\ events[j].decision < events[k].decision

CreditChain ==
  /\ \A k \in Credited : events[k].id \in 1..Progress /\ events[k].result = events[k].id
  /\ \A i \in 1..Progress : \E k \in Credited : events[k].id = i
  /\ \A j, k \in Credited : events[k].id = events[j].id + 1
                              => events[j].decision < events[k].decision

OneFault ==
  \A k \in DOMAIN events : events[k].fault =>
    /\ events[k].id = fault.node /\ fault.node > 0
    /\ \A j \in DOMAIN events : events[j].fault => j = k
    /\ \A j \in Credited : events[j].id >= fault.node => k < j

(* How the transcript follows them. *)
Handled ==
  /\ \A m \in DOMAIN messages :
       messages[m].event > 0 => messages[m].role = "tool" /\ messages[m].event \in DOMAIN events
  /\ \A k \in DOMAIN events : \E m \in DOMAIN messages : messages[m].event = k
  /\ \A m, n \in DOMAIN messages :
       messages[m].event > 0 /\ messages[m].event = messages[n].event => m = n

Prompted(m, n) == \E a \in DOMAIN messages :
                    messages[a].role = "assistant" /\ m < a /\ a < n

TurnsApart ==
  /\ turn # "none" => messages # <<>>
  /\ messages # <<>> => messages[1].role = "assistant"
  /\ \A m, n \in DOMAIN messages :
       (/\ messages[m].event > 0 /\ messages[n].event > 0
        /\ events[messages[m].event].decision < events[messages[n].event].decision)
         => Prompted(m, n)
  /\ \A m \in DOMAIN messages :
       messages[m].event > 0 /\ events[messages[m].event].decision < clock
         => Prompted(m, Len(messages) + 1)

LastWords ==
  /\ \A m \in DOMAIN messages : messages[m].says \in {Silent, H, Invented, Prose}
  /\ final # Silent => /\ Ended /\ messages # <<>>
                       /\ messages[Len(messages)].says = final
  /\ (final = Silent /\ runner = "evaluator") =>
       \A m \in DOMAIN messages : messages[m].says # Invented

RolloutInv ==
  /\ RolloutType /\ EventOrder /\ EventResults /\ CreditChain /\ OneFault
  /\ Handled /\ TurnsApart /\ LastWords

-----------------------------------------------------------------------------
LEMMA Words ==
  /\ H \in Nat /\ H >= 1 /\ Silent = 0 /\ Trap = H + 1 /\ Refused = H + 2
  /\ Limited = H + 3 /\ Failed = H + 4 /\ Invented = H + 5 /\ Prose = H + 6
  /\ Values = 1..(H + 1)
  /\ \A f \in Faults : f.node \in 0..H
  BY RolloutAssumption
  DEF RolloutAssumption, Silent, Trap, Refused, Limited, Failed, Invented, Prose, Values

LEMMA Appended ==
  ASSUME NEW S, NEW seq \in Seq(S), NEW elt \in S
  PROVE  LET new == Append(seq, elt)
         IN /\ new \in Seq(S) /\ Len(new) = Len(seq) + 1 /\ Len(seq) \in Nat
            /\ DOMAIN seq = 1..Len(seq)
            /\ DOMAIN new = 1..(Len(seq) + 1)
            /\ \A i \in 1..Len(seq) : new[i] = seq[i]
            /\ new[Len(seq) + 1] = elt
            /\ new # <<>>
  BY AppendProperties, LenProperties

LEMMA Typed ==
  ASSUME RolloutType
  PROVE  /\ Len(events) \in Nat /\ DOMAIN events = 1..Len(events)
         /\ Len(messages) \in Nat /\ DOMAIN messages = 1..Len(messages)
         /\ \A k \in DOMAIN events :
              /\ events[k] \in Events /\ events[k].decision \in Nat
              /\ events[k].id \in 0..H /\ events[k].result \in Nat
         /\ \A m \in DOMAIN messages :
              /\ messages[m] \in Messages /\ messages[m].event \in Nat
              /\ messages[m].says \in Nat
<1>1. /\ Len(events) \in Nat /\ DOMAIN events = 1..Len(events)
      /\ Len(messages) \in Nat /\ DOMAIN messages = 1..Len(messages)
  BY LenProperties DEF RolloutType
<1>2. \A k \in DOMAIN events : events[k] \in Events
  BY ElementOfSeq, <1>1 DEF RolloutType
<1>3. \A m \in DOMAIN messages : messages[m] \in Messages
  BY ElementOfSeq, <1>1 DEF RolloutType
<1> QED
  BY <1>1, <1>2, <1>3 DEF Events, Messages

(* A step that leaves the events alone leaves what is known of them alone.  *)
LEMMA EventsKept ==
  ASSUME RolloutInv, UNCHANGED <<events, fault>>, clock' \in Nat, clock <= clock'
  PROVE  EventOrder' /\ EventResults' /\ CreditChain' /\ OneFault'
<1>1. \A k \in DOMAIN events : events[k].decision \in Nat
  BY Typed DEF RolloutInv
<1>2. EventOrder'
  BY <1>1 DEF RolloutInv, RolloutType, EventOrder
<1>3. EventResults' /\ CreditChain' /\ OneFault'
  BY DEF RolloutInv, EventResults, CreditChain, OneFault, Credited, Progress
<1> QED
  BY <1>2, <1>3

(* A message that answers no event keeps the transcript in order, when it   *)
(* is the assistant's or the decision goes on.                              *)
LEMMA TranscriptGrows ==
  ASSUME RolloutInv, UNCHANGED events, NEW msg \in Messages, msg.event = 0,
         messages' = Append(messages, msg), clock' \in Nat,
         \/ msg.role = "assistant"
         \/ messages # <<>> /\ clock' = clock
  PROVE  Handled' /\ TurnsApart' /\ messages' \in Seq(Messages)
<1> DEFINE L == Len(messages)
<1>1. /\ messages' \in Seq(Messages) /\ L \in Nat /\ DOMAIN messages = 1..L
      /\ DOMAIN messages' = 1..(L + 1) /\ Len(messages') = L + 1
      /\ \A m \in 1..L : messages'[m] = messages[m]
      /\ messages'[L + 1] = msg /\ messages' # <<>>
  BY Appended DEF RolloutInv, RolloutType
<1>2. Handled'
  BY <1>1 DEF RolloutInv, Handled
<1>3. \A m, n : Prompted(m, n) => Prompted(m, n)'
  BY <1>1 DEF Prompted
<1>4. messages'[1].role = "assistant"
  <2>1. CASE messages = <<>>
    BY <1>1, <2>1
  <2>2. CASE messages # <<>>
    <3>1. 1 \in 1..L
      BY <1>1, <2>2 DEF RolloutInv, RolloutType
    <3> QED
      BY <1>1, <2>2, <3>1 DEF RolloutInv, TurnsApart
  <2> QED
    BY <2>1, <2>2
<1>5. ASSUME NEW m \in DOMAIN messages', NEW n \in DOMAIN messages',
             messages'[m].event > 0, messages'[n].event > 0,
             events[messages'[m].event].decision < events[messages'[n].event].decision
      PROVE  Prompted(m, n)'
  <2>1. m \in 1..L /\ n \in 1..L
    BY <1>1, <1>5
  <2> QED
    BY <1>1, <1>3, <1>5, <2>1 DEF RolloutInv, TurnsApart
<1>6. ASSUME NEW m \in DOMAIN messages', messages'[m].event > 0,
             events[messages'[m].event].decision < clock'
      PROVE  Prompted(m, Len(messages) + 1)'
  <2>1. m \in 1..L
    BY <1>1, <1>6
  <2>2. CASE msg.role = "assistant"
    BY <1>1, <2>1, <2>2 DEF Prompted
  <2>3. CASE clock' = clock
    <3>1. Prompted(m, L + 1)
      BY <1>1, <1>6, <2>1, <2>3 DEF RolloutInv, TurnsApart
    <3> QED
      BY <1>1, <2>1, <3>1 DEF Prompted
  <2> QED
    BY <2>2, <2>3
<1>7. TurnsApart'
  BY <1>1, <1>4, <1>5, <1>6 DEF TurnsApart
<1> QED
  BY <1>1, <1>2, <1>7

LEMMA TranscriptKept ==
  ASSUME RolloutInv, UNCHANGED <<events, messages, clock>>, turn' \in {turn, "none"}
  PROVE  Handled' /\ TurnsApart'
  BY DEF RolloutInv, Handled, TurnsApart, Prompted


-----------------------------------------------------------------------------
(* A dispatched call. *)
LEMMA CountCredits ==
  ASSUME RolloutInv
  PROVE  /\ IsFiniteSet(Credited) /\ Progress = Cardinality(Credited) /\ Progress \in Nat
<1>1. Credited \in SUBSET (1..Len(events))
  BY Typed DEF RolloutInv, Credited
<1>2. Len(events) \in Int /\ 1 \in Int
  BY Typed DEF RolloutInv
<1>3. IsFiniteSet(Credited)
  BY <1>1, <1>2, FS_Interval, FS_Subset
<1>4. Progress = Cardinality(Credited)
  BY DEF Progress, Credited
<1> QED
  BY <1>3, <1>4, FS_CardinalityType

(* What the runtime records of a call. *)
LEMMA NewEvent ==
  ASSUME RolloutInv, NEW id \in 0..H, NEW spelling \in Spellings, NEW echo \in BOOLEAN
  PROVE  LET e == Event(id, spelling, echo)
         IN /\ e \in Events /\ e.decision = clock /\ e.id = id /\ e.echo = echo
            /\ e.result \in 1..H => e.result = id
            /\ e.result = Refused => e.fault
            /\ e.credited => /\ e.result = id /\ id = Progress + 1
                             /\ \A d \in CreditOf(id - 1) : d < clock
            /\ e.fault => /\ id = fault.node /\ id > 0 /\ FiredAt = {}
                          /\ id = Progress + 1 /\ ~ e.credited
<1> DEFINE e == Event(id, spelling, echo)
<1>1. /\ e.decision = clock /\ e.id = id /\ e.echo = echo /\ e.result = Result(id)
      /\ e.fault = Spoils(id) /\ e.credited = (Result(id) = id /\ Eligible(id))
  BY DEF Event
<1>2. /\ Spoils(id) \in BOOLEAN
      /\ Spoils(id) => id = fault.node /\ id > 0 /\ FiredAt = {} /\ id = Progress + 1
  BY DEF Spoils, Eligible
<1>3. \/ id = 0 /\ Result(id) = Failed
      \/ id # 0 /\ Spoils(id) /\ Result(id) \in {Trap, Refused}
      \/ id # 0 /\ ~ Spoils(id) /\ Result(id) \in {Limited, id}
  <2>1. CASE id = 0
    <3>1. ~ Spoils(id) /\ ~ Eligible(id)
      BY <2>1, CountCredits DEF Spoils, Eligible
    <3>2. Result(id) = Failed
      BY <2>1, <3>1, Zenon DEF Result
    <3> QED
      BY <2>1, <3>2
  <2>2. CASE id # 0 /\ Spoils(id)
    <3>1. clock \notin FiredAt
      BY <2>2 DEF Spoils
    <3>2. Result(id) = IF fault.kind = "wrong_unit" THEN Trap ELSE Refused
      BY <2>2, <3>1, Zenon DEF Result
    <3> QED
      BY <2>2, <3>2
  <2>3. CASE id # 0 /\ ~ Spoils(id)
    <3>1. Result(id) = Limited \/ Result(id) = id
      BY <2>3, Zenon DEF Result
    <3> QED
      BY <2>3, <3>1
  <2> QED
    BY <2>1, <2>2, <2>3
<1>4. Result(id) \in Nat
  BY <1>3, Words
<1>5. e \in Events
  BY <1>2, <1>4 DEF Event, Events, RolloutInv, RolloutType
<1>6. /\ e.result \in 1..H => e.result = id
      /\ e.result = Refused => e.fault
  BY <1>1, <1>3, Words
<1>7. e.fault => Result(id) # id
  BY <1>1, <1>3, Words
<1>8. e.credited => /\ e.result = id /\ id = Progress + 1
                    /\ \A d \in CreditOf(id - 1) : d < clock
  BY <1>1 DEF Eligible
<1>9. e.fault => /\ id = fault.node /\ id > 0 /\ FiredAt = {} /\ id = Progress + 1
                 /\ ~ e.credited
  BY <1>1, <1>2, <1>7
<1> QED
  BY <1>1, <1>5, <1>6, <1>8, <1>9

LEMMA DispatchGrows ==
  ASSUME RolloutInv, NEW id \in 0..H, NEW spelling \in Spellings, NEW echo \in BOOLEAN,
         Dispatch(id, spelling, echo)
  PROVE  LET L == Len(events)
         IN /\ events' \in Seq(Events) /\ L \in Nat /\ DOMAIN events = 1..L
            /\ DOMAIN events' = 1..(L + 1)
            /\ \A k \in 1..L : events'[k] = events[k]
            /\ events'[L + 1] = Event(id, spelling, echo)
            /\ Credited' = IF Event(id, spelling, echo).credited THEN Credited \cup {L + 1}
                                                        ELSE Credited
            /\ Progress' = IF Event(id, spelling, echo).credited THEN Progress + 1 ELSE Progress
            /\ L + 1 \notin Credited
<1> DEFINE L == Len(events)
           e == Event(id, spelling, echo)
<1>1. events' = Append(events, e)
  BY DEF Dispatch
<1>2. e \in Events /\ events \in Seq(Events)
  BY NewEvent DEF RolloutInv, RolloutType
<1> HIDE DEF e
<1>3. /\ events' \in Seq(Events) /\ L \in Nat /\ DOMAIN events = 1..L
      /\ DOMAIN events' = 1..(L + 1)
      /\ \A k \in 1..L : events'[k] = events[k]
      /\ events'[L + 1] = e
  BY <1>1, <1>2, Appended
<1>4. L + 1 \notin Credited
  BY <1>3 DEF Credited
<1>5. Credited' = IF e.credited THEN Credited \cup {L + 1} ELSE Credited
  BY <1>3 DEF Credited
<1>6. Progress' = Cardinality(Credited')
  BY DEF Progress, Credited
<1>7. Progress' = IF e.credited THEN Progress + 1 ELSE Progress
  BY <1>4, <1>5, <1>6, CountCredits, FS_AddElement
<1> QED
  BY <1>3, <1>4, <1>5, <1>7 DEF e


LEMMA DispatchKeepsOrder ==
  ASSUME RolloutInv, NEW id \in 0..H, NEW spelling \in Spellings, NEW echo \in BOOLEAN,
         Dispatch(id, spelling, echo)
  PROVE  EventOrder' /\ EventResults'
<1> DEFINE L == Len(events)
           e == Event(id, spelling, echo)
<1>1. /\ L \in Nat /\ DOMAIN events = 1..L /\ DOMAIN events' = 1..(L + 1)
      /\ \A k \in 1..L : events'[k] = events[k]
      /\ events'[L + 1] = e
  BY DispatchGrows
<1>2. /\ e.decision = clock /\ e.id = id /\ e.echo = echo
      /\ e.result \in 1..H => e.result = id
      /\ e.result = Refused => e.fault
  BY NewEvent
<1>3. echo => Shown(Refused)
  BY DEF Dispatch
<1>4. clock' = clock /\ clock \in Nat
  BY DEF Dispatch, RolloutInv, RolloutType
<1> HIDE DEF e, L
<1>5. ASSUME NEW k \in 1..(L + 1), NEW j \in 1..(L + 1), j < k
      PROVE  events'[j].decision <= events'[k].decision
  <2>1. j \in 1..L
    BY <1>1, <1>5
  <2>2. CASE k \in 1..L
    BY <1>1, <1>5, <2>1, <2>2 DEF RolloutInv, EventOrder
  <2>3. CASE k = L + 1
    BY <1>1, <1>2, <2>1, <2>3 DEF RolloutInv, EventOrder
  <2> QED
    BY <1>1, <2>2, <2>3
<1>6. ASSUME NEW k \in 1..(L + 1)
      PROVE  events'[k].decision <= clock
  <2>1. CASE k \in 1..L
    BY <1>1, <2>1 DEF RolloutInv, EventOrder
  <2>2. CASE k = L + 1
    BY <1>1, <1>2, <1>4, <2>2
  <2> QED
    BY <1>1, <2>1, <2>2
<1>7. EventOrder'
  BY <1>1, <1>4, <1>5, <1>6 DEF EventOrder
<1>8. ASSUME NEW k \in 1..(L + 1)
      PROVE  /\ events'[k].result \in 1..H => events'[k].result = events'[k].id
             /\ events'[k].result = Refused => events'[k].fault
             /\ events'[k].echo => \E j \in 1..(L + 1) :
                                     /\ events'[j].result = Refused
                                     /\ events'[j].decision < events'[k].decision
  <2>1. CASE k \in 1..L
    <3>1. /\ events[k].result \in 1..H => events[k].result = events[k].id
          /\ events[k].result = Refused => events[k].fault
          /\ events[k].echo => \E j \in 1..L : /\ events[j].result = Refused
                                               /\ events[j].decision < events[k].decision
      BY <1>1, <2>1 DEF RolloutInv, EventResults
    <3>2. \A j \in 1..L : j \in 1..(L + 1)
      BY <1>1
    <3> QED
      BY <1>1, <2>1, <3>1, <3>2
  <2>2. CASE k = L + 1
    <3>1. echo => \E j \in 1..L : events[j].result = Refused /\ events[j].decision < clock
      BY <1>1, <1>3 DEF Shown
    <3>2. \A j \in 1..L : j \in 1..(L + 1)
      BY <1>1
    <3> QED
      BY <1>1, <1>2, <2>2, <3>1, <3>2
  <2> QED
    BY <1>1, <2>1, <2>2
<1>9. EventResults'
  BY <1>1, <1>8 DEF EventResults, Refused
<1> QED
  BY <1>7, <1>9

LEMMA DispatchKeepsCredits ==
  ASSUME RolloutInv, NEW id \in 0..H, NEW spelling \in Spellings, NEW echo \in BOOLEAN,
         Dispatch(id, spelling, echo)
  PROVE  CreditChain'
<1> DEFINE L == Len(events)
           e == Event(id, spelling, echo)
<1>1. /\ L \in Nat /\ DOMAIN events = 1..L
      /\ \A k \in 1..L : events'[k] = events[k]
      /\ events'[L + 1] = e
      /\ Credited' = IF e.credited THEN Credited \cup {L + 1} ELSE Credited
      /\ Progress' = IF e.credited THEN Progress + 1 ELSE Progress
      /\ Progress \in Nat
  BY DispatchGrows, CountCredits
<1>2. /\ e.decision = clock /\ e.id = id
      /\ e.credited => /\ e.result = id /\ id = Progress + 1
                       /\ \A d \in CreditOf(id - 1) : d < clock
  BY NewEvent
<1> HIDE DEF e, L
<1>3. Credited \subseteq 1..L
  BY <1>1 DEF Credited
<1>4. \A k \in Credited : events'[k] = events[k]
  BY <1>1, <1>3
<1>5. /\ \A k \in Credited : events[k].id \in 1..Progress /\ events[k].result = events[k].id
      /\ \A i \in 1..Progress : \E k \in Credited : events[k].id = i
      /\ \A j, k \in Credited : events[k].id = events[j].id + 1
                                  => events[j].decision < events[k].decision
  BY DEF RolloutInv, CreditChain
<1>6. CASE ~ e.credited
  BY <1>1, <1>4, <1>5, <1>6 DEF CreditChain
<1>7. CASE e.credited
  <2>1. /\ Credited' = Credited \cup {L + 1} /\ Progress' = Progress + 1
        /\ events'[L + 1].id = Progress + 1 /\ events'[L + 1].result = Progress + 1
        /\ events'[L + 1].decision = clock
    BY <1>1, <1>2, <1>7
  <2>2. \A k \in Credited' : events'[k].id \in 1..Progress' /\ events'[k].result = events'[k].id
    BY <1>1, <1>4, <1>5, <2>1
  <2>3. ASSUME NEW i \in 1..Progress'
        PROVE  \E k \in Credited' : events'[k].id = i
    <3>1. i \in 1..Progress \/ i = Progress + 1
      BY <1>1, <2>1
    <3> QED
      BY <1>4, <1>5, <2>1, <3>1
  <2>4. ASSUME NEW j \in Credited', NEW k \in Credited', events'[k].id = events'[j].id + 1
        PROVE  events'[j].decision < events'[k].decision
    <3>1. CASE j \in Credited /\ k \in Credited
      BY <1>4, <1>5, <2>4, <3>1
    <3>2. CASE j \in Credited /\ k = L + 1
      <4>1. events[j].id = id - 1
        BY <1>1, <1>2, <1>4, <1>5, <1>7, <2>4, <3>2
      <4>2. events[j].decision \in CreditOf(id - 1)
        BY <1>1, <1>3, <3>2, <4>1 DEF CreditOf, Credited
      <4> QED
        BY <1>2, <1>4, <1>7, <2>1, <3>2, <4>2
    <3>3. j # L + 1
      BY <1>1, <1>4, <1>5, <2>1, <2>4
    <3> QED
      BY <2>1, <3>1, <3>2, <3>3
  <2> QED
    BY <2>2, <2>3, <2>4 DEF CreditChain
<1> QED
  BY <1>6, <1>7

LEMMA DispatchKeepsFault ==
  ASSUME RolloutInv, NEW id \in 0..H, NEW spelling \in Spellings, NEW echo \in BOOLEAN,
         Dispatch(id, spelling, echo)
  PROVE  OneFault'
<1> DEFINE L == Len(events)
           e == Event(id, spelling, echo)
<1>1. /\ L \in Nat /\ DOMAIN events = 1..L /\ DOMAIN events' = 1..(L + 1)
      /\ \A k \in 1..L : events'[k] = events[k]
      /\ events'[L + 1] = e
      /\ Credited' = IF e.credited THEN Credited \cup {L + 1} ELSE Credited
      /\ Progress \in Nat
  BY DispatchGrows, CountCredits
<1>2. /\ e.id = id
      /\ e.fault => /\ id = fault.node /\ id > 0 /\ FiredAt = {}
                    /\ id = Progress + 1 /\ ~ e.credited
  BY NewEvent
<1> HIDE DEF e, L
<1>3. Credited \subseteq 1..L
  BY <1>1 DEF Credited
<1>4. UNCHANGED fault
  BY DEF Dispatch
<1>5. (\E k \in 1..L : events[k].fault) => FiredAt # {}
  BY <1>1 DEF FiredAt
<1>6. ASSUME NEW k \in 1..(L + 1), events'[k].fault
      PROVE  /\ events'[k].id = fault.node /\ fault.node > 0
             /\ \A j \in 1..(L + 1) : events'[j].fault => j = k
             /\ \A j \in Credited' : events'[j].id >= fault.node => k < j
  <2>1. CASE k \in 1..L
    <3>1. /\ events[k].fault /\ events[k].id = fault.node /\ fault.node > 0
          /\ \A j \in 1..L : events[j].fault => j = k
          /\ \A j \in Credited : events[j].id >= fault.node => k < j
      BY <1>1, <1>6, <2>1 DEF RolloutInv, OneFault
    <3>2. ~ e.fault
      BY <1>2, <1>5, <2>1, <3>1
    <3>3. \A j \in 1..(L + 1) : events'[j].fault => j = k
      BY <1>1, <3>1, <3>2
    <3>4. k < L + 1
      BY <1>1, <2>1
    <3>5. \A j \in Credited' : events'[j].id >= fault.node => k < j
      BY <1>1, <1>3, <3>1, <3>4
    <3> QED
      BY <1>1, <2>1, <3>1, <3>3, <3>5
  <2>2. CASE k = L + 1
    <3>1. /\ e.fault /\ id = fault.node /\ id > 0 /\ FiredAt = {} /\ id = Progress + 1
          /\ Credited' = Credited
      BY <1>1, <1>2, <1>6, <2>2
    <3>2. \A j \in 1..(L + 1) : events'[j].fault => j = k
      BY <1>1, <1>5, <2>2, <3>1
    <3>3. \A j \in Credited : events[j].id \in 1..Progress
      BY DEF RolloutInv, CreditChain
    <3>4. ASSUME NEW j \in Credited, events'[j].id >= fault.node
          PROVE  FALSE
      BY <1>1, <1>3, <3>1, <3>3, <3>4
    <3> QED
      BY <1>1, <1>2, <2>2, <3>1, <3>2, <3>4
  <2> QED
    BY <1>1, <2>1, <2>2
<1> QED
  BY <1>1, <1>4, <1>6 DEF OneFault


LEMMA DispatchKeepsTranscript ==
  ASSUME RolloutInv, NEW id \in 0..H, NEW spelling \in Spellings, NEW echo \in BOOLEAN,
         Dispatch(id, spelling, echo)
  PROVE  Handled' /\ TurnsApart' /\ messages' \in Seq(Messages)
<1> DEFINE L == Len(events)
           M == Len(messages)
           msg == ToolMessage(L + 1)
<1>1. /\ L \in Nat /\ DOMAIN events = 1..L /\ DOMAIN events' = 1..(L + 1)
      /\ \A k \in 1..L : events'[k] = events[k]
      /\ events'[L + 1].decision = clock
  BY DispatchGrows, NewEvent
<1>2. msg \in Messages /\ msg.role = "tool" /\ msg.event = L + 1
  BY <1>1 DEF ToolMessage, Messages, Silent
<1> HIDE DEF msg
<1>3. /\ messages' \in Seq(Messages) /\ M \in Nat /\ DOMAIN messages = 1..M
      /\ DOMAIN messages' = 1..(M + 1) /\ Len(messages') = M + 1
      /\ \A m \in 1..M : messages'[m] = messages[m]
      /\ messages'[M + 1] = msg /\ messages' # <<>>
  <2>1. messages' = Append(messages, msg)
    BY DEF Dispatch, msg
  <2> QED
    BY <1>2, <2>1, Appended DEF RolloutInv, RolloutType
<1>4. /\ clock' = clock /\ clock \in Nat /\ messages # <<>>
      /\ \A k \in 1..L : events[k].decision \in Nat /\ events[k].decision <= clock
      /\ \A m \in 1..M : messages[m].event \in Nat
  BY <1>1, <1>3, Typed DEF Dispatch, RolloutInv, RolloutType, EventOrder, TurnsApart
<1>5. /\ \A m \in 1..M : messages[m].event > 0
                           => messages[m].role = "tool" /\ messages[m].event \in 1..L
      /\ \A k \in 1..L : \E m \in 1..M : messages[m].event = k
      /\ \A m, n \in 1..M :
           messages[m].event > 0 /\ messages[m].event = messages[n].event => m = n
  BY <1>1, <1>3 DEF RolloutInv, Handled
<1> HIDE DEF L, M
<1>6. Handled'
  <2>1. ASSUME NEW m \in 1..(M + 1), messages'[m].event > 0
        PROVE  messages'[m].role = "tool" /\ messages'[m].event \in 1..(L + 1)
    BY <1>1, <1>2, <1>3, <1>5, <2>1
  <2>2. ASSUME NEW k \in 1..(L + 1)
        PROVE  \E m \in 1..(M + 1) : messages'[m].event = k
    <3>1. CASE k \in 1..L
      <4>1. PICK m \in 1..M : messages[m].event = k
        BY <1>5, <3>1
      <4>2. m \in 1..(M + 1)
        BY <1>3
      <4> QED
        BY <1>3, <4>1, <4>2
    <3>2. CASE k = L + 1
      BY <1>2, <1>3, <3>2
    <3> QED
      BY <1>1, <3>1, <3>2
  <2>3. ASSUME NEW m \in 1..(M + 1), NEW n \in 1..(M + 1),
               messages'[m].event > 0, messages'[m].event = messages'[n].event
        PROVE  m = n
    <3>1. CASE m \in 1..M /\ n \in 1..M
      BY <1>3, <1>5, <2>3, <3>1
    <3>2. CASE m = M + 1 /\ n \in 1..M
      BY <1>1, <1>2, <1>3, <1>5, <2>3, <3>2
    <3>3. CASE m \in 1..M /\ n = M + 1
      BY <1>1, <1>2, <1>3, <1>5, <2>3, <3>3
    <3> QED
      BY <1>3, <3>1, <3>2, <3>3
  <2> QED
    BY <1>1, <1>3, <2>1, <2>2, <2>3 DEF Handled
<1>7. \A m, n : Prompted(m, n) => Prompted(m, n)'
  BY <1>3 DEF Prompted
<1>8. \A m \in 1..M : messages[m].event > 0 /\ events[messages[m].event].decision < clock
                        => Prompted(m, M + 1)
  BY <1>3 DEF RolloutInv, TurnsApart, M
<1>9. ASSUME NEW m \in 1..(M + 1), NEW n \in 1..(M + 1),
             messages'[m].event > 0, messages'[n].event > 0,
             events'[messages'[m].event].decision < events'[messages'[n].event].decision
      PROVE  Prompted(m, n)'
  <2>1. CASE m \in 1..M /\ n \in 1..M
    <3>1. /\ messages[m].event > 0 /\ messages[n].event > 0
          /\ events[messages[m].event].decision < events[messages[n].event].decision
      BY <1>1, <1>3, <1>5, <1>9, <2>1
    <3>2. Prompted(m, n)
      BY <1>3, <2>1, <3>1 DEF RolloutInv, TurnsApart
    <3> QED
      BY <1>7, <3>2
  <2>2. CASE m \in 1..M /\ n = M + 1
    <3>1. events[messages[m].event].decision < clock
      BY <1>1, <1>2, <1>3, <1>5, <1>9, <2>2
    <3>2. Prompted(m, n)
      BY <1>3, <1>8, <1>9, <2>2, <3>1
    <3> QED
      BY <1>7, <3>2
  <2>3. m # M + 1
    <3> SUFFICES ASSUME m = M + 1 PROVE FALSE
      OBVIOUS
    <3>1. clock < events'[messages'[n].event].decision
      BY <1>1, <1>2, <1>3, <1>9
    <3>2. CASE n \in 1..M
      <4>1. messages'[n].event \in 1..L
        BY <1>3, <1>5, <1>9, <3>2
      <4> QED
        BY <1>1, <1>4, <3>1, <4>1
    <3>3. CASE n = M + 1
      BY <1>1, <1>2, <1>3, <1>4, <3>1, <3>3
    <3> QED
      BY <1>3, <3>2, <3>3
  <2> QED
    BY <1>3, <2>1, <2>2, <2>3
<1>10. ASSUME NEW m \in 1..(M + 1), messages'[m].event > 0,
              events'[messages'[m].event].decision < clock
       PROVE  \E a \in 1..(M + 1) : messages'[a].role = "assistant" /\ m < a /\ a < M + 2
  <2>1. m \in 1..M
    BY <1>1, <1>2, <1>3, <1>4, <1>10
  <2>2. events[messages[m].event].decision < clock
    BY <1>1, <1>3, <1>5, <1>10, <2>1
  <2>3. Prompted(m, M + 1)
    BY <1>3, <1>8, <1>10, <2>1, <2>2
  <2> QED
    BY <1>3, <2>3 DEF Prompted
<1>11. messages'[1].role = "assistant"
  <2>1. 1 \in 1..M
    BY <1>3, <1>4 DEF RolloutInv, RolloutType, M
  <2>2. messages[1].role = "assistant"
    BY <1>4 DEF RolloutInv, TurnsApart
  <2> QED
    BY <1>3, <2>1, <2>2
<1>12. \A m \in 1..(M + 1) :
         messages'[m].event > 0 /\ events'[messages'[m].event].decision < clock'
           => Prompted(m, Len(messages) + 1)'
  <2> SUFFICES ASSUME NEW m \in 1..(M + 1), messages'[m].event > 0,
                      events'[messages'[m].event].decision < clock'
               PROVE  Prompted(m, Len(messages) + 1)'
    OBVIOUS
  <2>1. PICK a \in 1..(M + 1) : messages'[a].role = "assistant" /\ m < a /\ a < M + 2
    BY <1>4, <1>10
  <2>2. a < Len(messages') + 1
    BY <1>3, <2>1
  <2> QED
    BY <1>3, <2>1, <2>2 DEF Prompted
<1>13. TurnsApart'
  BY <1>3, <1>9, <1>11, <1>12 DEF TurnsApart
<1> QED
  BY <1>3, <1>6, <1>13

-----------------------------------------------------------------------------
(* What the texts say. *)
LEMMA WordsKept ==
  ASSUME RolloutInv, ~ Ended, NEW msg \in Messages,
         UNCHANGED runner,
         messages' = Append(messages, msg),
         \/ final' = final /\ msg.says \in {Silent, H, Prose}
         \/ /\ final' = msg.says /\ final' \in {Silent, H, Invented}
            /\ ending' = "answered"
         \/ final' = Silent /\ msg.says = H
  PROVE  LastWords'
<1> DEFINE M == Len(messages)
<1>1. /\ messages' \in Seq(Messages) /\ M \in Nat /\ DOMAIN messages = 1..M
      /\ DOMAIN messages' = 1..(M + 1) /\ Len(messages') = M + 1
      /\ \A m \in 1..M : messages'[m] = messages[m]
      /\ messages'[M + 1] = msg /\ messages' # <<>>
  BY Appended DEF RolloutInv, RolloutType
<1>2. final = Silent
  BY DEF RolloutInv, LastWords
<1>3. /\ \A m \in 1..M : messages[m].says \in {Silent, H, Invented, Prose}
      /\ runner = "evaluator" => \A m \in 1..M : messages[m].says # Invented
  BY <1>1, <1>2 DEF RolloutInv, LastWords
<1>4. /\ msg.says \in {Silent, H, Invented, Prose}
      /\ final' = Silent => msg.says # Invented
      /\ final' # Silent => ending' = "answered" /\ msg.says = final'
      /\ Silent' = Silent /\ Invented' = Invented /\ Prose' = Prose
  BY <1>2, Words DEF Silent, Invented, Prose
<1> QED
  BY <1>1, <1>3, <1>4 DEF LastWords, Ended

LEMMA RolloutStepKeeps ==
  ASSUME RolloutInv, [RolloutNext]_rollout
  PROVE  RolloutInv'
<1> USE DEF RolloutInv
<1>0. /\ \A says \in Nat : Assistant(says) \in Messages
      /\ \A says : Assistant(says).role = "assistant" /\ Assistant(says).event = 0
      /\ \A says : Assistant(says).says = says
      /\ ToolMessage(0) \in Messages /\ ToolMessage(0).event = 0 /\ ToolMessage(0).says = Silent
  BY DEF Assistant, ToolMessage, Messages, Silent
<1>1. ASSUME NEW says \in {Silent, H}, Ask(says)
      PROVE  RolloutInv'
  <2>1. /\ messages' = Append(messages, Assistant(says)) /\ clock' = clock + 1
        /\ UNCHANGED <<runner, fault, events, capped, ending, final>> /\ ~ Ended
    BY <1>1 DEF Ask
  <2>2. says \in Nat /\ clock \in Nat
    BY Words DEF RolloutType
  <2>3. EventOrder' /\ EventResults' /\ CreditChain' /\ OneFault'
    BY <2>1, <2>2, EventsKept
  <2>4. Handled' /\ TurnsApart' /\ messages' \in Seq(Messages)
    BY <1>0, <2>1, <2>2, TranscriptGrows
  <2>5. LastWords'
    BY <1>0, <2>1, <2>2, WordsKept
  <2> QED
    BY <2>1, <2>2, <2>3, <2>4, <2>5 DEF RolloutType
<1>2. ASSUME NEW id \in 0..H, NEW spelling \in Spellings, NEW echo \in BOOLEAN, Dispatch(id, spelling, echo)
      PROVE  RolloutInv'
  <2>1. /\ messages' = Append(messages, ToolMessage(Len(events) + 1))
        /\ UNCHANGED <<runner, fault, clock, capped, ending, final>> /\ ~ Ended
    BY <1>2 DEF Dispatch
  <2>2. EventOrder' /\ EventResults' /\ CreditChain' /\ OneFault'
    BY <1>2, DispatchKeepsOrder, DispatchKeepsCredits, DispatchKeepsFault
  <2>3. Handled' /\ TurnsApart' /\ messages' \in Seq(Messages)
    BY <1>2, DispatchKeepsTranscript
  <2>4. ToolMessage(Len(events) + 1) \in Messages
        /\ ToolMessage(Len(events) + 1).says = Silent
    BY Typed DEF ToolMessage, Messages, Silent
  <2>5. LastWords'
    BY <2>1, <2>4, WordsKept
  <2>6. events' \in Seq(Events)
    BY <1>2, DispatchGrows
  <2> QED
    BY <2>1, <2>2, <2>3, <2>5, <2>6 DEF RolloutType
<1>3. CASE CallUnknown
  <2>1. /\ messages' = Append(messages, ToolMessage(0)) /\ messages # <<>>
        /\ UNCHANGED <<runner, fault, events, clock, capped, ending, final>> /\ ~ Ended
    BY <1>3 DEF CallUnknown, TurnsApart
  <2>2. clock \in Nat
    BY DEF RolloutType
  <2>3. EventOrder' /\ EventResults' /\ CreditChain' /\ OneFault'
    BY <2>1, <2>2, EventsKept
  <2>4. Handled' /\ TurnsApart' /\ messages' \in Seq(Messages)
    BY <1>0, <2>1, <2>2, TranscriptGrows
  <2>5. LastWords'
    BY <1>0, <2>1, WordsKept
  <2> QED
    BY <2>1, <2>2, <2>3, <2>4, <2>5 DEF RolloutType
<1>4. ASSUME NEW says \in {Silent, H, Invented}, NEW truncated \in BOOLEAN,
             truncated => says = H, Answer(says, truncated)
      PROVE  RolloutInv'
  <2>1. /\ messages' = Append(messages, Assistant(says)) /\ clock' = clock + 1
        /\ ending' = (IF truncated THEN "token_budget" ELSE "answered")
        /\ final' = (IF truncated THEN Silent ELSE says)
        /\ UNCHANGED <<runner, fault, events, capped>> /\ ~ Ended
    BY <1>4 DEF Answer
  <2>2. says \in Nat /\ clock \in Nat /\ final' \in Nat
    BY <2>1, Words DEF RolloutType
  <2>3. EventOrder' /\ EventResults' /\ CreditChain' /\ OneFault'
    BY <2>1, <2>2, EventsKept
  <2>4. Handled' /\ TurnsApart' /\ messages' \in Seq(Messages)
    BY <1>0, <2>1, <2>2, TranscriptGrows
  <2>5. \/ final' = Silent /\ says = H
        \/ final' = says /\ ending' = "answered"
    BY <1>4, <2>1
  <2>6. LastWords'
    BY <1>0, <2>1, <2>2, <2>5, WordsKept
  <2> QED
    BY <2>1, <2>2, <2>3, <2>4, <2>6 DEF RolloutType
<1>5. ASSUME NEW why \in {"wall_clock", "parser_budget"}, Break(why), why = "parser_budget"
      PROVE  RolloutInv'
  <2>1. /\ messages' = Append(messages, Assistant(Prose))
        /\ UNCHANGED <<runner, fault, events, clock, capped, final>> /\ ~ Ended
    BY <1>5 DEF Break
  <2>2. Prose \in Nat /\ clock \in Nat
    BY Words DEF RolloutType
  <2>3. EventOrder' /\ EventResults' /\ CreditChain' /\ OneFault'
    BY <2>1, <2>2, EventsKept
  <2>4. Handled' /\ TurnsApart' /\ messages' \in Seq(Messages)
    BY <1>0, <2>1, <2>2, TranscriptGrows
  <2>5. LastWords'
    BY <1>0, <2>1, <2>2, WordsKept
  <2> QED
    BY <2>1, <2>2, <2>3, <2>4, <2>5 DEF RolloutType
<1>6. ASSUME UNCHANGED <<runner, fault, messages, events, clock, final>>,
             turn' \in {turn, "none"}, Ended => Ended'
      PROVE  RolloutInv'
  <2>1. clock \in Nat
    BY DEF RolloutType
  <2>2. EventOrder' /\ EventResults' /\ CreditChain' /\ OneFault'
    BY <1>6, <2>1, EventsKept
  <2>3. Handled' /\ TurnsApart'
    BY <1>6, TranscriptKept
  <2>4. LastWords'
    BY <1>6 DEF LastWords, Silent, Invented, Prose
  <2> QED
    BY <1>6, <2>2, <2>3, <2>4 DEF RolloutType
<1>7. CASE CallCap \/ Exhaust
  <2>1. ~ Ended /\ turn' = "none" /\ UNCHANGED <<runner, fault, messages, events, clock, final>>
    BY <1>7 DEF CallCap, Exhaust
  <2> QED
    BY <1>6, <2>1
<1>8. ASSUME Break("wall_clock")
      PROVE  RolloutInv'
  <2>1. ~ Ended /\ turn' = "none" /\ UNCHANGED <<runner, fault, messages, events, clock, final>>
    BY <1>8 DEF Break
  <2> QED
    BY <1>6, <2>1
<1>9. CASE UNCHANGED rollout
  BY <1>6, <1>9 DEF rollout, Ended
<1>10. CASE RolloutNext
  <2>1. CASE \E says \in {Silent, H} : Ask(says)
    BY <1>1, <2>1
  <2>2. CASE \E id \in 0..H, spelling \in Spellings, echo \in BOOLEAN : Dispatch(id, spelling, echo)
    BY <1>2, <2>2
  <2>3. CASE \E says \in {Silent, H, Invented} : Answer(says, FALSE)
    BY <1>4, <2>3
  <2>4. CASE Answer(H, TRUE)
    BY <1>4, <2>4
  <2>5. CASE \E why \in {"wall_clock", "parser_budget"} : Break(why)
    BY <1>5, <1>8, <2>5
  <2> QED
    BY <1>3, <1>7, <1>10, <2>1, <2>2, <2>3, <2>4, <2>5 DEF RolloutNext
<1> QED
  BY <1>9, <1>10


LEMMA RolloutAlways ==
  RolloutSpec => []RolloutInv
<1>1. RolloutInit => RolloutInv
  <2> SUFFICES ASSUME RolloutInit PROVE RolloutInv
    OBVIOUS
  <2>1. /\ messages = <<>> /\ events = <<>> /\ final = Silent /\ clock = 0 /\ turn = "none"
        /\ runner \in {"engine", "evaluator"} /\ fault \in Faults
    BY DEF RolloutInit
  <2>2. DOMAIN events = {} /\ DOMAIN messages = {} /\ Credited = {}
    BY <2>1 DEF Credited
  <2>3. Progress = 0
    BY <2>2, FS_EmptySet DEF Progress, Credited
  <2>4. RolloutType
    BY <2>1, EmptySeq DEF RolloutType, Silent
  <2> QED
    BY <2>1, <2>2, <2>3, <2>4
    DEF RolloutInv, EventOrder, EventResults, CreditChain, OneFault, Handled, TurnsApart,
        LastWords
<1>2. RolloutInv /\ [RolloutNext]_rollout => RolloutInv'
  BY RolloutStepKeeps
<1> QED
  BY <1>1, <1>2, PTL DEF RolloutSpec

-----------------------------------------------------------------------------
(* The recovery taught. *)
LEMMA LeastOf ==
  ASSUME NEW S \in SUBSET Nat, S # {}
  PROVE  \E i \in S : \A j \in S : i <= j
<1>1. PICK i \in S : \A j \in S : <<j, i>> \notin OpToRel(<, Nat)
  BY NatLessThanWellFounded, WFMin
<1>2. \A j \in S : ~ (j < i)
  BY <1>1 DEF OpToRel
<1>3. ASSUME NEW j \in S PROVE i <= j
  <2>1. i \in Nat /\ j \in Nat
    OBVIOUS
  <2> QED
    BY <1>2, <2>1
<1> QED
  BY <1>3

LEMMA GreatestOf ==
  ASSUME NEW n \in Nat, NEW S \in SUBSET (1..n), S # {}
  PROVE  \E i \in S : \A j \in S : j <= i
<1> DEFINE T == {n - i : i \in S}
<1>1. T \in SUBSET Nat /\ T # {}
  <2>1. \A i \in S : n - i \in Nat
    OBVIOUS
  <2> QED
    BY <2>1
<1>2. PICK t \in T : \A u \in T : t <= u
  BY <1>1, LeastOf
<1>3. PICK i \in S : t = n - i
  BY <1>2
<1>4. ASSUME NEW j \in S PROVE j <= i
  <2>1. n - j \in T
    OBVIOUS
  <2> QED
    BY <1>2, <1>3, <2>1
<1> QED
  BY <1>4

LEMMA FaultIsOne ==
  ASSUME RolloutInv, FiredAt # {}
  PROVE  /\ FireCall \in DOMAIN events /\ events[FireCall].fault
         /\ events[FireCall].id = fault.node /\ fault.node > 0
         /\ \A j \in DOMAIN events : events[j].fault => j = FireCall
         /\ \A j \in Credited : events[j].id >= fault.node => FireCall < j
<1>1. \E k \in DOMAIN events : events[k].fault
  BY DEF FiredAt
<1>2. FireCall \in DOMAIN events /\ events[FireCall].fault
  BY <1>1 DEF FireCall
<1>3. OneFault
  BY DEF RolloutInv
<1> QED
  BY <1>2, <1>3, Zenon DEF OneFault

LEMMA OkIsRemedied ==
  ASSUME Reason = "ok"
  PROVE  FiredAt # {} /\ Remedied # {}
<1>1. FiredAt # {}
  BY DEF Reason
<1>2. Remedied # {}
  BY DEF Reason
<1> QED
  BY <1>1, <1>2

(* Every call has its turn: the last assistant message before its result.   *)
LEMMA TurnFound ==
  ASSUME RolloutInv, NEW k \in DOMAIN events
  PROVE  /\ MessageOf(k) \in DOMAIN messages /\ messages[MessageOf(k)].event = k
         /\ TurnOf(k) \in DOMAIN messages /\ messages[TurnOf(k)].role = "assistant"
         /\ TurnOf(k) < MessageOf(k)
         /\ \A a \in DOMAIN messages :
              messages[a].role = "assistant" /\ a < MessageOf(k) => a <= TurnOf(k)
<1> DEFINE m == MessageOf(k)
           S == {a \in 1..m : messages[a].role = "assistant"}
<1>1. /\ Len(messages) \in Nat /\ DOMAIN messages = 1..Len(messages)
      /\ k \in Nat /\ k > 0
      /\ \A a \in DOMAIN messages : messages[a].role \in {"assistant", "tool"}
  BY Typed DEF RolloutInv, Messages
<1>2. m \in DOMAIN messages /\ messages[m].event = k
  <2>1. \E a \in DOMAIN messages : messages[a].event = k
    BY DEF RolloutInv, Handled
  <2> QED
    BY <2>1 DEF MessageOf
<1>3. messages[m].role = "tool"
  BY <1>1, <1>2 DEF RolloutInv, Handled
<1> HIDE DEF m
<1>4. messages # <<>> /\ m \in Nat /\ 1 <= m /\ m <= Len(messages)
  BY <1>1, <1>2
<1>5. S \in SUBSET (1..m) /\ 1 \in S
  BY <1>4 DEF RolloutInv, TurnsApart
<1>6. PICK a \in S : \A j \in S : j <= a
  BY <1>4, <1>5, GreatestOf
<1>7. \A j \in a+1..m : messages[j].role = "tool"
  BY <1>1, <1>4, <1>6
<1> DEFINE Is(b) == /\ messages[b].role = "assistant"
                    /\ \A j \in b+1..m : messages[j].role = "tool"
<1>8. \E b \in 1..m : Is(b)
  BY <1>6, <1>7
<1>9. TurnOf(k) = CHOOSE b \in 1..m : Is(b)
  BY DEF TurnOf, m
<1>10. TurnOf(k) \in 1..m /\ Is(TurnOf(k))
  BY <1>8, <1>9
<1>11. TurnOf(k) \in DOMAIN messages /\ TurnOf(k) < m
  BY <1>1, <1>3, <1>4, <1>10
<1>12. ASSUME NEW b \in DOMAIN messages, messages[b].role = "assistant", b < m
       PROVE  b <= TurnOf(k)
  BY <1>1, <1>4, <1>10, <1>12
<1> QED
  BY <1>2, <1>10, <1>11, <1>12 DEF m

LEMMA RecoveryEarnsItsTurn ==
  ASSUME RolloutInv
  PROVE  RecoveryTaught
<1> SUFFICES ASSUME RecordAccepted, ~ Clean
             PROVE  \E k \in Obtained :
                      /\ \/ fault.kind = "wrong_unit"
                         \/ SameCall(events[k], events[FireCall]) /\ events[k].echo
                      /\ fault.kind = "transient" \/ events[k].decision > events[FireCall].decision
                      /\ \A j \in Obtained :
                           \/ k <= j
                           \/ /\ fault.kind # "wrong_unit"
                              /\ events[j].spelling # events[FireCall].spelling
                      /\ TurnOf(k) \in RecoveryTurns
                      /\ \A m \in RecoveryTurns : TurnOf(FireCall) < m /\ m <= TurnOf(k)
  BY DEF RecoveryTaught
<1> DEFINE f == FireCall
           k == RecoveryCall
<1>1. Reason = "ok"
  BY DEF RecordAccepted, RecoveryAccepted
<1>2. FiredAt # {} /\ k \in Remedied
  BY <1>1, OkIsRemedied DEF RecoveryCall
<1>3. /\ k \in Canonical /\ k \in Attempts /\ k \in DOMAIN events
      /\ \A j \in Canonical : k <= j
  BY <1>2 DEF Remedied, Attempts, Judged
<1>4. /\ \/ fault.kind = "wrong_unit"
         \/ SameCall(events[k], events[f]) /\ events[k].echo
      /\ fault.kind = "transient" \/ events[k].decision > events[f].decision
      /\ k \in Obtained
  BY <1>3 DEF Attempts, Judged, Canonical, Obtained
<1>5. f \in DOMAIN events /\ \A j \in DOMAIN events : events[j].fault => j = f
  BY <1>2, FaultIsOne
<1>15. ASSUME NEW j \in Obtained
       PROVE  \/ k <= j
              \/ fault.kind # "wrong_unit" /\ events[j].spelling # events[f].spelling
  <2>1. /\ events[f].id = fault.node /\ fault.node > 0
        /\ fault.node \in 0..H
    BY <1>2, FaultIsOne, Words DEF RolloutInv, RolloutType
  <2>2. j \in DOMAIN events /\ j > f /\ events[j].result = fault.node
    BY DEF Obtained
  <2>3. events[j].id = fault.node
    BY <2>1, <2>2 DEF RolloutInv, EventResults
  <2>4. CASE j \in Canonical
    BY <1>3, <2>4
  <2>5. CASE j \notin Canonical
    BY <2>1, <2>2, <2>3, <2>5 DEF Canonical, Judged, SameCall
  <2> QED
    BY <2>4, <2>5
<1> HIDE DEF f, k
<1>6. events[f].decision < events[k].decision
  <2>1. CASE events[k].echo
    <3>1. PICK j \in DOMAIN events : /\ events[j].result = Refused
                                     /\ events[j].decision < events[k].decision
      BY <1>3, <2>1 DEF RolloutInv, EventResults
    <3>2. j = f
      BY <1>5, <3>1 DEF RolloutInv, EventResults
    <3> QED
      BY <3>1, <3>2
  <2>2. CASE ~ events[k].echo
    <3>1. fault.kind # "transient"
      BY <1>4, <2>2
    <3>2. events[f].decision \in Nat /\ events[k].decision \in Nat
      BY <1>3, <1>5, Typed DEF RolloutInv
    <3> QED
      BY <1>4, <3>1, <3>2
  <2> QED
    BY <2>1, <2>2
<1>7. /\ MessageOf(f) \in DOMAIN messages /\ messages[MessageOf(f)].event = f
      /\ TurnOf(f) \in DOMAIN messages /\ TurnOf(f) < MessageOf(f)
  BY <1>5, TurnFound
<1>8. /\ MessageOf(k) \in DOMAIN messages /\ messages[MessageOf(k)].event = k
      /\ TurnOf(k) \in DOMAIN messages /\ messages[TurnOf(k)].role = "assistant"
      /\ TurnOf(k) < MessageOf(k)
      /\ \A a \in DOMAIN messages :
           messages[a].role = "assistant" /\ a < MessageOf(k) => a <= TurnOf(k)
  BY <1>3, TurnFound
<1>9. /\ Len(messages) \in Nat /\ DOMAIN messages = 1..Len(messages)
      /\ f \in Nat /\ f > 0 /\ k \in Nat /\ k > 0
  BY <1>3, <1>5, Typed DEF RolloutInv
<1>10. Prompted(MessageOf(f), MessageOf(k))
  BY <1>6, <1>7, <1>8, <1>9 DEF RolloutInv, TurnsApart
<1>11. MessageOf(f) < TurnOf(k)
  <2>1. PICK a \in DOMAIN messages : /\ messages[a].role = "assistant"
                                     /\ MessageOf(f) < a /\ a < MessageOf(k)
    BY <1>10 DEF Prompted
  <2> QED
    BY <1>7, <1>8, <1>9, <2>1
<1>12. TurnOf(k) \in Post
  BY <1>8, <1>9, <1>11 DEF Post, f
<1>13. TurnOf(k) \in RecoveryTurns
  BY <1>12 DEF RecoveryTurns, k
<1>14. ASSUME NEW m \in RecoveryTurns
       PROVE  TurnOf(f) < m /\ m <= TurnOf(k)
  <2>1. m \in Post
    BY <1>14 DEF RecoveryTurns
  <2>2. m \in DOMAIN messages /\ m > MessageOf(f)
    BY <2>1 DEF Post, f
  <2>3. m <= TurnOf(k)
    <3>1. (\A j \in Post : m <= j) \/ m = TurnOf(k)
      BY <1>14 DEF RecoveryTurns, k
    <3> QED
      BY <1>8, <1>9, <1>12, <3>1
  <2> QED
    BY <1>7, <1>9, <2>2, <2>3
<1> QED
  BY <1>4, <1>13, <1>14, <1>15 DEF f

(* Whatever a policy does, an accepted rollout that met a fault earned its   *)
(* recovery by the faulted call over again, with the fault's token (and      *)
(* later, or having seen the wrong unit); only a call spelt otherwise can    *)
(* have got the value before; the turn that asked is taught as recovery, and *)
(* no turn is that had not seen the fault or came after it.                  *)
THEOREM RecoveryIsTaught ==
  RolloutSpec => []RecoveryTaught
<1>1. RolloutInv => RecoveryTaught
  BY RecoveryEarnsItsTurn
<1> QED
  BY <1>1, RolloutAlways, PTL

-----------------------------------------------------------------------------
(* The two readings. *)
LEMMA ReadingFields ==
  ASSUME NEW ev, NEW valid, NEW said
  PROVE  LET r == Reading(ev, valid, said)
         IN /\ r.raw = (said = H) /\ r.receipts = (valid = DOMAIN ev)
            /\ r.runaway = Runaway(ev) /\ r.hallucinated = Hallucinated(ev, valid, said)
            /\ r.source = Source(ev, valid, said)
  BY DEF Reading

(* A run that ended with a text has it as its last message.                 *)
LEMMA FinalIsLast ==
  ASSUME RolloutInv, final # Silent
  PROVE  FinalText = final
<1> DEFINE said == {m \in DOMAIN messages : messages[m].says # Silent}
           n == Len(messages)
<1>1. n \in Nat /\ DOMAIN messages = 1..n
  BY Typed DEF RolloutInv
<1>2. messages # <<>> /\ messages[n].says = final
  BY DEF RolloutInv, LastWords
<1>3. n \in 1..n
  BY <1>1, <1>2 DEF RolloutInv, RolloutType
<1>4. n \in said /\ \A j \in said : j <= n
  BY <1>1, <1>2, <1>3
<1> DEFINE Last(m) == \A j \in said : j <= m
<1>5. \A m \in said : Last(m) => m = n
  BY <1>1, <1>4
<1>6. (CHOOSE m \in said : Last(m)) = n
  BY <1>4, <1>5
<1>7. FinalText = messages[CHOOSE m \in said : Last(m)].says
  BY <1>4 DEF FinalText
<1> QED
  BY <1>2, <1>6, <1>7

(* Without a text and without an answer beside its calls, an evaluator's run *)
(* ends in words that commit to nothing.                                     *)
LEMMA FinalIsIdle ==
  ASSUME RolloutInv, runner = "evaluator", final = Silent, Asides = {}
  PROVE  FinalText \in {Silent, Prose}
<1> DEFINE said == {m \in DOMAIN messages : messages[m].says # Silent}
           n == Len(messages)
<1>1. n \in Nat /\ DOMAIN messages = 1..n
  BY Typed DEF RolloutInv
<1>2. \A m \in DOMAIN messages : messages[m].says \in {Silent, H, Prose}
  BY DEF RolloutInv, LastWords
<1>3. Commits(H)
  BY Words DEF Commits
<1>4. \A m \in said : messages[m].says = Prose
  BY <1>2, <1>3 DEF Asides
<1>5. CASE said = {}
  BY <1>5 DEF FinalText
<1>6. CASE said # {}
  <2> DEFINE Last(m) == \A j \in said : j <= m
  <2>1. \E m \in said : Last(m)
    BY <1>1, <1>6, GreatestOf
  <2>2. (CHOOSE m \in said : Last(m)) \in said
    BY <2>1
  <2>3. FinalText = messages[CHOOSE m \in said : Last(m)].says
    BY <1>6 DEF FinalText
  <2> QED
    BY <1>4, <2>2, <2>3
<1> QED
  BY <1>5, <1>6

LEMMA UntouchedReads ==
  ASSUME RolloutInv, runner = "evaluator",
         final # Silent \/ Asides = {}
  PROVE  Ledger(0) = Verdict
<1>1. Trace(0) = events
  BY DEF Trace
<1>2. Valid(0) = DOMAIN events
  BY Typed DEF Valid, RolloutInv
<1>3. Ledger(0) = Reading(events, DOMAIN events, FinalText)
  BY <1>1, <1>2 DEF Ledger
<1>4. CASE final # Silent
  BY <1>3, <1>4, FinalIsLast DEF Verdict
<1>5. CASE final = Silent /\ Asides = {}
  <2>1. FinalText \in {Silent, Prose}
    BY <1>5, FinalIsIdle
  <2>2. \A t \in {Silent, Prose} : t # H /\ ~ Commits(t)
    BY Words DEF Commits
  <2>3. \A t \in {Silent, Prose} :
          Reading(events, DOMAIN events, t)
            = [raw |-> FALSE, receipts |-> TRUE, runaway |-> Runaway(events),
               hallucinated |-> Hallucinated(events, DOMAIN events, Silent), source |-> 0]
    <3> TAKE t \in {Silent, Prose}
    <3>1. Source(events, DOMAIN events, t) = 0
      BY <2>2 DEF Source
    <3>2. Hallucinated(events, DOMAIN events, t)
            = Hallucinated(events, DOMAIN events, Silent)
      BY <2>2 DEF Hallucinated
    <3> QED
      BY <2>2, <3>1, <3>2 DEF Reading
  <2> QED
    BY <1>3, <1>5, <2>1, <2>3 DEF Verdict
<1> QED
  BY <1>4, <1>5

(* What a certified run has: the whole chain credited, and an answer read   *)
(* off a result no earlier than the last credit.                            *)
LEMMA CertifiedHas ==
  ASSUME RolloutInv, Certified
  PROVE  /\ final = H /\ final # Silent /\ Progress = H
         /\ Verdict.source \in DOMAIN events /\ events[Verdict.source].result = H
         /\ \A k \in DOMAIN events : events[k].result = H => k <= Verdict.source
<1> DEFINE showing == {k \in DOMAIN events : events[k].result = H}
           s == Verdict.source
<1>1. Sound(Verdict) /\ Progress = H
  BY DEF Certified
<1>2. final = H /\ s # 0 /\ s = Source(events, DOMAIN events, final)
  BY <1>1, ReadingFields DEF Sound, Verdict
<1>3. final # Silent
  BY <1>2, Words
<1>4. showing # {}
  BY <1>2 DEF Source
<1> DEFINE Last(m) == \A j \in showing : j <= m
<1>5. \E m \in showing : Last(m)
  <2>1. showing \in SUBSET (1..Len(events)) /\ Len(events) \in Nat
    BY Typed DEF RolloutInv
  <2> QED
    BY <1>4, <2>1, GreatestOf
<1>6. s = CHOOSE m \in showing : Last(m)
  BY <1>2, <1>4 DEF Source
<1>7. s \in showing /\ Last(s)
  BY <1>5, <1>6
<1> QED
  BY <1>1, <1>2, <1>3, <1>7

LEMMA RecoveriesAgree ==
  ASSUME RolloutInv, runner = "evaluator"
  PROVE  RecoveryCertified(0) <=> (Certified /\ ~ Clean)
<1>1. RecoveryCertified(0) => Certified /\ ~ Clean
  BY DEF RecoveryCertified, LedgerCertified
<1>2. ASSUME Certified, ~ Clean
      PROVE  RecoveryCertified(0)
  <2>1. Sound(Verdict) /\ Reason = "ok"
    BY <1>2 DEF Certified
  <2>2. /\ final # Silent /\ Progress = H
        /\ Verdict.source \in DOMAIN events
        /\ \A k \in DOMAIN events : events[k].result = H => k <= Verdict.source
    BY <1>2, CertifiedHas
  <2>3. Ledger(0) = Verdict
    BY <2>2, UntouchedReads
  <2>4. /\ FiredAt # {} /\ FireCall \in DOMAIN events
        /\ \A j \in Credited : events[j].id >= fault.node => FireCall < j
    BY <2>1, OkIsRemedied, FaultIsOne
  <2>5. DOMAIN events = 1..Len(events) /\ Len(events) \in Nat
    BY Typed DEF RolloutInv
  <2>6. FireCall \in Valid(0)
    BY <2>4, <2>5 DEF Valid
  <2>7. Verdict.source > FireCall
    <3>1. PICK k \in Credited : events[k].id = H /\ events[k].result = H
      <4>1. H \in 1..Progress
        BY <2>2, Words
      <4>2. /\ \A k \in Credited : events[k].result = events[k].id
            /\ \E k \in Credited : events[k].id = H
        BY <4>1 DEF RolloutInv, CreditChain
      <4> QED
        BY <4>2
    <3>2. fault.node \in 0..H
      BY Words DEF RolloutInv, RolloutType
    <3>3. FireCall < k
      BY <2>4, <3>1, <3>2, Words
    <3>4. k \in DOMAIN events
      BY DEF Credited
    <3> QED
      BY <2>2, <2>4, <2>5, <3>1, <3>3, <3>4
  <2> QED
    BY <1>2, <2>1, <2>3, <2>4, <2>6, <2>7
    DEF RecoveryCertified, LedgerCertified, Sound
<1> QED
  BY <1>1, <1>2

(* Whatever holds the answer's call and is closed backwards holds every     *)
(* credited call of an earlier node: from the answer down, each feeds the   *)
(* next.                                                                    *)
LEMMA ChainFeedsAnswer ==
  ASSUME RolloutInv, Certified,
         NEW S \in SUBSET DOMAIN events, Backwards(S)
  PROVE  \A k \in Credited : events[k].id < H => k \in S
<1> DEFINE s == Verdict.source
           Bad == {i \in 1..H : i < H /\ \E k \in Credited : events[k].id = i /\ k \notin S}
<1>1. /\ Progress = H /\ H \in Nat
      /\ s \in DOMAIN events /\ events[s].result = H /\ s \in S
      /\ \A k \in DOMAIN events : events[k].result = H => k <= s
  BY CertifiedHas, Words DEF Backwards
<1>2. events[s].id = H
  BY <1>1, Words DEF RolloutInv, EventResults
<1>3. /\ Credited \subseteq DOMAIN events
      /\ \A k \in Credited : events[k].id \in 1..H /\ events[k].result = events[k].id
      /\ \A i \in 1..H : \E k \in Credited : events[k].id = i
      /\ \A j, k \in Credited : events[k].id = events[j].id + 1
                                 => events[j].decision < events[k].decision
  BY <1>1 DEF Credited, RolloutInv, CreditChain
<1>4. \A k \in DOMAIN events : events[k].decision \in Nat /\ k \in Nat
  BY Typed DEF RolloutInv
<1>5. \A b \in S, a \in DOMAIN events : Feeds(a, b) => a \in S
  BY DEF Backwards
<1> HIDE DEF s
<1>6. ASSUME Bad # {} PROVE FALSE
  <2>1. PICK i \in Bad : \A j \in Bad : j <= i
    BY <1>1, <1>6, GreatestOf
  <2>2. PICK k \in Credited : events[k].id = i /\ k \notin S
    BY <2>1
  <2>3. i \in 1..H /\ i < H /\ i + 1 \in 1..H /\ i + 1 > 1 /\ (i + 1) - 1 = i
    BY <1>1, <2>1
  <2>4. PICK n \in Credited : events[n].id = i + 1
    BY <1>3, <2>3
  <2>5. events[k].decision < events[n].decision
    BY <1>3, <2>2, <2>4
  <2>6. CASE i + 1 < H
    <3>1. i + 1 \notin Bad
      BY <2>1, <2>3
    <3>2. n \in S
      BY <2>3, <2>4, <2>6, <3>1
    <3>3. Feeds(k, n)
      BY <1>3, <2>2, <2>3, <2>4, <2>5 DEF Feeds
    <3> QED
      BY <1>3, <1>5, <2>2, <3>2, <3>3
  <2>7. CASE i + 1 = H
    <3>1. n \in DOMAIN events /\ n <= s
      BY <1>1, <1>3, <2>4, <2>7
    <3>2. events[n].decision <= events[s].decision
      BY <1>1, <1>4, <3>1 DEF RolloutInv, EventOrder
    <3>3. events[k].decision < events[s].decision
      BY <1>1, <1>3, <1>4, <2>5, <3>1, <3>2
    <3>4. Feeds(k, s)
      BY <1>2, <1>3, <2>2, <2>3, <2>7, <3>3 DEF Feeds
    <3> QED
      BY <1>1, <1>3, <1>5, <2>2, <3>4
  <2> QED
    BY <1>1, <2>3, <2>6, <2>7
<1> QED
  BY <1>3, <1>6

LEMMA CertifiedIsOrchestrated ==
  ASSUME RolloutInv, runner = "evaluator", Certified
  PROVE  Orchestrated
<1>1. /\ final # Silent /\ Progress = H /\ H \in Nat
      /\ Verdict.source \in DOMAIN events /\ events[Verdict.source].result = H
  BY CertifiedHas, Words
<1>2. LedgerCertified(0)
  <2>1. Ledger(0) = Verdict
    BY <1>1, UntouchedReads
  <2> QED
    BY <2>1 DEF LedgerCertified, Certified
<1>3. ASSUME NEW i \in 1..H
      PROVE  \E k \in Contributing : events[k].id = i
  <2>1. CASE i = H
    <3>1. events[Verdict.source].id = H
      <4>1. H \in 1..H
        BY Words
      <4> QED
        BY <1>1, <4>1 DEF RolloutInv, EventResults
    <3>2. Verdict.source \in Contributing
      BY <1>1 DEF Contributing, Backwards
    <3> QED
      BY <2>1, <3>1, <3>2
  <2>2. CASE i < H
    <3>1. PICK k \in Credited : events[k].id = i
      BY <1>1 DEF RolloutInv, CreditChain
    <3>2. k \in Contributing
      <4>1. k \in DOMAIN events
        BY DEF Credited
      <4>2. \A S \in SUBSET DOMAIN events : Backwards(S) => k \in S
        BY <2>2, <3>1, ChainFeedsAnswer
      <4> QED
        BY <4>1, <4>2 DEF Contributing
    <3> QED
      BY <3>1, <3>2
  <2> QED
    BY <1>1, <2>1, <2>2
<1> QED
  BY <1>2, <1>3 DEF Orchestrated

LEMMA ForgeryIsNoticed ==
  ASSUME RolloutInv, NEW k \in DOMAIN events
  PROVE  ~ Agrees(k) /\ ~ LedgerCertified(k) /\ ~ RecoveryCertified(k)
<1>1. k # 0
  BY Typed DEF RolloutInv
<1>2. DOMAIN Trace(k) = DOMAIN events
  BY <1>1 DEF Trace
<1>3. Valid(k) # DOMAIN events
  BY DEF Valid
<1>4. ~ Ledger(k).receipts
  <2>1. Reading(Trace(k), Valid(k), FinalText).receipts = (Valid(k) = DOMAIN Trace(k))
    BY ReadingFields
  <2> QED
    BY <1>2, <1>3, <2>1 DEF Ledger
<1>5. Verdict.receipts
  <2>1. Reading(events, DOMAIN events, final).receipts = (DOMAIN events = DOMAIN events)
    BY ReadingFields
  <2> QED
    BY <2>1 DEF Verdict
<1>6. Ledger(k) # Verdict
  BY <1>4, <1>5
<1>7. ~ Sound(Ledger(k))
  BY <1>4 DEF Sound
<1> QED
  BY <1>6, <1>7 DEF Agrees, LedgerCertified, RecoveryCertified

(* The verifier's reading of the run and the ledger's reading of its bytes  *)
(* agree on an untouched trace (unless the run ended without a text after a *)
(* turn that had said an answer), certify the same recoveries, find the     *)
(* whole chain behind every certified answer, and certify nothing from a    *)
(* trace one of whose events was changed.                                   *)
THEOREM ReadingsDoAgree ==
  RolloutSpec => []ReadingsAgree
<1>1. ASSUME RolloutInv PROVE ReadingsAgree
  <2> SUFFICES ASSUME runner = "evaluator", Ended
               PROVE  /\ Agrees(0) \/ (final = Silent /\ Asides # {})
                      /\ RecoveryCertified(0) <=> (Certified /\ ~ Clean)
                      /\ Certified => Orchestrated
                      /\ \A k \in DOMAIN events :
                           ~ Agrees(k) /\ ~ LedgerCertified(k) /\ ~ RecoveryCertified(k)
    BY DEF ReadingsAgree
  <2>1. Agrees(0) \/ (final = Silent /\ Asides # {})
    <3>1. ASSUME final # Silent \/ Asides = {} PROVE Agrees(0)
      <4>1. Ledger(0) = Verdict
        BY <1>1, <3>1, UntouchedReads
      <4> QED
        BY <4>1 DEF Agrees, Certified
    <3> QED
      BY <3>1
  <2>2. RecoveryCertified(0) <=> (Certified /\ ~ Clean)
    BY <1>1, RecoveriesAgree
  <2>3. Certified => Orchestrated
    BY <1>1, CertifiedIsOrchestrated
  <2>4. \A k \in DOMAIN events :
          ~ Agrees(k) /\ ~ LedgerCertified(k) /\ ~ RecoveryCertified(k)
    BY <1>1, ForgeryIsNoticed
  <2> QED
    BY <2>1, <2>2, <2>3, <2>4
<1>2. RolloutInv => ReadingsAgree
  BY <1>1
<1> QED
  BY <1>2, RolloutAlways, PTL
=============================================================================
