-------------------------- MODULE EvaluationProofs --------------------------
(***************************************************************************)
(* Proofs about Evaluation, for any schedule that covers the mandatory     *)
(* manifests, any cards, configurations and contracts, any number of       *)
(* mishaps and of edits; about the prompt tournament, which reads files of *)
(* the same evaluator; and about the verdict over the evaluated rows.      *)
(*                                                                         *)
(* What the files promise is not inductive: a row is appended long after   *)
(* the evaluator compared its attestation with the rows on file.  The      *)
(* invariant adds what the running evaluator still holds of that check.    *)
(*                                                                         *)
(* The verdict names an arm only over complete and sound evidence, for any *)
(* tasks, thresholds and history of lost and spoilt rows and documents.    *)
(* The argument is one step long: a verdict that names an arm came past    *)
(* all twelve vetoes, and each kind of flaw, document or gap is the        *)
(* business of one of them.  Only the floor needs an invariant: a task has *)
(* at most one row per arm, condition and control, so that counting rows   *)
(* and counting tasks is the same.  ER2 and ER4 are not used: whatever     *)
(* the gates between the arms say, neither is named over less.             *)
(***************************************************************************)
EXTENDS Evaluation, Tournament, Verdict, SequenceTheorems, FiniteSetTheorems, TLAPS

Servers == [card : Cards, config : Configs, alive : BOOLEAN, ready : BOOLEAN]

DriverInv ==
  /\ card \in Cards /\ config \in Configs /\ contract \in Contracts
  /\ server = None \/ server \in Servers
  /\ unit \in DOMAIN Units
  /\ shard # None => driver = "arm"

TraceInv ==
  /\ trace \in [Files -> [rows : Seq(Rows), torn : BOOLEAN]]
  /\ \A f \in Files : \A r \in Rowset(f) : r.engine = "live"

(* The tasks of a file's rows, and of the results not yet written. *)
Traced(f)  == {r.task : r \in Rowset(f)}
Returned   == {r.task : r \in shard.results}

(* The evaluator is a record of its ten fields, its results are its own.   *)
ShardShape ==
  /\ shard = [todo |-> shard.todo, pending |-> shard.pending, written |-> shard.written,
              inflight |-> shard.inflight, results |-> shard.results,
              failed |-> shard.failed, shut |-> shard.shut,
              card |-> shard.card, config |-> shard.config, contract |-> shard.contract]
  /\ shard.card \in Cards /\ shard.config \in Configs /\ shard.contract \in Contracts
  /\ shard.todo \subseteq Tasks /\ shard.inflight \subseteq Tasks
  /\ \A r \in shard.results : \E t \in Tasks, e \in Engines : r = Result(t, e)

(* It writes under the attestation of every row of its file ...            *)
ShardFits ==
  \A r \in Rowset(TraceFile) :
    r.card = shard.card /\ r.config = shard.config /\ r.contract = shard.contract

(* ... and a task is on file, queued, in flight or returned, never in two  *)
(* of these places.                                                        *)
ShardDisjoint ==
  /\ shard.todo \cap Traced(TraceFile) = {}
  /\ shard.inflight \cap Traced(TraceFile) = {}
  /\ Returned \cap Traced(TraceFile) = {}
  /\ shard.todo \cap shard.inflight = {}
  /\ shard.todo \cap Returned = {}
  /\ shard.inflight \cap Returned = {}
  /\ \A r, s \in shard.results : r.task = s.task => r = s

ShardInv == shard # None => ShardShape /\ ShardFits /\ ShardDisjoint

EvalInv == DriverInv /\ TraceInv /\ ShardInv /\ OneApparatus /\ EachTaskOnce

-----------------------------------------------------------------------------
LEMMA CurrentUnit ==
  ASSUME unit \in DOMAIN Units
  PROVE  /\ Current.manifest \in SpecSet
         /\ TraceFile \in Files
<1>1. Units \in Seq([arm : ToSet(MandatoryArms) \cup ToSet(DescriptiveArms),
                     manifest : SpecSet, block : Nat])
  BY EvaluationAssumption DEF EvaluationAssumption
<1>2. Units[unit] \in [arm : ToSet(MandatoryArms) \cup ToSet(DescriptiveArms),
                       manifest : SpecSet, block : Nat]
  <2>1. DOMAIN Units = 1..Len(Units)
    BY <1>1
  <2> QED
    BY <1>1, <2>1, ElementOfSeq
<1> QED
  BY <1>2 DEF Current, TraceFile, Files

LEMMA QueuedAreTasks ==
  ASSUME unit \in DOMAIN Units, NEW f
  PROVE  Todo(Current, f) \subseteq Tasks
  BY CurrentUnit DEF Todo, Block, Asked, Tasks

(* What an append adds to the rows that can be read. *)
LEMMA AppendedRows ==
  ASSUME NEW file \in [rows : Seq(Rows), torn : BOOLEAN], NEW r \in Rows
  PROVE  /\ Appended(file, r) \in [rows : Seq(Rows), torn : BOOLEAN]
         /\ file.torn => Appended(file, r).rows = file.rows
         /\ ~ file.torn => /\ Appended(file, r).rows = Append(file.rows, r)
                           /\ ToSet(Appended(file, r).rows) = ToSet(file.rows) \cup {r}
<1>1. CASE file.torn
  BY <1>1 DEF Appended
<1>2. CASE ~ file.torn
  <2>1. /\ Appended(file, r).rows = Append(file.rows, r)
        /\ Appended(file, r) \in [rows : Seq(Rows), torn : BOOLEAN]
    BY <1>2 DEF Appended
  <2>2. /\ DOMAIN Append(file.rows, r) = 1..(Len(file.rows) + 1)
        /\ \A i \in 1..Len(file.rows) : Append(file.rows, r)[i] = file.rows[i]
        /\ Append(file.rows, r)[Len(file.rows) + 1] = r
        /\ Len(file.rows) \in Nat /\ DOMAIN file.rows = 1..Len(file.rows)
    OBVIOUS
  <2>3. ToSet(Append(file.rows, r)) = ToSet(file.rows) \cup {r}
    <3>1. ToSet(Append(file.rows, r)) \subseteq ToSet(file.rows) \cup {r}
      BY <2>2 DEF ToSet
    <3>2. ToSet(file.rows) \subseteq ToSet(Append(file.rows, r))
      <4> SUFFICES ASSUME NEW i \in 1..Len(file.rows)
                   PROVE  \E j \in DOMAIN Append(file.rows, r) :
                            Append(file.rows, r)[j] = file.rows[i]
        BY <2>2 DEF ToSet
      <4> WITNESS i \in DOMAIN Append(file.rows, r)
      <4> QED
        BY <2>2
    <3>3. r \in ToSet(Append(file.rows, r))
      BY <2>2 DEF ToSet
    <3> QED
      BY <3>1, <3>2, <3>3
  <2> QED
    BY <1>2, <2>1, <2>3
<1> QED
  BY <1>1, <1>2

(* A returned result is one row. *)
LEMMA ResultIsRow ==
  ASSUME ShardShape, NEW r \in shard.results
  PROVE  /\ r \in Rows
         /\ r.card = shard.card /\ r.config = shard.config /\ r.contract = shard.contract
  BY DEF ShardShape, Result, Rows

-----------------------------------------------------------------------------
(* One step of each kind.  Steps that leave the files, the evaluator and   *)
(* the unit alone keep what is said of them.                               *)
LEMMA FilesKept ==
  ASSUME EvalInv, UNCHANGED trace
  PROVE  TraceInv' /\ OneApparatus' /\ EachTaskOnce'
  BY DEF EvalInv, TraceInv, OneApparatus, EachTaskOnce, Rowset

LEMMA ShardKept ==
  ASSUME EvalInv, UNCHANGED <<trace, shard, unit>>
  PROVE  ShardInv'
  BY DEF EvalInv, ShardInv, ShardShape, ShardFits, ShardDisjoint, TraceFile, Current,
         Rowset, Traced, Returned, Result

LEMMA ShardEnded == ASSUME shard' = None PROVE ShardInv'
  BY DEF ShardInv

LEMMA DriverStep == EvalInv /\ [EvalNext]_evalVars => DriverInv'
<1> SUFFICES ASSUME EvalInv, [EvalNext]_evalVars PROVE DriverInv'
  OBVIOUS
<1> USE DEF EvalInv, DriverInv
<1>0. Units \in Seq([arm : ToSet(MandatoryArms) \cup ToSet(DescriptiveArms),
                     manifest : SpecSet, block : Nat]) /\ 1 \in DOMAIN Units
  BY EvaluationAssumption, EmptySeq DEF EvaluationAssumption
<1>1. CASE BeginEval
  BY <1>1 DEF BeginEval, world, bounds
<1>2. CASE Capture
  BY <1>2 DEF Capture, Attestation, Servers, world, bounds
<1>3. CASE MarkReady
  BY <1>3 DEF MarkReady, Servers, world, bounds
<1>4. CASE ServeFails
  BY <1>4, <1>0 DEF ServeFails, Die, world, bounds
<1>5. CASE StartShard
  BY <1>5, <1>0 DEF StartShard, Die, world, bounds
<1>6. CASE LedgerRefuses
  BY <1>6, <1>0 DEF LedgerRefuses, Die, world
<1>7. CASE Launch \/ Answer \/ TransportFails \/ Write \/ CloseWindow
  BY <1>7 DEF Launch, Answer, TransportFails, Write, CloseWindow, ShardStep, world
<1>8. CASE EndShard
  <2>1. CASE AbortShard
    BY <1>8, <2>1, <1>0 DEF EndShard, AbortShard, Die, world, bounds
  <2>2. CASE FinishShard
    <3>1. Len(Units) \in Nat /\ DOMAIN Units = 1..Len(Units)
      BY <1>0
    <3> QED
      BY <1>8, <2>2, <3>1 DEF EndShard, FinishShard, world, bounds
  <2> QED
    BY <1>8, <2>1, <2>2 DEF EndShard
<1>9. CASE NextUnit
  BY <1>9 DEF NextUnit, world, bounds
<1>10. CASE Census
  BY <1>10, <1>0 DEF Census, Die, world, bounds
<1>11. CASE Kill
  BY <1>11, <1>0 DEF Kill, world
<1>12. CASE ServerDies
  BY <1>12 DEF ServerDies, Serving, Servers, world
<1>13. CASE OrphanEnds
  BY <1>13 DEF OrphanEnds, world, bounds
<1>14. CASE Edit
  BY <1>14 DEF Edit
<1>15. CASE UNCHANGED evalVars
  BY <1>15 DEF evalVars, world, bounds
<1> QED
  BY <1>1, <1>2, <1>3, <1>4, <1>5, <1>6, <1>7, <1>8, <1>9, <1>10, <1>11, <1>12, <1>13,
     <1>14, <1>15 DEF EvalNext, Work

(* The evaluator starts on what is neither on file nor another's.          *)
LEMMA StartStep ==
  ASSUME EvalInv, StartShard
  PROVE  ShardInv'
<1> USE DEF EvalInv
<1>1. CASE Die
  BY <1>1, ShardEnded DEF Die
<1>2. CASE ~ Die
  <2> DEFINE todo == Todo(Current, TraceFile)
  <2>1. /\ Countersigned /\ SameFingerprint(TraceFile, server) /\ NoStaleRows(TraceFile)
        /\ shard' = [todo |-> todo, pending |-> Cardinality(todo), written |-> 0,
                     inflight |-> {}, results |-> {}, failed |-> FALSE, shut |-> FALSE,
                     card |-> server.card, config |-> server.config, contract |-> contract]
        /\ UNCHANGED <<unit, trace>>
    BY <1>2 DEF StartShard
  <2>2. server \in Servers
    BY <2>1 DEF DriverInv, Countersigned, Attested, Serving
  <2>3. todo \subseteq Tasks
    BY QueuedAreTasks DEF DriverInv
  <2>4. /\ shard'.todo = todo /\ shard'.inflight = {} /\ shard'.results = {}
        /\ shard'.card = server.card /\ shard'.config = server.config
        /\ shard'.contract = contract
    BY <2>1
  <2>5. ShardShape'
    BY <2>1, <2>2, <2>3, <2>4 DEF ShardShape, Servers, DriverInv
  <2>6. TraceFile' = TraceFile /\ Rowset(TraceFile)' = Rowset(TraceFile)
    BY <2>1 DEF TraceFile, Current, Rowset
  <2>7. ShardFits'
    BY <2>1, <2>4, <2>6 DEF ShardFits, SameFingerprint, NoStaleRows
  <2>8. Traced(TraceFile) = Done(TraceFile)
    BY <2>1 DEF Traced, Done, NoStaleRows
  <2>9. todo \cap Traced(TraceFile)' = {}
    BY <2>6, <2>8 DEF Todo, Traced
  <2>10. ShardDisjoint'
    BY <2>4, <2>9, <2>6 DEF ShardDisjoint, Returned, Traced
  <2> QED
    BY <2>5, <2>7, <2>10 DEF ShardInv
<1> QED
  BY <1>1, <1>2

(* A task is taken from the queue. *)
LEMMA LaunchStep ==
  ASSUME EvalInv, Launch
  PROVE  ShardInv'
<1> USE DEF EvalInv
<1>1. ShardShape /\ ShardFits /\ ShardDisjoint
  BY DEF Launch, ShardInv
<1>2. PICK t \in shard.todo :
        shard' = [shard EXCEPT !.todo = @ \ {t}, !.inflight = @ \cup {t}]
  BY DEF Launch
<1>3. /\ shard'.todo = shard.todo \ {t} /\ shard'.inflight = shard.inflight \cup {t}
      /\ shard'.results = shard.results
      /\ shard'.card = shard.card /\ shard'.config = shard.config
      /\ shard'.contract = shard.contract
      /\ shard' = [todo |-> shard'.todo, pending |-> shard'.pending,
                   written |-> shard'.written, inflight |-> shard'.inflight,
                   results |-> shard'.results, failed |-> shard'.failed,
                   shut |-> shard'.shut, card |-> shard'.card,
                   config |-> shard'.config, contract |-> shard'.contract]
  BY <1>1, <1>2 DEF ShardShape
<1>4. UNCHANGED <<unit, trace>>
  BY DEF Launch, ShardStep
<1>5. TraceFile' = TraceFile /\ Rowset(TraceFile)' = Rowset(TraceFile)
  BY <1>4 DEF TraceFile, Current, Rowset
<1>6. ShardShape'
  BY <1>1, <1>3 DEF ShardShape, Result
<1>7. ShardFits'
  BY <1>1, <1>3, <1>5 DEF ShardFits
<1>8. ShardDisjoint'
  BY <1>1, <1>3, <1>5 DEF ShardDisjoint, Returned, Traced
<1> QED
  BY <1>6, <1>7, <1>8 DEF ShardInv

(* An episode in flight returns, answered or not. *)
LEMMA ReturnStep ==
  ASSUME EvalInv, shard # None, NEW t \in shard.inflight, NEW e \in Engines, Return(t, e),
         UNCHANGED <<unit, trace>>
  PROVE  ShardInv'
<1> USE DEF EvalInv
<1>1. ShardShape /\ ShardFits /\ ShardDisjoint
  BY DEF ShardInv
<1>3. /\ shard'.todo = shard.todo /\ shard'.inflight = shard.inflight \ {t}
      /\ shard'.results = shard.results \cup {Result(t, e)}
      /\ shard'.card = shard.card /\ shard'.config = shard.config
      /\ shard'.contract = shard.contract
      /\ shard' = [todo |-> shard'.todo, pending |-> shard'.pending,
                   written |-> shard'.written, inflight |-> shard'.inflight,
                   results |-> shard'.results, failed |-> shard'.failed,
                   shut |-> shard'.shut, card |-> shard'.card,
                   config |-> shard'.config, contract |-> shard'.contract]
  BY <1>1 DEF ShardShape, Return
<1>5. TraceFile' = TraceFile /\ Rowset(TraceFile)' = Rowset(TraceFile)
  BY DEF TraceFile, Current, Rowset
<1>6. ShardShape'
  BY <1>1, <1>3 DEF ShardShape, Result
<1>7. ShardFits'
  BY <1>1, <1>3, <1>5 DEF ShardFits
<1>8. /\ Returned' = Returned \cup {t} /\ Traced(TraceFile)' = Traced(TraceFile)
      /\ Result(t, e).task = t
  <2>1. Result(t, e).task = t
    BY DEF Result
  <2>2. Returned' = Returned \cup {t}
    BY <1>3, <2>1 DEF Returned
  <2>3. Traced(TraceFile)' = Traced(TraceFile)
    BY <1>5 DEF Traced
  <2> QED
    BY <2>1, <2>2, <2>3
<1>9. \A r, s \in shard'.results : r.task = s.task => r = s
  BY <1>1, <1>3, <1>8 DEF ShardDisjoint, Returned
<1>10. ShardDisjoint'
  BY <1>1, <1>3, <1>5, <1>8, <1>9 DEF ShardDisjoint
<1> QED
  BY <1>6, <1>7, <1>10 DEF ShardInv

(* The file a row is appended to. *)
LEMMA WriteFacts ==
  ASSUME EvalInv, shard # None, NEW r \in shard.results,
         trace' = [trace EXCEPT ![TraceFile] = Appended(@, r)], UNCHANGED unit
  PROVE  /\ r \in Rows /\ TraceFile \in Files /\ TraceFile' = TraceFile
         /\ r.card = shard.card /\ r.config = shard.config /\ r.contract = shard.contract
         /\ trace' \in [Files -> [rows : Seq(Rows), torn : BOOLEAN]]
         /\ \A f \in Files : f # TraceFile => trace'[f] = trace[f]
         /\ trace[TraceFile].torn => trace'[TraceFile].rows = trace[TraceFile].rows
         /\ ~ trace[TraceFile].torn =>
              /\ trace'[TraceFile].rows = Append(trace[TraceFile].rows, r)
              /\ ToSet(trace'[TraceFile].rows) = ToSet(trace[TraceFile].rows) \cup {r}
<1> USE DEF EvalInv
<1>1. /\ r \in Rows /\ r.card = shard.card /\ r.config = shard.config
      /\ r.contract = shard.contract
  BY ResultIsRow DEF ShardInv
<1>2. TraceFile \in Files /\ TraceFile' = TraceFile
  BY CurrentUnit DEF DriverInv, TraceFile, Current
<1>3. trace \in [Files -> [rows : Seq(Rows), torn : BOOLEAN]]
  BY DEF TraceInv
<1>4. trace[TraceFile] \in [rows : Seq(Rows), torn : BOOLEAN]
  BY <1>2, <1>3
<1>5. trace'[TraceFile] = Appended(trace[TraceFile], r)
  BY <1>2, <1>3
<1>6. \A f \in Files : f # TraceFile => trace'[f] = trace[f]
  BY <1>3
<1>7. trace' \in [Files -> [rows : Seq(Rows), torn : BOOLEAN]]
  BY <1>1, <1>2, <1>3, <1>4, AppendedRows
<1> QED
  BY <1>1, <1>2, <1>4, <1>5, <1>6, <1>7, AppendedRows

(* A row goes to its file: nothing already there has its task.             *)
LEMMA WriteStep ==
  ASSUME EvalInv, Write
  PROVE  TraceInv' /\ ShardInv' /\ OneApparatus' /\ EachTaskOnce'
<1> USE DEF EvalInv
<1> DEFINE F == TraceFile
<1>1. shard # None /\ ShardShape /\ ShardFits /\ ShardDisjoint /\ UNCHANGED unit
  BY DEF Write, ShardStep, ShardInv
<1>2. PICK r \in shard.results :
        IF Scored(r)
        THEN /\ trace' = [trace EXCEPT ![TraceFile] = Appended(@, r)]
             /\ shard' = [shard EXCEPT !.results = @ \ {r}, !.written = @ + 1]
        ELSE /\ shard' = [shard EXCEPT !.results = @ \ {r}, !.failed = TRUE]
             /\ UNCHANGED trace
  BY DEF Write
<1>3. /\ shard'.todo = shard.todo /\ shard'.inflight = shard.inflight
      /\ shard'.results = shard.results \ {r}
      /\ shard'.card = shard.card /\ shard'.config = shard.config
      /\ shard'.contract = shard.contract
      /\ shard' = [todo |-> shard'.todo, pending |-> shard'.pending,
                   written |-> shard'.written, inflight |-> shard'.inflight,
                   results |-> shard'.results, failed |-> shard'.failed,
                   shut |-> shard'.shut, card |-> shard'.card,
                   config |-> shard'.config, contract |-> shard'.contract]
  BY <1>1, <1>2 DEF ShardShape
<1>4. ShardShape'
  BY <1>1, <1>3 DEF ShardShape, Result
<1>5. Returned' = Returned \ {r.task}
  BY <1>1, <1>3 DEF Returned, ShardDisjoint
<1>6. CASE ~ Scored(r)
  <2>1. UNCHANGED trace
    BY <1>2, <1>6
  <2>2. TraceFile' = TraceFile /\ Rowset(TraceFile)' = Rowset(TraceFile)
    BY <1>1, <2>1 DEF TraceFile, Current, Rowset
  <2>3. ShardFits'
    BY <1>1, <1>3, <2>2 DEF ShardFits
  <2>4. ShardDisjoint'
    BY <1>1, <1>3, <1>5, <2>2 DEF ShardDisjoint, Traced
  <2> QED
    BY <1>4, <2>1, <2>3, <2>4, FilesKept DEF ShardInv
<1>7. CASE Scored(r)
  <2>1. trace' = [trace EXCEPT ![TraceFile] = Appended(@, r)]
    BY <1>2, <1>7
  <2>2. /\ r \in Rows /\ F \in Files /\ TraceFile' = F
        /\ r.card = shard.card /\ r.config = shard.config /\ r.contract = shard.contract
        /\ trace' \in [Files -> [rows : Seq(Rows), torn : BOOLEAN]]
        /\ \A f \in Files : f # F => trace'[f] = trace[f]
        /\ trace[F].torn => trace'[F].rows = trace[F].rows
        /\ ~ trace[F].torn => /\ trace'[F].rows = Append(trace[F].rows, r)
                              /\ ToSet(trace'[F].rows) = ToSet(trace[F].rows) \cup {r}
    BY <1>1, <2>1, WriteFacts
  <2>3. /\ \A f \in Files : f # F => Rowset(f)' = Rowset(f)
        /\ Rowset(F)' \subseteq Rowset(F) \cup {r}
    BY <2>2 DEF Rowset
  <2>4. TraceInv'
    BY <1>7, <2>2, <2>3 DEF TraceInv, Scored
  <2>5. /\ \A s \in Rowset(F) : s.card = r.card /\ s.config = r.config
                                /\ s.contract = r.contract
        /\ r.task \notin Traced(F)
    BY <1>1, <2>2 DEF ShardFits, ShardDisjoint, Returned
  <2>6. OneApparatus'
    <3> SUFFICES ASSUME NEW f \in Files, NEW x \in Rowset(f)', NEW y \in Rowset(f)'
                 PROVE  x.card = y.card /\ x.config = y.config /\ x.contract = y.contract
      BY DEF OneApparatus
    <3>1. CASE f # F
      <4>1. x \in Rowset(f) /\ y \in Rowset(f)
        BY <2>3, <3>1
      <4> QED
        BY <4>1 DEF OneApparatus
    <3>2. CASE f = F
      <4>1. x \in Rowset(F) \cup {r} /\ y \in Rowset(F) \cup {r}
        BY <2>2, <3>2 DEF Rowset
      <4>2. \A s \in Rowset(F) \cup {r} :
              s.card = r.card /\ s.config = r.config /\ s.contract = r.contract
        BY <2>5
      <4> HIDE DEF F
      <4> QED
        BY <4>1, <4>2
    <3> QED
      BY <3>1, <3>2
  <2>7. ShardFits'
    BY <1>1, <1>3, <2>2, <2>3 DEF ShardFits
  <2>8. Traced(F)' \subseteq Traced(F) \cup {r.task}
    BY <2>3 DEF Traced
  <2>9. r.task \in Returned
    BY DEF Returned
  <2>10. ShardDisjoint'
    <3>1. Traced(TraceFile)' \subseteq Traced(F) \cup {r.task}
      BY <2>2, <2>8 DEF Traced, Rowset
    <3> QED
      BY <1>1, <1>3, <1>5, <2>9, <3>1 DEF ShardDisjoint
  <2>11. EachTaskOnce'
    <3> SUFFICES ASSUME NEW f \in Files,
                        NEW i \in DOMAIN trace'[f].rows, NEW j \in DOMAIN trace'[f].rows,
                        trace'[f].rows[i].task = trace'[f].rows[j].task
                 PROVE  i = j
      BY DEF EachTaskOnce
    <3>1. CASE f # F \/ trace[F].torn
      <4>1. trace'[f].rows = trace[f].rows
        BY <2>2, <3>1
      <4> QED
        BY <4>1 DEF EachTaskOnce
    <3>2. CASE f = F /\ ~ trace[F].torn
      <4> DEFINE old == trace[F].rows
      <4>1. old \in Seq(Rows) /\ trace'[f].rows = Append(old, r)
        BY <2>2, <3>2 DEF TraceInv
      <4>2. /\ DOMAIN old = 1..Len(old) /\ Len(old) \in Nat
            /\ DOMAIN trace'[f].rows = 1..(Len(old) + 1)
            /\ \A k \in 1..Len(old) : trace'[f].rows[k] = old[k]
            /\ trace'[f].rows[Len(old) + 1] = r
        BY <4>1
      <4>3. \A k \in 1..Len(old) : old[k].task # r.task
        BY <2>5, <4>2 DEF Traced, Rowset, ToSet
      <4>4. \A k, l \in 1..Len(old) : old[k].task = old[l].task => k = l
        BY <2>2, <4>2 DEF EachTaskOnce
      <4>5. CASE i \in 1..Len(old) /\ j \in 1..Len(old)
        BY <4>2, <4>4, <4>5
      <4>6. CASE i = Len(old) + 1 /\ j \in 1..Len(old)
        BY <4>2, <4>3, <4>6
      <4>7. CASE i \in 1..Len(old) /\ j = Len(old) + 1
        BY <4>2, <4>3, <4>7
      <4>8. i \in 1..(Len(old) + 1) /\ j \in 1..(Len(old) + 1)
        BY <4>2
      <4> QED
        BY <4>2, <4>5, <4>6, <4>7, <4>8
    <3> QED
      BY <3>1, <3>2
  <2> QED
    BY <1>4, <2>4, <2>6, <2>7, <2>10, <2>11 DEF ShardInv
<1> QED
  BY <1>6, <1>7

LEMMA EvalInvInit == EvalInit => EvalInv
<1> SUFFICES ASSUME EvalInit PROVE EvalInv
  OBVIOUS
<1>1. 1 \in DOMAIN Units
  BY EvaluationAssumption, EmptySeq DEF EvaluationAssumption
<1>2. \A f \in Files : trace[f].rows = <<>> /\ trace[f].torn = FALSE
                      /\ Rowset(f) = {}
  BY DEF EvalInit, Rowset, ToSet
<1>3. trace \in [Files -> [rows : Seq(Rows), torn : BOOLEAN]]
  BY DEF EvalInit
<1>4. DriverInv /\ ShardInv
  BY <1>1 DEF EvalInit, DriverInv, ShardInv
<1>5. TraceInv /\ OneApparatus /\ EachTaskOnce
  BY <1>2, <1>3 DEF TraceInv, OneApparatus, EachTaskOnce
<1> QED
  BY <1>4, <1>5 DEF EvalInv

(* Where no row is written, the files say what they said before; a torn    *)
(* tail changes no row that can be read.                                   *)
LEMMA KillStep ==
  ASSUME EvalInv, Kill
  PROVE  TraceInv' /\ OneApparatus' /\ EachTaskOnce'
<1> USE DEF EvalInv
<1>1. CASE UNCHANGED trace
  BY <1>1, FilesKept
<1>2. CASE trace' = [trace EXCEPT ![TraceFile].torn = TRUE]
  <2>1. TraceFile \in Files
    BY CurrentUnit DEF DriverInv
  <2>2. /\ trace' \in [Files -> [rows : Seq(Rows), torn : BOOLEAN]]
        /\ \A f \in Files : trace'[f].rows = trace[f].rows
    BY <1>2, <2>1 DEF TraceInv
  <2>3. \A f \in Files : Rowset(f)' = Rowset(f)
    BY <2>2 DEF Rowset
  <2>4. TraceInv'
    BY <2>2, <2>3 DEF TraceInv
  <2>5. OneApparatus'
    BY <2>3 DEF OneApparatus
  <2>6. EachTaskOnce'
    BY <2>2 DEF EachTaskOnce
  <2> QED
    BY <2>4, <2>5, <2>6
<1> QED
  BY <1>1, <1>2 DEF Kill

LEMMA EvalInvStep == EvalInv /\ [EvalNext]_evalVars => EvalInv'
<1> SUFFICES ASSUME EvalInv, [EvalNext]_evalVars PROVE EvalInv'
  OBVIOUS
<1>0. DriverInv'
  BY DriverStep
<1> SUFFICES TraceInv' /\ ShardInv' /\ OneApparatus' /\ EachTaskOnce'
  BY <1>0 DEF EvalInv
<1>1. shard # None => driver = "arm"
  BY DEF EvalInv, DriverInv
<1>2. CASE BeginEval \/ Capture \/ MarkReady \/ NextUnit \/ ServerDies \/ OrphanEnds \/ Edit
           \/ UNCHANGED evalVars
  <2>1. UNCHANGED <<trace, shard, unit>>
    BY <1>2 DEF BeginEval, Capture, MarkReady, NextUnit, ServerDies, OrphanEnds, Edit, evalVars
  <2> QED
    BY <2>1, FilesKept, ShardKept
<1>3. CASE ServeFails \/ LedgerRefuses
  BY <1>3, FilesKept, ShardEnded DEF ServeFails, LedgerRefuses, Die
<1>4. CASE StartShard
  BY <1>4, StartStep, FilesKept DEF StartShard
<1>5. CASE Launch
  BY <1>5, LaunchStep, FilesKept DEF Launch
<1>6. CASE Answer \/ TransportFails
  <2>1. PICK t \in shard.inflight, e \in Engines : Return(t, e)
    BY <1>6 DEF Answer, TransportFails, Engines
  <2>2. shard # None /\ UNCHANGED <<unit, trace>>
    BY <1>6 DEF Answer, TransportFails, ShardStep
  <2> QED
    BY <2>1, <2>2, ReturnStep, FilesKept
<1>7. CASE Write
  BY <1>7, WriteStep
<1>8. CASE CloseWindow
  <2>1. shard # None /\ ShardShape /\ ShardFits /\ ShardDisjoint
        /\ shard' = [shard EXCEPT !.shut = TRUE] /\ UNCHANGED <<unit, trace>>
    BY <1>8 DEF CloseWindow, ShardStep, EvalInv, ShardInv
  <2>2. /\ shard'.todo = shard.todo /\ shard'.inflight = shard.inflight
        /\ shard'.results = shard.results
        /\ shard'.card = shard.card /\ shard'.config = shard.config
        /\ shard'.contract = shard.contract
        /\ shard' = [todo |-> shard'.todo, pending |-> shard'.pending,
                     written |-> shard'.written, inflight |-> shard'.inflight,
                     results |-> shard'.results, failed |-> shard'.failed,
                     shut |-> shard'.shut, card |-> shard'.card,
                     config |-> shard'.config, contract |-> shard'.contract]
    BY <2>1 DEF ShardShape
  <2>3. ShardShape'
    BY <2>1, <2>2 DEF ShardShape, Result
  <2>4. TraceFile' = TraceFile /\ Rowset(TraceFile)' = Rowset(TraceFile)
    BY <2>1 DEF TraceFile, Current, Rowset
  <2>5. ShardFits'
    BY <2>1, <2>2, <2>4 DEF ShardFits
  <2>6. ShardDisjoint'
    BY <2>1, <2>2, <2>4 DEF ShardDisjoint, Returned, Traced
  <2> QED
    BY <2>1, <2>3, <2>5, <2>6, FilesKept DEF ShardInv
<1>9. CASE EndShard
  BY <1>9, FilesKept, ShardEnded DEF EndShard, AbortShard, FinishShard, Die
<1>10. CASE Census
  <2>1. shard' = None \/ UNCHANGED <<trace, shard, unit>>
    BY <1>10 DEF Census, Die
  <2> QED
    BY <1>10, <2>1, FilesKept, ShardKept, ShardEnded DEF Census
<1>11. CASE Kill
  BY <1>11, KillStep, ShardEnded DEF Kill
<1> QED
  BY <1>2, <1>3, <1>4, <1>5, <1>6, <1>7, <1>8, <1>9, <1>10, <1>11 DEF EvalNext, Work

-----------------------------------------------------------------------------
THEOREM EvaluationInvariant == EvalSpec => []EvalInv
  BY EvalInvInit, EvalInvStep, PTL DEF EvalSpec

(* Whatever was swapped, edited, killed or rotated between two rows of a   *)
(* trace file, one card, one configuration and one environment contract    *)
(* produced them all (require_same_fingerprint,                            *)
(* refuse_stale_environment_rows).                                         *)
THEOREM RowsShareAnApparatus == EvalSpec => []OneApparatus
  BY EvaluationInvariant, PTL DEF EvalInv

(* No resume runs an episode whose row can be read (done_task_ids).        *)
THEOREM TasksAreTracedOnce == EvalSpec => []EachTaskOnce
  BY EvaluationInvariant, PTL DEF EvalInv

-----------------------------------------------------------------------------
(* The refinement: rows appear one at a time, and only the census declares *)
(* the evaluation over.                                                    *)
LEMMA RowsKeptAnsweredKept ==
  ASSUME \A f \in Files : Rowset(f)' = Rowset(f)
  PROVE  Answered' = Answered
  BY DEF Answered

LEMMA CensusIsSound ==
  ASSUME EvalInv, \A p \in MandatoryPairs : Missing(p[1], p[2]) = {}
  PROVE  Required \subseteq Answered
<1> SUFFICES ASSUME NEW p \in MandatoryPairs, NEW t \in Asked(p[2])
             PROVE  <<FileOf(p[1], p[2]), t>> \in Answered
  BY DEF Required
<1>1. FileOf(p[1], p[2]) \in Files
  BY EvaluationAssumption DEF EvaluationAssumption, Files
<1>2. t \in Done(FileOf(p[1], p[2]))
  BY DEF Missing, Expected
<1>3. PICK r \in Rowset(FileOf(p[1], p[2])) : r.task = t
  BY <1>2 DEF Done
<1>4. r.engine = "live"
  BY <1>1 DEF EvalInv, TraceInv
<1> QED
  BY <1>1, <1>3, <1>4 DEF Answered

LEMMA WriteTraces ==
  ASSUME EvalInv, Write
  PROVE  [Promise!Next]_Promise!vars
<1> DEFINE F == TraceFile
<1>1. shard # None /\ ShardShape /\ UNCHANGED <<unit, driver>> /\ driver = "arm"
  BY DEF Write, ShardStep, EvalInv, ShardInv, DriverInv
<1>2. PICK r \in shard.results :
        IF Scored(r)
        THEN trace' = [trace EXCEPT ![TraceFile] = Appended(@, r)]
        ELSE UNCHANGED trace
  BY DEF Write
<1>3. CASE \A f \in Files : Rowset(f)' = Rowset(f)
  BY <1>1, <1>3, RowsKeptAnsweredKept DEF Promise!vars
<1>4. CASE ~ Scored(r)
  BY <1>2, <1>3, <1>4 DEF Rowset
<1>5. CASE Scored(r)
  <2>1. /\ r \in Rows /\ F \in Files /\ TraceFile' = F
        /\ \A f \in Files : f # F => trace'[f] = trace[f]
        /\ trace[F].torn => trace'[F].rows = trace[F].rows
        /\ ~ trace[F].torn => ToSet(trace'[F].rows) = ToSet(trace[F].rows) \cup {r}
    BY <1>1, <1>2, <1>5, WriteFacts
  <2>2. CASE trace[F].torn
    BY <1>3, <2>1, <2>2 DEF Rowset
  <2>3. CASE ~ trace[F].torn
    <3> DEFINE e == <<F, r.task>>
    <3>1. \A f \in Files : Rowset(f)' = IF f = F THEN Rowset(f) \cup {r} ELSE Rowset(f)
      BY <2>1, <2>3 DEF Rowset
    <3>2. e \in Episodes /\ r.engine = "live"
      BY <1>5, <2>1 DEF Episodes, Rows, Scored
    <3>3. Answered' = Answered \cup {e}
      <4>1. ASSUME NEW x \in Answered' PROVE x \in Answered \cup {e}
        <5>1. PICK f \in Files : \E q \in Rowset(f)' : q.engine = "live" /\ x = <<f, q.task>>
          BY <4>1 DEF Answered
        <5> QED
          BY <3>1, <5>1 DEF Answered
      <4>2. ASSUME NEW x \in Answered PROVE x \in Answered'
        <5>1. PICK f \in Files : \E q \in Rowset(f) : q.engine = "live" /\ x = <<f, q.task>>
          BY <4>2 DEF Answered
        <5>2. Rowset(f) \subseteq Rowset(f)'
          BY <3>1
        <5> QED
          BY <5>1, <5>2 DEF Answered
      <4>3. e \in Answered'
        <5>1. r \in Rowset(F)'
          BY <2>1, <2>3 DEF Rowset
        <5> QED
          BY <2>1, <3>2, <5>1 DEF Answered
      <4> QED
        BY <4>1, <4>2, <4>3
    <3>4. CASE e \in Answered
      BY <1>1, <3>3, <3>4 DEF Promise!vars
    <3>5. CASE e \notin Answered
      <4>1. Promise!Trace(e)
        BY <1>1, <3>3, <3>5 DEF Promise!Trace
      <4> QED
        BY <3>2, <4>1 DEF Promise!Next
    <3> QED
      BY <3>4, <3>5
  <2> QED
    BY <2>2, <2>3
<1> QED
  BY <1>4, <1>5

LEMMA PromiseStep == EvalInv /\ [EvalNext]_evalVars => [Promise!Next]_Promise!vars
<1> SUFFICES ASSUME EvalInv, [EvalNext]_evalVars PROVE [Promise!Next]_Promise!vars
  OBVIOUS
<1>1. shard # None => driver = "arm"
  BY DEF EvalInv, DriverInv
<1>2. ASSUME \A f \in Files : Rowset(f)' = Rowset(f),
             driver' = driver \/ (driver # "done" /\ driver' # "done")
      PROVE  [Promise!Next]_Promise!vars
  BY <1>2, RowsKeptAnsweredKept DEF Promise!vars
<1>3. ASSUME UNCHANGED trace, driver' = driver \/ (driver # "done" /\ driver' # "done")
      PROVE  [Promise!Next]_Promise!vars
  BY <1>2, <1>3 DEF Rowset
<1>4. CASE \/ BeginEval \/ Capture \/ MarkReady \/ ServeFails \/ StartShard \/ LedgerRefuses
           \/ NextUnit \/ ServerDies \/ OrphanEnds \/ Edit \/ UNCHANGED evalVars
  BY <1>3, <1>4
     DEF BeginEval, Capture, MarkReady, ServeFails, StartShard, LedgerRefuses, NextUnit,
         ServerDies, OrphanEnds, Edit, Die, evalVars
<1>5. CASE Launch \/ Answer \/ TransportFails \/ CloseWindow
  BY <1>3, <1>5 DEF Launch, Answer, TransportFails, CloseWindow, ShardStep
<1>6. CASE EndShard
  BY <1>1, <1>3, <1>6 DEF EndShard, AbortShard, FinishShard, Die
<1>7. CASE Write
  BY <1>7, WriteTraces
<1>8. CASE Kill
  <2>1. \A f \in Files : trace'[f].rows = trace[f].rows
    <3>1. CASE UNCHANGED trace
      BY <3>1
    <3>2. CASE trace' = [trace EXCEPT ![TraceFile].torn = TRUE]
      <4>1. TraceFile \in Files /\ trace \in [Files -> [rows : Seq(Rows), torn : BOOLEAN]]
        BY CurrentUnit DEF EvalInv, DriverInv, TraceInv
      <4> QED
        BY <3>2, <4>1
    <3> QED
      BY <1>8, <3>1, <3>2 DEF Kill
  <2> QED
    BY <1>2, <1>8, <2>1 DEF Kill, Rowset
<1>9. CASE Census
  <2>1. CASE \A p \in MandatoryPairs : Missing(p[1], p[2]) = {}
    <3>1. Answered' = Answered
      BY <1>9, RowsKeptAnsweredKept DEF Census, Rowset
    <3>2. Promise!Declare
      BY <1>9, <2>1, <3>1, CensusIsSound DEF Census, Promise!Declare, Required
    <3> QED
      BY <3>2 DEF Promise!Next
  <2>2. CASE ~ \A p \in MandatoryPairs : Missing(p[1], p[2]) = {}
    BY <1>3, <1>9, <2>2 DEF Census, Die
  <2> QED
    BY <2>1, <2>2
<1> QED
  BY <1>4, <1>5, <1>6, <1>7, <1>8, <1>9 DEF EvalNext, Work

(* The eval stage implements PairedCensus: no kill, lost engine or glued   *)
(* row loses an episode on file, and the stage is done only over a row of  *)
(* an engine that answered for every task of every mandatory manifest in   *)
(* both arms (run_shard, unit_census, require_mandatory_census).           *)
THEOREM StageKeepsThePromise == EvalSpec => CensusPromise
<1>1. EvalInit => Promise!Init
  <2> SUFFICES ASSUME EvalInit PROVE Promise!Init
    OBVIOUS
  <2>1. \A f \in Files : Rowset(f) = {}
    BY DEF EvalInit, Rowset, ToSet
  <2> QED
    BY <2>1 DEF EvalInit, Promise!Init, Answered
<1> QED
  BY <1>1, PromiseStep, EvaluationInvariant, PTL DEF EvalSpec, CensusPromise, Promise!Spec

-----------------------------------------------------------------------------
(* The tournament: what was frozen stays what finalize would write.  How a  *)
(* ranking is sorted does not matter to the argument: once every candidate  *)
(* has its round-one file and every finalist its round-two file, a unit     *)
(* that had no file belongs to a candidate the pooled rows leave out, and   *)
(* any other unit is recorded as rework.                                    *)
Round1File == [won : 0..Round1, contract : Checkouts]

TournamentType ==
  /\ checkout \in Checkouts
  /\ r1 \in [Ids -> Round1File \cup {None}]
  /\ r2 \in [Ids -> (0..Round2) \cup {None}]

TournamentInv == TournamentType /\ FrozenStands

-----------------------------------------------------------------------------
(* The ranking and the winner are functions of the files alone.            *)
LEMMA SameFiles ==
  ASSUME UNCHANGED <<r1, r2>>
  PROVE  /\ Finalists' = Finalists
         /\ Finalizable' = Finalizable
         /\ Winner' = Winner
<1>1. FirstRanking' = FirstRanking
  BY DEF FirstRanking
<1>2. Finalists' = Finalists
  BY <1>1 DEF Finalists
<1>3. \A c : Rows2(c)' = Rows2(c)
  BY <1>2 DEF Rows2
<1>4. Winner' = Winner
  BY <1>3 DEF Winner
<1>5. Finalizable' = Finalizable
  BY <1>2 DEF Finalizable
<1> QED
  BY <1>2, <1>4, <1>5

(* A round-two file of a candidate that is no finalist counts for nothing. *)
LEMMA OtherRoundTwo ==
  ASSUME TournamentType, NEW c \in Ids, c \notin Finalists, NEW won \in 0..Round2,
         r1' = r1, r2' = [r2 EXCEPT ![c] = won]
  PROVE  Winner' = Winner /\ (Finalizable => Finalizable')
<1>1. FirstRanking' = FirstRanking
  BY DEF FirstRanking
<1>2. Finalists' = Finalists
  BY <1>1 DEF Finalists
<1>3. \A d \in Ids : Rows2(d)' = Rows2(d)
  BY <1>2 DEF Rows2, TournamentType
<1>4. [d \in Ids |-> Tally(r1[d], Rows2(d))]' = [d \in Ids |-> Tally(r1[d], Rows2(d))]
  BY <1>3
<1>5. Winner' = Winner
  BY <1>4 DEF Winner
<1>6. \A d \in Ids \ {c} : r2'[d] = r2[d]
  BY DEF TournamentType
<1>7. Finalizable => Finalizable'
  BY <1>2, <1>6 DEF Finalizable, Rolled
<1> QED
  BY <1>5, <1>7

-----------------------------------------------------------------------------
LEMMA RunUnitKeeps ==
  ASSUME TournamentInv, RunUnit
  PROVE  TournamentInv'
<1> DEFINE c == Head(run)[2]
<1>1. /\ UNCHANGED <<checkout, winner>>
      /\ reworked' = (reworked \/ File(Head(run)) # None)
  BY DEF RunUnit
<1>2. \/ \E won \in 0..Round1 :
           /\ Head(run)[1] = 1
           /\ r1' = [r1 EXCEPT ![c] = [won |-> won, contract |-> checkout]] /\ r2' = r2
      \/ \E won \in 0..Round2 :
           /\ Head(run)[1] # 1
           /\ r2' = [r2 EXCEPT ![c] = won] /\ r1' = r1
  BY DEF RunUnit
<1> HIDE DEF c
<1>3. TournamentType'
  BY <1>1, <1>2 DEF TournamentInv, TournamentType, Round1File
<1>4. FrozenStands'
  <2> SUFFICES ASSUME winner # None, ~ reworked, File(Head(run)) = None
               PROVE  Finalizable' /\ winner = Winner'
    BY <1>1 DEF FrozenStands
  <2>1. Finalizable /\ winner = Winner
    BY DEF TournamentInv, FrozenStands
  <2>2. CASE UNCHANGED <<r1, r2>>
    BY <2>1, <2>2, SameFiles
  <2>3. CASE c \notin Ids
    BY <1>2, <2>2, <2>3 DEF TournamentInv, TournamentType
  <2>4. CASE c \in Ids /\ Head(run)[1] = 1
    <3>1. r1[c] = None
      BY <2>4 DEF File, c
    <3> QED
      BY <2>1, <2>4, <3>1 DEF Finalizable, Rolled
  <2>5. CASE c \in Ids /\ Head(run)[1] # 1
    <3>1. r2[c] = None
      BY <2>5 DEF File, c
    <3>2. c \notin Finalists
      BY <2>1, <3>1 DEF Finalizable, Rolled
    <3>3. PICK won \in 0..Round2 : r2' = [r2 EXCEPT ![c] = won] /\ r1' = r1
      BY <1>2, <2>5
    <3> QED
      BY <2>1, <2>5, <3>2, <3>3, OtherRoundTwo DEF TournamentInv
  <2> QED
    BY <2>3, <2>4, <2>5
<1> QED
  BY <1>3, <1>4 DEF TournamentInv

LEMMA TournamentStepKeeps ==
  ASSUME TournamentInv, [TournamentNext]_tournamentVars
  PROVE  TournamentInv'
<1>1. CASE Start \/ Stop \/ UNCHANGED tournamentVars
  <2>1. UNCHANGED <<checkout, r1, r2, winner, reworked>>
    BY <1>1 DEF Start, Stop, tournamentVars
  <2> QED
    BY <2>1, SameFiles DEF TournamentInv, TournamentType, FrozenStands
<1>2. CASE RunUnit
  BY <1>2, RunUnitKeeps
<1>3. CASE Finalize
  <2>1. /\ UNCHANGED <<checkout, r1, r2>>
        /\ Finalizable /\ winner' = Winner
    BY <1>3 DEF Finalize
  <2> QED
    BY <2>1, SameFiles DEF TournamentInv, TournamentType, FrozenStands
<1>4. CASE Discard
  <2>1. UNCHANGED checkout /\ r1' = NoFiles /\ r2' = NoFiles /\ reworked' = TRUE
    BY <1>4 DEF Discard
  <2> QED
    BY <2>1 DEF NoFiles, TournamentInv, TournamentType, FrozenStands
<1>5. CASE ChangeContract
  <2>1. checkout' \in Checkouts /\ UNCHANGED <<r1, r2, winner, reworked>>
    BY <1>5 DEF ChangeContract
  <2> QED
    BY <2>1, SameFiles DEF TournamentInv, TournamentType, FrozenStands
<1> QED
  BY <1>1, <1>2, <1>3, <1>4, <1>5 DEF TournamentNext, Stage

(* For any number of candidates, sizes of the samples and any interleaving *)
(* of runs, forced units, finalizations and discards: until rows are       *)
(* reworked, the frozen winner is the one finalize would write again.      *)
THEOREM FrozenWinnerStands == TournamentSpec => []FrozenStands
<1>1. TournamentInit => TournamentInv
  BY DEF TournamentInit, NoFiles, TournamentInv, TournamentType, FrozenStands
<1>2. TournamentInv /\ [TournamentNext]_tournamentVars => TournamentInv'
  BY TournamentStepKeeps
<1>3. TournamentInv => FrozenStands
  BY DEF TournamentInv
<1> QED
  BY <1>1, <1>2, <1>3, PTL DEF TournamentSpec

-----------------------------------------------------------------------------
(* The verdict.                                                            *)

(* A row is of one of the registered cells, with at most one flaw.         *)
IsRow(r) == \E a \in Arms, c \in Cells :
              r.flaw \in Flaws(c) \cup {"none"} /\ r = Row(a, c, r.good, r.flaw)

SameEpisode(r, s) == /\ r.arm = s.arm /\ r.condition = s.condition
                     /\ r.control = s.control /\ r.task = s.task

Papers == [specs : {"ok", "absent", "spoilt"}, splits : {"ok", "absent", "spoilt"},
           locks : {"ok", "absent", "spoilt"}, history : {"ok", "absent", "spoilt"},
           disposition : {"ok", "absent", "spoilt"}]

VerdictInv ==
  /\ \A r \in rows : IsRow(r)
  /\ \A r, s \in rows : SameEpisode(r, s) => r = s
  /\ papers \in Papers

-----------------------------------------------------------------------------
(* The invariant. *)
LEMMA RowFields ==
  ASSUME NEW a, NEW c, NEW good, NEW flaw
  PROVE  LET r == Row(a, c, good, flaw)
         IN /\ r.arm = a /\ r.condition = c.condition /\ r.control = c.control
            /\ r.task = c.task /\ r.good = good /\ r.flaw = flaw
  BY DEF Row

LEMMA RowIsRow ==
  ASSUME NEW a \in Arms, NEW c \in Cells, NEW good,
         NEW flaw \in Flaws(c) \cup {"none"}
  PROVE  IsRow(Row(a, c, good, flaw))
  BY RowFields DEF IsRow

LEMMA CellFields ==
  ASSUME NEW c \in Cells
  PROVE  /\ c.condition \in Conditions
         /\ c.control \in {"none", "redacted", "permuted"}
         /\ c = [condition |-> c.condition, control |-> c.control, task |-> c.task]
         /\ c.control = "redacted" => c.condition = "clean"
         /\ c.control = "permuted" => c.condition = "clean"
  BY DEF Cells, Conditions

LEMMA VerdictInvInit == VerdictInit => VerdictInv
<1> SUFFICES ASSUME VerdictInit PROVE VerdictInv
  OBVIOUS
<1>1. PICK p \in Profiles : rows = {FreshRow(p, a, c) : a \in Arms, c \in Cells}
  BY DEF VerdictInit
<1>2. \A r \in rows : \E a \in Arms, c \in Cells : r = FreshRow(p, a, c)
  BY <1>1
<1>3. ASSUME NEW a \in Arms, NEW c \in Cells
      PROVE  IsRow(FreshRow(p, a, c))
  BY RowIsRow DEF FreshRow
<1>4. ASSUME NEW r \in rows, NEW s \in rows, SameEpisode(r, s)
      PROVE  r = s
  <2>1. PICK a \in Arms, c \in Cells : r = FreshRow(p, a, c)
    BY <1>2
  <2>2. PICK b \in Arms, d \in Cells : s = FreshRow(p, b, d)
    BY <1>2
  <2>3. a = b /\ c.condition = d.condition /\ c.control = d.control /\ c.task = d.task
    BY <1>4, <2>1, <2>2, RowFields DEF SameEpisode, FreshRow
  <2>4. c = d
    BY <2>3, CellFields
  <2> QED
    BY <2>1, <2>2, <2>3, <2>4
<1>5. \A r \in rows : IsRow(r)
  BY <1>2, <1>3
<1>6. papers \in Papers
  BY DEF VerdictInit, Sound, Papers
<1> QED
  BY <1>4, <1>5, <1>6 DEF VerdictInv

(* A row changed in one field only is a row of the same episode.           *)
LEMMA ReplacedRow ==
  ASSUME VerdictInv, NEW r \in rows, NEW new, IsRow(new), SameEpisode(new, r),
         rows' = (rows \ {r}) \cup {new}, UNCHANGED papers
  PROVE  VerdictInv'
<1>1. \A s \in rows' : IsRow(s)
  BY DEF VerdictInv
<1>2. ASSUME NEW s \in rows', NEW t \in rows', SameEpisode(s, t)
      PROVE  s = t
  <2>1. CASE s \in rows \ {r} /\ t \in rows \ {r}
    BY <1>2, <2>1 DEF VerdictInv
  <2>2. CASE s = new /\ t \in rows \ {r}
    <3>1. SameEpisode(r, t)
      BY <1>2, <2>2 DEF SameEpisode
    <3> QED
      BY <2>2, <3>1 DEF VerdictInv
  <2>3. CASE s \in rows \ {r} /\ t = new
    <3>1. SameEpisode(s, r)
      BY <1>2, <2>3 DEF SameEpisode
    <3> QED
      BY <2>3, <3>1 DEF VerdictInv
  <2> QED
    BY <2>1, <2>2, <2>3
<1>3. \A s \in rows' : IsRow(s)'
  BY <1>1 DEF IsRow
<1> QED
  BY <1>1, <1>2 DEF VerdictInv, IsRow, SameEpisode

LEMMA VerdictStepKeeps ==
  ASSUME VerdictInv, [VerdictNext]_verdictVars
  PROVE  VerdictInv'
<1>1. CASE WriteVerdict \/ Ship \/ StopServing \/ UNCHANGED verdictVars
  <2>1. UNCHANGED <<rows, papers>>
    BY <1>1 DEF WriteVerdict, Ship, StopServing, verdictVars
  <2> QED
    BY <2>1 DEF VerdictInv, IsRow, SameEpisode
<1>2. CASE LoseRow
  <2>1. rows' \subseteq rows /\ UNCHANGED papers
    BY <1>2 DEF LoseRow
  <2> QED
    BY <2>1 DEF VerdictInv, IsRow, SameEpisode
<1>3. CASE SpoilRow
  <2>1. PICK r \in {s \in rows : s.flaw = "none"} :
          \/ \E flaw \in Flaws(r) : rows' = (rows \ {r}) \cup {[r EXCEPT !.flaw = flaw]}
          \/ rows' = (rows \ {r}) \cup {[r EXCEPT !.good = ~ @]} /\ r.control # "redacted"
    BY <1>3 DEF SpoilRow
  <2>2. UNCHANGED papers /\ r \in rows
    BY <1>3 DEF SpoilRow
  <2>3. PICK a \in Arms, c \in Cells :
          r.flaw \in Flaws(c) \cup {"none"} /\ r = Row(a, c, r.good, r.flaw)
    BY <2>2 DEF VerdictInv, IsRow
  <2>4. PICK good : \E old \in Flaws(c) \cup {"none"} : r = Row(a, c, good, old)
    BY <2>3
  <2>5. PICK old \in Flaws(c) \cup {"none"} : r = Row(a, c, good, old)
    BY <2>4
  <2>6. CASE \E flaw \in Flaws(r) : rows' = (rows \ {r}) \cup {[r EXCEPT !.flaw = flaw]}
    <3>1. PICK flaw \in Flaws(r) : rows' = (rows \ {r}) \cup {[r EXCEPT !.flaw = flaw]}
      BY <2>6
    <3>2. flaw \in Flaws(c)
      BY <2>5, <3>1, RowFields DEF Flaws
    <3>3. [r EXCEPT !.flaw = flaw] = Row(a, c, good, flaw)
      BY <2>5 DEF Row
    <3>4. IsRow([r EXCEPT !.flaw = flaw]) /\ SameEpisode([r EXCEPT !.flaw = flaw], r)
      BY <2>5, <3>2, <3>3, RowFields DEF IsRow, SameEpisode
    <3> QED
      BY <2>2, <3>1, <3>4, ReplacedRow
  <2>7. CASE rows' = (rows \ {r}) \cup {[r EXCEPT !.good = ~ @]}
    <3>1. [r EXCEPT !.good = ~ @] = Row(a, c, ~ good, old)
      BY <2>5 DEF Row
    <3>2. IsRow([r EXCEPT !.good = ~ @])
      BY <3>1, RowIsRow
    <3>3. SameEpisode([r EXCEPT !.good = ~ @], r)
      BY <2>5 DEF Row, SameEpisode
    <3> QED
      BY <2>2, <2>7, <3>2, <3>3, ReplacedRow
  <2> QED
    BY <2>1, <2>6, <2>7
<1>4. CASE SpoilPaper
  <2>1. PICK p \in DOMAIN papers, s \in {"absent", "spoilt"} :
          papers' = [papers EXCEPT ![p] = s]
    BY <1>4 DEF SpoilPaper
  <2>2. UNCHANGED rows /\ papers \in Papers
    BY <1>4 DEF SpoilPaper, VerdictInv
  <2>3. papers' \in Papers
    BY <2>1, <2>2 DEF Papers
  <2> QED
    BY <2>2, <2>3 DEF VerdictInv, IsRow, SameEpisode
<1> QED
  BY <1>1, <1>2, <1>3, <1>4 DEF VerdictNext

-----------------------------------------------------------------------------
(* What each veto excludes, once it says OK. *)
LEMMA VetoesPass ==
  ASSUME NEW arm \in Arms, Outcome = arm
  PROVE  /\ S8 = "OK" /\ S9 = "OK" /\ S10 = "OK" /\ S11 = "OK" /\ S12 = "OK" /\ S13 = "OK"
         /\ S14 = "OK" /\ S15 = "OK" /\ S16 = "OK" /\ S17 = "OK" /\ S18 = "OK" /\ S19 = "OK"
         /\ Floors(arm) = "PASS"
<1>1. \A bug, open : Judge(bug, open) \in {"BUG", "INCONCLUSIVE", "OK"}
  BY DEF Judge
<1>2. /\ S8 \in {"BUG", "INCONCLUSIVE", "OK"} /\ S9 \in {"BUG", "INCONCLUSIVE", "OK"}
      /\ S10 \in {"BUG", "INCONCLUSIVE", "OK"} /\ S11 \in {"BUG", "INCONCLUSIVE", "OK"}
      /\ S12 \in {"BUG", "INCONCLUSIVE", "OK"} /\ S13 \in {"BUG", "INCONCLUSIVE", "OK"}
      /\ S14 \in {"BUG", "INCONCLUSIVE", "OK"} /\ S15 \in {"BUG", "INCONCLUSIVE", "OK"}
      /\ S16 \in {"BUG", "INCONCLUSIVE", "OK"} /\ S17 \in {"BUG", "INCONCLUSIVE", "OK"}
      /\ S18 \in {"BUG", "INCONCLUSIVE", "OK"} /\ S19 \in {"BUG", "INCONCLUSIVE", "OK"}
  BY <1>1 DEF S8, S9, S10, S11, S12, S13, S14, S15, S16, S17, S18, S19
<1> DEFINE Rest == IF Floors("BP") = "PASS" THEN "BP"
                   ELSE IF "INCONCLUSIVE" \in {Floors("TP"), Floors("BP")}
                        THEN "NO VERDICT" ELSE "none"
<1>3. Rest \in {"BP", "NO VERDICT", "none"} /\ (Rest = "BP" => Floors("BP") = "PASS")
  OBVIOUS
<1>4. \/ "BUG" \in Vetoes /\ Outcome = "BUG / NO VERDICT"
      \/ "BUG" \notin Vetoes /\ "INCONCLUSIVE" \in Vetoes /\ Outcome = "NO VERDICT"
      \/ Vetoes = {"OK"} /\ Floors("TP") = "PASS" /\ Outcome = "TP"
      \/ "BUG" \notin Vetoes /\ "INCONCLUSIVE" \notin Vetoes /\ Outcome = Rest
  <2>1. CASE "BUG" \in Vetoes
    <3>1. Vetoes # {"OK"}
      BY <2>1
    <3> QED
      BY <2>1, <3>1, Zenon DEF Outcome
  <2>2. CASE "BUG" \notin Vetoes /\ "INCONCLUSIVE" \in Vetoes
    <3>1. Vetoes # {"OK"}
      BY <2>2
    <3> QED
      BY <2>2, <3>1, Zenon DEF Outcome
  <2>3. CASE Vetoes = {"OK"} /\ Floors("TP") = "PASS" /\ ER4 = "PASS" /\ ER2 = "PASS"
    <3>1. "BUG" \notin Vetoes /\ "INCONCLUSIVE" \notin Vetoes
      BY <2>3
    <3>2. Outcome = "TP"
      BY <2>3, <3>1, Zenon DEF Outcome
    <3> QED
      BY <2>3, <3>2, Zenon
  <2>4. CASE /\ "BUG" \notin Vetoes /\ "INCONCLUSIVE" \notin Vetoes
             /\ ~ (Vetoes = {"OK"} /\ Floors("TP") = "PASS" /\ ER4 = "PASS" /\ ER2 = "PASS")
    <3>1. Outcome = Rest
      BY <2>4, Zenon DEF Outcome
    <3> QED
      BY <2>4, <3>1, Zenon
  <2> QED
    BY <2>1, <2>2, <2>3, <2>4
<1> HIDE DEF Rest
<1>5. "BUG" \notin Vetoes /\ "INCONCLUSIVE" \notin Vetoes
  BY <1>3, <1>4 DEF Arms
<1>6. \A v \in Vetoes : v = "OK"
  BY <1>2, <1>5 DEF Vetoes
<1>7. Floors(arm) = "PASS"
  BY <1>5, <1>3, <1>4 DEF Arms
<1> QED
  BY <1>6, <1>7 DEF Vetoes

(* S15: every core task has a row, S9, S10, S16, S18: the documents stand. *)
LEMMA EvidenceIsComplete ==
  ASSUME VerdictInv, NEW arm \in Arms, Outcome = arm
  PROVE  /\ papers = Sound
         /\ \A a \in Arms, cond \in Conditions : TasksOf(CoreRows(a, cond)) = CoreTasks
<1>1. papers.specs = "ok" /\ papers.splits = "ok"
  BY VetoesPass DEF S9, S10, Judge, VerdictInv, Papers
<1>2. papers.locks = "ok" /\ papers.history = "ok" /\ papers.disposition = "ok"
  BY VetoesPass DEF S16, S18, DispositionFails, Judge, VerdictInv, Papers
<1>3. papers = Sound
  BY <1>1, <1>2 DEF VerdictInv, Papers, Sound
<1>4. ASSUME NEW a \in Arms, NEW cond \in Conditions
      PROVE  TasksOf(CoreRows(a, cond)) = CoreTasks
  <2>1. CoreTasks \subseteq TasksOf(EpisodesOf(a, cond, "none"))
    BY VetoesPass DEF S15, Judge
  <2> QED
    BY <2>1 DEF CoreRows, TasksOf
<1> QED
  BY <1>3, <1>4

(* The floor holds over the tasks: no task is counted twice.               *)
LEMMA OneRowPerTask ==
  ASSUME VerdictInv, NEW arm \in Arms, NEW cond \in Conditions,
         NEW R \in SUBSET CoreRows(arm, cond)
  PROVE  IsFiniteSet(R) /\ Cardinality(TasksOf(R)) = Cardinality(R)
<1> DEFINE task == [r \in R |-> r.task]
<1>1. \A r, s \in R : r.task = s.task => r = s
  BY DEF VerdictInv, SameEpisode, CoreRows, EpisodesOf
<1>2. task \in Injection(R, TasksOf(R)) /\ task \in Surjection(R, TasksOf(R))
  BY <1>1 DEF TasksOf, Injection, Surjection, IsInjective
<1>3. TasksOf(R) \subseteq CoreTasks
  BY DEF TasksOf, CoreRows
<1>4. IsFiniteSet(TasksOf(R))
  BY <1>3, FS_Subset, VerdictAssumption DEF VerdictAssumption
<1> HIDE DEF task
<1> QED
  BY <1>2, <1>4, FS_Injection

LEMMA FloorOverTasks ==
  ASSUME VerdictInv, NEW arm \in Arms, Outcome = arm,
         NEW cond \in Conditions
  PROVE  Cardinality(Good(arm, cond)) * 100 >= FloorOverall * Cardinality(CoreTasks)
<1> DEFINE core == CoreRows(arm, cond)
           good == {r \in core : r.good}
<1>1. TasksOf(core) = CoreTasks
  BY EvidenceIsComplete
<1>2. Cardinality(core) = Cardinality(CoreTasks)
  BY <1>1, OneRowPerTask
<1>3. TasksOf(good) = Good(arm, cond)
  BY DEF Good, TasksOf
<1>4. Cardinality(good) = Cardinality(Good(arm, cond))
  BY <1>3, OneRowPerTask
<1>5. Reaches(core, FloorOverall)
  BY VetoesPass DEF Floors, Conditions
<1> QED
  BY <1>2, <1>4, <1>5 DEF Reaches, Passed

-----------------------------------------------------------------------------
(* No flaw is left unseen: each kind is found by the veto it is for.        *)
LEMMA NoFlawIsSeen ==
  ASSUME VerdictInv, NEW arm \in Arms, Outcome = arm, NEW r \in rows
  PROVE  ~ Seen(r)
<1>1. PICK a \in Arms, c \in Cells :
        r.flaw \in Flaws(c) \cup {"none"} /\ r = Row(a, c, r.good, r.flaw)
  BY DEF VerdictInv, IsRow
<1>2. /\ r.arm = a /\ r.condition = c.condition /\ r.control = c.control
      /\ r.flaw \in Flaws(c) \cup {"none"}
  BY <1>1, RowFields
<1>3. r.flaw \notin {"receipt", "misscored", "early", "unplaced", "othercard", "nocard"}
  <2>1. r.flaw # "receipt"
    BY VetoesPass DEF S13, Flawed, Judge
  <2>2. r.flaw # "misscored"
    BY VetoesPass DEF S17, Flawed, Judge
  <2>3. r.flaw \notin {"early", "unplaced"}
    BY VetoesPass DEF S18, Flawed, Judge
  <2>4. r.flaw \notin {"othercard", "nocard"}
    BY VetoesPass DEF S19, Flawed, Judge
  <2> QED
    BY <2>1, <2>2, <2>3, <2>4
<1>4. CASE r.flaw = "foreign"
  <2>1. ~ Flawed(First(EpisodesOf(a, c.condition, c.control)), {"foreign"})
    BY VetoesPass DEF S16, Misattributed, Judge
  <2> QED
    BY <1>2, <1>4, <2>1 DEF Seen, Flawed
<1>5. CASE r.flaw = "unreplayed"
  <2>1. ~ Flawed(Replayable, {"unreplayed"})
    BY VetoesPass DEF S17, Judge
  <2> QED
    BY <1>5, <2>1 DEF Seen, Flawed
<1>6. CASE r.flaw = "unpaired"
  <2>1. c.control = "none" /\ c.condition \in Conditions
    BY <1>2, <1>6, CellFields DEF Flaws
  <2>2. r \in EpisodesOf(a, c.condition, "none")
    BY <1>2, <2>1 DEF EpisodesOf
  <2>3. a \in {"BP", "TP"}
    BY DEF Arms
  <2> QED
    BY <1>6, <2>1, <2>2, VetoesPass DEF S8, Flawed, Judge
<1>7. r.flaw # "misfired"
  <2> SUFFICES ASSUME r.flaw = "misfired" PROVE FALSE
    OBVIOUS
  <2>1. c.condition = "faulted"
    BY <1>2 DEF Flaws
  <2>2. c.control = "none"
    BY <2>1, CellFields
  <2>3. r \in FaultedRows
    BY <1>2, <2>1, <2>2 DEF FaultedRows
  <2> QED
    BY <2>3, VetoesPass DEF S12, Flawed, Judge
<1>8. r.flaw \notin {"leak", "idle"}
  <2> SUFFICES ASSUME r.flaw \in {"leak", "idle"} PROVE FALSE
    OBVIOUS
  <2>1. r \in Redacted
    BY <1>2 DEF Flaws, Redacted
  <2> QED
    BY <2>1, VetoesPass DEF S11, Flawed, Judge
<1>9. r.flaw # "untracked"
  <2> SUFFICES ASSUME r.flaw = "untracked" PROVE FALSE
    OBVIOUS
  <2>1. r \in PermutedRows
    BY <1>2 DEF Flaws, PermutedRows
  <2> QED
    BY <2>1, VetoesPass DEF S14, Flawed, Judge
<1> QED
  BY <1>2, <1>3, <1>4, <1>5, <1>6, <1>7, <1>8, <1>9 DEF Seen, Flaws

LEMMA WinnerIsVerified ==
  ASSUME VerdictInv, NEW arm \in Arms, Outcome = arm
  PROVE  Verified(arm)
  BY EvidenceIsComplete, FloorOverTasks, NoFlawIsSeen DEF Verified

(* For any tasks, families, thresholds and losses: whatever the gates       *)
(* between the arms say, the verdict file comes to name an arm only when    *)
(* every core task has a row in both arms and conditions, the arm's floor   *)
(* holds over those tasks, no document is missing and no row has a flaw a   *)
(* check can see (agentic_verdict).                                         *)
THEOREM NothingIsNamedUnverified ==
  VerdictSpec => NothingNamedUnverified
<1>1. VerdictInit => VerdictInv
  BY VerdictInvInit
<1>2. VerdictInv /\ [VerdictNext]_verdictVars => VerdictInv'
  BY VerdictStepKeeps
<1>3. VerdictInv /\ [VerdictNext]_verdictVars
        => [verdict' \in Arms /\ verdict' # verdict => Verified(verdict')]_verdictVars
  <2> SUFFICES ASSUME VerdictInv, VerdictNext, verdict' \in Arms, verdict' # verdict
               PROVE  Verified(verdict')
    OBVIOUS
  <2>1. verdict' = Outcome
    BY DEF VerdictNext, LoseRow, SpoilRow, SpoilPaper, WriteVerdict, Ship, StopServing, Arms
  <2> QED
    BY <2>1, WinnerIsVerified
<1> QED
  BY <1>1, <1>2, <1>3, PTL DEF VerdictSpec, NothingNamedUnverified
=============================================================================
