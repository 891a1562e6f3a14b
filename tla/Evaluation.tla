---------------------------- MODULE Evaluation ----------------------------
(***************************************************************************)
(* The paired evaluation: the eval stage of the chain driver, the server   *)
(* it starts, and the evaluator it runs over each block of each manifest   *)
(* until the block has no untraced task left.                              *)
(*                                                                         *)
(* A server attests the card and the configuration it came up under; the   *)
(* evaluator copies that attestation into every row and refuses to append  *)
(* to a file another card, configuration or environment contract wrote.    *)
(* Worker threads run the episodes, the main thread writes the rows.  A    *)
(* row that is not wholly written leaves a tail without an end of line,    *)
(* and the next row is glued to it: both are lost to every reader.         *)
(***************************************************************************)
EXTENDS EvalTable, Nothing

CONSTANTS
  Units,            \* the schedule of the stage: the rows of EvalTable
  Withheld,         \* tasks the absent-information control cannot redact
  Concurrency,      \* episodes in flight in one evaluator
  Cards, Configs, Contracts,
  MaxMishaps,       \* bound on kills, dead servers, lost calls and refusals
  MaxEdits          \* bound on changes of card, configuration or contract

(* A schedule has every mandatory manifest in every paired arm, and no      *)
(* manifest lists a task twice.                                            *)
EvaluationAssumption ==
  /\ BlockTasks \in Nat \ {0} /\ Concurrency \in Nat \ {0}
  /\ MaxMishaps \in Nat /\ MaxEdits \in Nat
  /\ None \notin Cards
  /\ \A m \in SpecSet : IsInjective(m.tasks)
  /\ Units # <<>>
  /\ Units \in Seq([arm : ToSet(MandatoryArms) \cup ToSet(DescriptiveArms),
                   manifest : SpecSet, block : Nat])
  /\ \A p \in MandatoryPairs :
       \E i \in DOMAIN Units : Units[i].arm = p[1] /\ Units[i].manifest = p[2]
ASSUME EvaluationAssumption

VARIABLES
  card, config, contract,  \* what the host, the yaml and the checkout say now
  binding,   \* hardware.json: the card this run is bound to
  server,    \* the serving process and its manifest
  trace,     \* per file, its readable rows and whether its tail is torn
  driver,    \* where the eval stage stands
  unit,      \* the unit of the schedule it has reached
  shard,     \* the evaluator process, if one runs
  mishaps, edits

world == <<card, config, contract>>
bounds == <<mishaps, edits>>
evalVars == <<world, binding, server, trace, driver, unit, shard, bounds>>

-----------------------------------------------------------------------------
(* apply_control: a spec whose value cannot be withheld is dropped.        *)
Asked(m) ==
  {t \in ToSet(m.tasks) : m.control = "redacted" => t \notin Withheld}

(* The place of a task among the specs that are left.                      *)
Rank(m, t) == Cardinality({s \in Asked(m) : Position(m, s) < Position(m, t)})

(* Manifests under one condition and control share the trace file.         *)
FileOf(arm, m) == <<arm, m.condition, m.control>>
Files == {FileOf(Units[i].arm, Units[i].manifest) : i \in DOMAIN Units}

(* What ran an episode: an engine that answered, or one whose failure is    *)
(* never an episode's outcome.                                             *)
Engines == {"live", "dead"}

Tasks == UNION {ToSet(m.tasks) : m \in SpecSet}
Rows  == [task : Tasks, card : Cards, config : Configs, contract : Contracts,
          engine : Engines]

EvalInit ==
  /\ card \in Cards /\ config \in Configs /\ contract \in Contracts
  /\ binding = None /\ server = None
  /\ trace = [f \in Files |-> [rows |-> <<>>, torn |-> FALSE]]
  /\ driver = "idle" /\ unit = 1 /\ shard = None
  /\ mishaps = 0 /\ edits = 0

-----------------------------------------------------------------------------
(* What the evaluator reads back: rows of this contract are done, and it   *)
(* appends only where every row has its own card, configuration, contract. *)
Rowset(f)    == ToSet(trace[f].rows)
Done(f)      == {r.task : r \in {s \in Rowset(f) : s.contract = contract}}
SameFingerprintByCard(f, s) ==  \* Defective variant: the configuration may differ.
  \A r \in Rowset(f) : r.card = s.card
SameFingerprint(f, s) ==
  \A r \in Rowset(f) : r.card = s.card /\ r.config = s.config
NoStaleRows(f) == \A r \in Rowset(f) : r.contract = contract

(* require_runtime_manifest: the attested process lives, on the bound card *)
(* and under the configuration as it is now.                               *)
Serving  == server # None /\ server.alive
Attested == Serving /\ server.card = binding /\ server.config = config

(* require_producer_attestation: the evaluator also wants it countersigned. *)
Countersigned == Attested /\ server.ready

Current == Units[unit]
TraceFile == FileOf(Current.arm, Current.manifest)

Block(u) ==
  {t \in Asked(u.manifest) : Rank(u.manifest, t) % Blocks(u.manifest) = u.block}

TodoAll(u, f) == Block(u)  \* Defective variant: rows on file are not looked up.
Todo(u, f) == Block(u) \ Done(f)

(* die: the exit trap takes the server down.                               *)
Die == driver' = "idle" /\ shard' = None /\ server' = None /\ unit' = 1

-----------------------------------------------------------------------------
(* lock_hardware: the run binds the first card it meets and keeps to it.    *)
Bindable(c) == binding \in {None, c}

(* require_gpu and pin_gpu: nothing else holds the card.                   *)
BeginEval ==
  /\ driver = "idle" /\ ~ Serving
  /\ Bindable(card)
  /\ binding' = card /\ server' = None /\ driver' = "serve"
  /\ UNCHANGED <<world, trace, unit, shard, bounds>>

(* What a server attests, written in one piece; an edited manifest does    *)
(* not hash to its own digest.                                             *)
Attestation == [card |-> card, config |-> config, alive |-> TRUE, ready |-> FALSE]

(* serve.sh: the manifest is captured before the engine takes the pid.     *)
Capture ==
  /\ driver = "serve" /\ server = None
  /\ server' = Attestation
  /\ UNCHANGED <<world, binding, trace, driver, unit, shard, bounds>>

(* The server answers and the driver countersigns its manifest, or dies.   *)
MarkReady ==
  /\ driver = "serve" /\ server # None /\ Attested
  /\ server' = [server EXCEPT !.ready = TRUE] /\ driver' = "arm"
  /\ UNCHANGED <<world, binding, trace, unit, shard, bounds>>

ServeFails ==
  /\ driver = "serve" /\ server # None /\ ~ Attested
  /\ Die
  /\ UNCHANGED <<world, binding, trace, bounds>>

(* run_shard: every refusal comes before the file is opened.               *)
StartShard ==
  /\ driver = "arm" /\ shard = None
  /\ IF /\ Countersigned
        /\ SameFingerprint(TraceFile, server) /\ NoStaleRows(TraceFile)
     THEN LET todo == Todo(Current, TraceFile) IN
          /\ shard' = [todo |-> todo, pending |-> Cardinality(todo), written |-> 0,
                       inflight |-> {}, results |-> {},
                       failed |-> FALSE, shut |-> FALSE,
                       card |-> server.card, config |-> server.config,
                       contract |-> contract]
          /\ UNCHANGED <<driver, server, unit>>
     ELSE Die
  /\ UNCHANGED <<world, binding, trace, bounds>>

(* ledger_guard: the rest of the stage would cross the ceiling.            *)
LedgerRefuses ==
  /\ driver = "arm" /\ shard = None /\ mishaps < MaxMishaps
  /\ mishaps' = mishaps + 1 /\ Die
  /\ UNCHANGED <<world, binding, trace, edits>>

-----------------------------------------------------------------------------
(* The evaluator at work. *)
ShardStep == UNCHANGED <<world, binding, server, driver, unit, edits>>

Busy == Cardinality(shard.inflight) + Cardinality(shard.results)

Launch ==
  /\ shard # None /\ ~ shard.shut /\ ~ shard.failed
  /\ Busy < Concurrency
  /\ \E t \in shard.todo :
       /\ \A s \in shard.todo : Rank(Current.manifest, t) <= Rank(Current.manifest, s)
       /\ shard' = [shard EXCEPT !.todo = @ \ {t}, !.inflight = @ \cup {t}]
  /\ UNCHANGED <<trace, mishaps>> /\ ShardStep

Result(t, engine) ==
  [task |-> t, card |-> shard.card, config |-> shard.config,
   contract |-> shard.contract, engine |-> engine]

Return(t, engine) ==
  shard' = [shard EXCEPT !.inflight = @ \ {t}, !.results = @ \cup {Result(t, engine)}]

(* An episode runs to its verdict against a live engine ...                *)
Answer ==
  /\ shard # None /\ Serving
  /\ \E t \in shard.inflight : Return(t, "live")
  /\ UNCHANGED <<trace, mishaps>> /\ ShardStep

(* ... or a call of it fails: nothing answers, or what answers is no        *)
(* completion (an error status, a body that does not parse).               *)
TransportFails ==
  /\ shard # None
  /\ \E t \in shard.inflight : Return(t, "dead")
  /\ \/ ~ Serving /\ UNCHANGED mishaps
     \/ Serving /\ mishaps < MaxMishaps /\ mishaps' = mishaps + 1
  /\ UNCHANGED trace /\ ShardStep

(* No row for an episode whose engine failed.                              *)
Scored(r) == r.engine = "live"

(* What an append leaves in a file: after a torn tail, the row is lost.    *)
Appended(file, r) ==
  IF file.torn THEN [file EXCEPT !.torn = FALSE]
               ELSE [file EXCEPT !.rows = Append(@, r)]

Write ==
  /\ shard # None
  /\ \E r \in shard.results :
       IF Scored(r)
       THEN /\ trace' = [trace EXCEPT ![TraceFile] = Appended(@, r)]
            /\ shard' = [shard EXCEPT !.results = @ \ {r}, !.written = @ + 1]
       ELSE /\ shard' = [shard EXCEPT !.results = @ \ {r}, !.failed = TRUE]
            /\ UNCHANGED trace
  /\ UNCHANGED mishaps /\ ShardStep

(* The launch window closes, never before a first launch.                  *)
CloseWindow ==
  /\ shard # None /\ ~ shard.shut /\ shard.todo # {}
  /\ shard.written > 0 \/ Busy > 0
  /\ shard' = [shard EXCEPT !.shut = TRUE]
  /\ UNCHANGED <<trace, mishaps>> /\ ShardStep

(* What is in flight is drained; then the shard aborts, or reports itself  *)
(* complete, or the driver passes over it again.                           *)
Drained == /\ shard.inflight = {} /\ shard.results = {}
           /\ shard.todo = {} \/ shard.shut \/ shard.failed
ShardComplete == shard.pending - shard.written <= 0

AbortShard == shard.failed /\ Die

FinishShard ==
  /\ ~ shard.failed /\ shard' = None
  /\ \/ ~ ShardComplete /\ UNCHANGED <<driver, unit>>
     \/ ShardComplete /\ unit = Len(Units) /\ driver' = "census" /\ UNCHANGED unit
     \/ ShardComplete /\ unit < Len(Units) /\ driver' = "next" /\ unit' = unit + 1
  /\ UNCHANGED server

EndShard ==
  /\ shard # None /\ Drained
  /\ AbortShard \/ FinishShard
  /\ UNCHANGED <<world, binding, trace, bounds>>

(* rotate_server_if_capped: between units the server may be restarted.     *)
NextUnit ==
  /\ driver = "next"
  /\ \/ driver' = "arm" /\ UNCHANGED server
     \/ driver' = "serve" /\ server' = None
  /\ UNCHANGED <<world, binding, trace, unit, shard, bounds>>

(* verify_eval_census: rows are attributed to manifests by task.           *)
ExpectedUnredacted(m) == ToSet(m.tasks)  \* Defective variant: before the control.
Expected(m)     == Asked(m)
MissingFile(arm, m) ==  \* Defective variant: any row makes a manifest complete.
  IF Rowset(FileOf(arm, m)) = {} THEN Expected(m) ELSE {}
Missing(arm, m) == Expected(m) \ Done(FileOf(arm, m))

Census ==
  /\ driver = "census"
  /\ IF \A p \in MandatoryPairs : Missing(p[1], p[2]) = {}
     THEN driver' = "done" /\ server' = None /\ UNCHANGED <<unit, shard>>
     ELSE Die
  /\ UNCHANGED <<world, binding, trace, bounds>>

-----------------------------------------------------------------------------
(* The driver and the evaluator are killed.  A trapped signal takes the    *)
(* server along, SIGKILL does not; a row may be half written.              *)
Kill ==
  /\ driver \notin {"idle", "done"} /\ mishaps < MaxMishaps
  /\ mishaps' = mishaps + 1
  /\ driver' = "idle" /\ shard' = None /\ unit' = 1
  /\ server' \in {server, None}
  /\ \/ UNCHANGED trace
     \/ /\ shard # None /\ \E r \in shard.results : Scored(r)
        /\ trace' = [trace EXCEPT ![TraceFile].torn = TRUE]
  /\ UNCHANGED <<world, binding, edits>>

ServerDies ==
  /\ Serving /\ mishaps < MaxMishaps
  /\ mishaps' = mishaps + 1
  /\ server' = [server EXCEPT !.alive = FALSE]
  /\ UNCHANGED <<world, binding, trace, driver, unit, shard, edits>>

(* Somebody ends the server a killed driver left behind.                   *)
OrphanEnds ==
  /\ driver = "idle" /\ server # None
  /\ server' = None
  /\ UNCHANGED <<world, binding, trace, driver, unit, shard, bounds>>

(* The operator edits the configuration or the environment, or, with the   *)
(* machine down, puts another card in the slot.                            *)
Edit ==
  /\ driver # "done" /\ edits < MaxEdits /\ edits' = edits + 1
  /\ \/ config' \in Configs \ {config} /\ UNCHANGED <<card, contract>>
     \/ contract' \in Contracts \ {contract} /\ UNCHANGED <<card, config>>
     \/ /\ driver = "idle" /\ server = None
        /\ card' \in Cards \ {card} /\ UNCHANGED <<config, contract>>
  /\ UNCHANGED <<binding, server, trace, driver, unit, shard, mishaps>>

-----------------------------------------------------------------------------
Work == \/ Capture \/ MarkReady \/ ServeFails \/ StartShard
        \/ Launch \/ Answer \/ TransportFails \/ Write \/ EndShard
        \/ NextUnit \/ Census

EvalNext == \/ BeginEval \/ Work \/ LedgerRefuses \/ CloseWindow
            \/ Kill \/ ServerDies \/ OrphanEnds \/ Edit

EvalSpec == EvalInit /\ [][EvalNext]_evalVars

(* A running stage goes on, a dead server is cleared away, and the stage   *)
(* is invoked again until it is done.                                      *)
Fairness == WF_evalVars(Work) /\ WF_evalVars(OrphanEnds) /\ WF_evalVars(BeginEval)
Resumed  == EvalSpec /\ Fairness

-----------------------------------------------------------------------------
(* Every row of a trace file was produced on one card, under one           *)
(* configuration and one environment contract, whatever was swapped,       *)
(* edited, killed or rotated between two of its rows                       *)
(* (require_same_fingerprint, refuse_stale_environment_rows).              *)
OneApparatus ==
  \A f \in Files : \A r, s \in Rowset(f) :
    r.card = s.card /\ r.config = s.config /\ r.contract = s.contract

(* The stage keeps the promise of PairedCensus: no kill, lost engine or    *)
(* glued row loses an episode on file, and it is done only when every task *)
(* of every mandatory manifest has, in both arms, a row of an engine that  *)
(* answered, although a glued row counts as written and manifests share    *)
(* their file (run_shard, unit_census, require_mandatory_census).          *)
Answered == UNION {{<<f, r.task>> : r \in {s \in Rowset(f) : s.engine = "live"}} : f \in Files}
Episodes == Files \X Tasks
Required == UNION {{FileOf(p[1], p[2])} \X Asked(p[2]) : p \in MandatoryPairs}
Promise  == INSTANCE PairedCensus WITH traced <- Answered, declared <- (driver = "done")
CensusPromise == Promise!Spec

(* No resume runs an episode again whose row can be read: no task has two  *)
(* rows in a file (done_task_ids).                                         *)
EachTaskOnce ==
  \A f \in Files : \A i, j \in DOMAIN trace[f].rows :
    trace[f].rows[i].task = trace[f].rows[j].task => i = j

(* While the host and the checkout are those that produced the rows on     *)
(* file, re-invoking the stage completes it, whatever was killed before.   *)
Admissible ==
  /\ Bindable(card)
  /\ \A f \in Files : SameFingerprint(f, [card |-> card, config |-> config])
                      /\ NoStaleRows(f)
EvaluationCompletes == <>[]Admissible => <>(driver = "done")
=============================================================================
