# TLA+ specification of qwen35-agentic-lab

This directory models the parts of the lab that decide what a result may claim: the
stateful fulfillment episode with its injected faults and its verifier, the scripted
oracle that certifies the tasks, the generator that builds them, the training corpus with the receipts every later claim leans
on, the GPU accounting that holds a multi-day run under a hard ceiling, the commit protocol
that keeps the held-out tasks unseen until everything is locked, the paired evaluation, the
verdict upon it, and the tournament and publisher beside them. TLC checks the models on
small instances; TLAPS proves the main safety properties for every value of the constants.

## 1. The system

The lab runs a registered study: generate a suite of tool-use tasks, pick a prompt in a
tournament, sample and filter training trajectories, train an adapter, lock everything,
reveal the held-out seed, evaluate, and compute a verdict. Python modules under
`src/agentlab` do the work; `scripts/run_multifaceted_chain.sh` drives the stages, one
process at a time, on one GPU; every stage resumes from the files an earlier run left.

| Component | State it keeps | Operations | What is hard | What makes it correct |
|---|---|---|---|---|
| Suite generator (`suite/generate.py`, `suite/envs/*`, `validate_suite.py`) | splits, cells, fault plans, the permutation control | build by cell, place faults, derange, check counts, validate | tables that the grammars must be able to satisfy | a build at the registered sizes never refuses and is accepted |
| Warehouse (`suite/envs/fulfillment.py`) | ledger, lots, reservations, status | `query`, `update` (reserve, cancel, finalize) | any order of calls, replays | money and units are conserved, a complete order is final |
| Episode runtime (`suite/runtime.py`) | decision clock, completed nodes, revealed tokens, events | `begin_decision`, `dispatch` | batched and out-of-order calls, lost responses | one credit per decision in plan order, only what the oracle would do is credited |
| Fault engine (`suite/faults.py`, placed by `suite/generate.py`) | fired, blocked_until per node | `directive` | retry in the same decision, loss after the effect | each fault fires once and is always recoverable |
| Verifier (`suite/verify.py`) | none (folds over events) | `verify_episode` | agreeing with the runtime without reading its credits | recovery is earned, completion is recomputed, state equals the oracle's |
| Oracle (`run_oracle`) | node, attempt, pending token | one loop | every fault, limited attempts | certifies every schedulable episode within the budgets |
| GPU ledger and journal (`suite/configio.py`) | two append-only files | `ledger_append`, `journal_open/heartbeat/close`, `reconcile_open_sessions`, `ledger_guard` | kill, power loss, orphans, two files | never charge less or more than the card was observed busy, never start over the ceiling |
| Chain driver (`run_multifaceted_chain.sh`) | journal id, server timer, pids | stages, `session_begin/end`, traps | signals, rotation, resumption | each interval charged once |
| Rejection sampling (`multidistill.py`) | shard rows and receipts; corpus, its receipt or a failure | `run`, `finalize` | crash between files, re-rolled and re-planned shards | a receipt implies the complete rows of the current plan; a corpus is certified or absent |
| View corpus (`suite/datasets.py`) | metadata, report, rows | `write_view_corpus` | three files, a driver that tests for two | a report describes the rows beside it |
| Adapter (`sft.py`) | adapter tree, training manifest | `main`, `require_training_manifest` | killed between the two | a locked adapter is the attested one and descends from a certified corpus |
| Rollouts and their readings (`multidistill.py`, `suite/evaluate.py`, `provenance.py`) | messages, events, why the run ended | one turn at a time; acceptance, view selection, trace certification | two runners, several readers of one episode, each with its own parser | a taught recovery was earned; the verifier and the certification of the trace agree |
| View cap (`suite/datasets.py`) | rows per stratum | `build_views`, `plan_view_cap`, `require_expected_rows` | rounding, long trajectories at the ceiling | under the ceiling, no stratum lost, no more cut than needed |
| Evaluator (`suite/evaluate.py`, `stage_eval`) | trace rows, server and its manifest, hardware binding | `run_shard`, `unit_census`, server start and rotation | dead engine, kills, torn rows, a swapped card, resume | one apparatus per file, one row per task, census complete before the stage is done |
| Locks and release (`agentic_locks.py`, `verify_heldout_release.py`) | git history, locks, reveal, held-out bytes | `finalize-prereg`, `lock-*`, `reveal`, held-out generation, `seal`, gates | commits out of order or rewritten, stale bytes | one seed, drawn from a published lock; evaluation only on its bytes |
| Tournament (`prompt_control.py`) | one file per round and candidate, the frozen winner | `run`, `finalize` | resume by file existence, runs after the freeze | the frozen winner is the one its rows give |
| Publisher (`hf_artifacts.py`) | remote commits, local index | `upload` | producers that write meanwhile, lost answers, kills | the index names bytes its pinned commit holds |
| Analysis and verdict (`analyze.py`, `stage_ship`) | trace rows, documents, verdict file | twelve vetoes, floors, gates, truth table, ship | missing and spoilt rows and documents | an arm is named only over complete and unfaulted evidence |
| Manifests and provenance (`configio.py`, `env.py`, `provenance.py`) | manifests, receipts | capture, countersign, certify | stale or foreign attestations | rows copy the attestation of the engine that produced them |

Interactions: the agent calls the runtime, the runtime consults the fault engine for a
credit-eligible call and then executes it on the warehouse; the verifier reads the
recorded events and the final warehouse. The driver opens a journal session, runs a stage
module (which calls `ledger_guard`, and through it reconciles dead sessions, and appends
its own receipts to the ledger), and closes the session; a background process per session
appends heartbeats. The eval stage starts a server, which attests its card and
configuration in a manifest; the evaluator copies that attestation into every row, and the
verdict reads the rows, the locks and the git history. The publisher runs beside all of
them and meets them in files only.

`PROJECT.json` lists every component, modelled or not, and the hazards with the line each
one bites at.

## 2. Modules

| Module | Models | Checked by | Proofs |
|---|---|---|---|
| `Warehouse` | the order: effects and replies of every call | `MCEpisode` | `EpisodeProofs` |
| `Episode` (extends `Warehouse`) | runtime, fault engine, verifier, free agent | `MCEpisode` (3 configurations) | `EpisodeProofs` |
| `Oracle` (extends `Episode`) | `run_oracle` as a restriction of the agent | `MCOracle` | `EpisodeProofs` (budget); certification by TLC (liveness) |
| `Suite` | the generator's splits, grammars, fault plans, controls; the validator's counts | `MCOracle` | `EpisodeProofs` (the permutation control); the rest by TLC |
| `Corpus` | shards, accepted corpus, views, adapter, and the driver's tests for "done" | `MCCorpus` (2 configurations) | `CorpusProofs` |
| `Lineage` | what `Corpus` promises, without files or processes | as `LineagePromise` in `MCCorpus` | `CorpusKeepsItsPromise` in `CorpusProofs` |
| `Rollout` | one episode under either runner; verifier, trace certification, acceptance, recovery views | `MCCorpus` | `RolloutProofs` |
| `ViewCap` | the cap and the range of the view corpus | `MCCorpus` | `ViewCapProofs` |
| `GpuLedger` | ledger, journal, driver, stage child, heartbeats | 3 configurations | `GpuLedgerProofs` |
| `GpuLedgerPower` (extends `GpuLedger`) | a loss of power before the ledger's last rows are on disk | 1 configuration (a violation) | none |
| `Release` | the commits P, L and R, the held-out bytes, both gates and S18 | `MCStudy` | `ReleaseProofs` |
| `Blinding` | what `Release` promises, without git and files | as `Blinded` in `MCStudy` | `ReleaseBlinds` in `ReleaseProofs` |
| `EvalTable` | the driver's schedule of the paired evaluation | through `Evaluation` | |
| `Evaluation` (extends `EvalTable`) | eval stage, server, evaluator, census | `MCStudy` | `EvaluationProofs` |
| `PairedCensus` | what `Evaluation` promises, without processes | as `CensusPromise` in `MCStudy` | `StageKeepsThePromise` in `EvaluationProofs` |
| `Tournament` | both rounds, resume, force, freeze | `MCStudy` | `EvaluationProofs` |
| `Publisher` | digests, batches, index, settle window | `MCStudy` | `PublisherProofs` |
| `Verdict` | vetoes, floors, winner, ship | `MCStudy` (2 configurations) | `EvaluationProofs` |
| `Nothing` | the value that stands for none, shared by the modules of `MCStudy` | | |

`MCCorpus`, `MCStudy` and `MCOracle` each extend several components that meet in files only.
Each takes what it reads of the others as an input of its own, so nothing is gained from
interleaving them: a behaviour follows one component, chosen by `focus` in its first state,
while the others keep their initial states. The modules that are checked together keep their
names apart (`RolloutInit`, `VerdictNext`, `EvalInv`, ...), so the properties that the runs
check are the very definitions that the theorems name. Each property speaks of the behaviours of its component;
fairness is stated for the component whose liveness is checked.

Operators whose comment begins "Defective variant" are not part of any specification:
each is a plausible bug of the definition below it, used to make sure that the property
named in `PROJECT.json` really depends on that code.

### Warehouse

`env` is `WarehouseState`: status, ledger, inventory, reservations. The generator draws a
fresh lot for each line, so inventory is indexed by line; the distractor lots are never
drawn from. A mutating call is split in what it needs (`Reserves`, `Cancels`,
`Finalizes`), what it does (`Reserved`, `Released`, `Completed`) and what it answers
(`ReserveReply`, ...). A replayed reserve answers as the first did and changes nothing. A
payload is reduced to what is compared with it or follows from it: `ok`, a word for its
content, and the capability tokens it carries. `Owed` is the sum of prices over a set of
lines, a constant characterised by an assumption so that the proofs need no recursion.
`WarehouseSpec` is also the abstract specification that `Episode` implements.

The warehouse's properties are checked in `MCEpisode`, where an unconstrained agent makes the
calls: two lines and a budget that just fits, so that a price lost by a cancel makes a later
reserve fail. For every order they are theorems.

### Episode

Variables: the runtime's `decision` (decision_id), `completed`, `revealed`; the fault
engine's `plan` and `fired` (`blocked_until` is `fired + RetryAfter`); and the running
values of the verifier's folds, `unsafe`, `recomputed`, `report`. The verifier reads the
events only after the episode; carrying its folds lets every prefix of an episode be
judged, and the last one is the verdict.

One action per path through `dispatch`: no directive (`DispatchClean`), a fault that keeps
the call from executing or withholds a read (`DispatchSpoiled`), a rate limit in force
(`DispatchLimited`), an ambiguous fault on a reserve (`DispatchAmbiguous`), and
`BeginDecision`. The agent is any agent: it makes any call whose capability token it has
seen, with exact or other arguments, echoing any recovery token that has been minted for
it (`Echoable`: the token of a fault that has fired). Tokens are 128-bit random or keyed
strings, so it never guesses one.

What a call asks for (`Requests`) and how it is spelt (`Spellings`) are two things. The
matcher, the tools and the knowledge base ignore the case of keys, units, resources and
actions, and arguments they do not look at (`runtime.py:261-295`, `kb.py:36-45`), so every
spelling reaches the same node and gets the same answer. The verifier identifies a call by
the digest of its arguments, which normalises numbers and blanks only
(`schema.py:149-164`, `188-209`): two calls are the same when their whole records are,
spelling included. Calculator expressions that differ by more than that and match the same
node count as spellings too. A reservation status has two forms besides, one per token.

`Expect` is computed as the generator does, by running the plan on a fresh order
(`OracleState`); `OraclePlanOK` is the generator's own check of it, an assumption TLC
evaluates.

Bounds: `MaxIdle`, decisions beyond the number of credits: 2 lets the agent retry in a
later decision, which is as far as any rule of the runtime, fault engine or verifier
looks (`RetryAfter` is 1 in every generated task). `MCEpisode` has two lines, so cancels,
out-of-order reserves and the all-reserved condition matter; of the read-only steps it
keeps one conversion (the wrong-unit trap), the quotes and the status queries. There are
two spellings, enough for a call to be the faulted one or another; nothing but equality
tells them apart, so they are a symmetry set. Three schedules carry the five kinds of
fault: wrong unit and rate limit in one episode, malformed and transient in another, the
ambiguous fault alone. `MCOracle` keeps the full eight-node plan of one line; the oracle
makes its calls in the spelling of the nodes (`Registered`). An episode begins at decision 1: every runner
calls `begin_decision` first.

What the runs show. In *every* episode, credits cross decisions, the finalize token is
withheld until all lines are reserved, the ambiguous fault never meets a failing reserve
(the RuntimeError in `dispatch` is unreachable), and the warehouse is only changed as
`WarehouseSpec` allows. In every episode with no unsafe call, the warehouse equals the
oracle's after the credited nodes, the verifier's recomputation equals the runtime's
credits, and of a certified recovery `EarnedRecovery` says how the faulted node's payload was
first got after the fault: by the registered remediation, or by a call spelt otherwise than
the faulted one, and after a wrong unit only by the former. A blind retry of the faulted
call itself, a batched one and a second mutation never pass. The exception is real, and the
runs show it; two statements of `verify.py` are stronger than the code:

* `episode_laundering`: the establishing event is searched among calls with the faulted
  call's own digest. Nearly every node accepts several spellings, so a blind retry in
  another one obtains the value, is credited, and is not looked at; a later echo of the
  token in the first spelling certifies the recovery.
* `episode_disagreement`: an ambiguous fault on a reserve that only replays (the agent
  reserved the line out of order before) is credited by the runtime but not by the
  verifier, which wants a mutated state. The episode is unsafe anyway; it is reported as
  inconsistent as well.

The same digest is what S12 compares with the registered node's (`analyze.py:967`): an agent
that meets the fault in another spelling than the oracle's, or in a status query's other
form, yields "fault fired at the wrong node" and with it a BUG verdict. No property
states it; `PROJECT.json` names it with the hazard of the digest (`verify.py:217`).

### Oracle

`run_oracle` as three steps over `Episode`'s actions: begin a decision, get the canonical
answer and advance, or be spoiled and retry with the token offered. `OracleCertifies` is
liveness: under weak fairness of the loop's next step (a sequential loop that nothing else
can disable) every plan of no, one or two faults on distinct nodes ends certified.
`OracleWithinBudget` bounds decisions and calls by `schema.decision_budget` and
`schema.call_budget`. `MaxIdle` is 8, larger than any retry sequence can use, and
`MaxAttempts` is the code's 4.

### Suite

The generator builds the registered splits cell by cell: the family grammar gives the
required calls of a task (`LookupCalls`, `RelayCalls`, `PatternCalls`, `FulfillmentCalls`),
the registered weights give the faults (`FaultPlan`: apportioned by largest remainders,
paired in the stress split, every fourth malformed fault of a warehouse cell moved to a
mutation), and each fault lands on a free call that can carry it, most constrained fault
first (`AssignmentOrder`, `PlaceFault`). The permutation control moves every answer one
place along a shuffled cycle (`Shuffle`, `Derange`), the absent-information control removes
what the answer rests on (`Redaction`). `CheckSplit` and `SettlePhase` are
`assert_split_cardinalities` and `assert_suite_cardinalities`, first for the train and
development splits and after the reveal for the held-out ones; `Validates` is what
`validate_suite.py` counts again. A refusal anywhere is the stage `"refused"`.

A draw is a choice where it decides something (the node a fault lands on, the order of the
cycle) and left out where it does not (keys, numbers, wordings, and the digests over them).
Of the tasks already built only what the registered counts read is kept (`tally`).

Bounds: the registered sizes, and two specs per cell as the unit tests build. `MaxShuffle` is
4, the size of the small control; a longer one takes one order, since `Derange` treats all
orders alike. `GenerationNeverRefuses`: whatever the draws, no fault runs out of nodes and no
assertion of the generator fails. `BuiltValidates`: what it accepts at the registered sizes
the validator accepts. `OracleMeetsEveryPlan`, an assumption TLC evaluates, ties the two
halves of `MCOracle`: every way the faults of the generator's plan for an H8 order can land
is one of the plans the oracle is run under.

### GpuLedger

Three kinds of process share `gpu_ledger.jsonl` and `gpu_sessions.jsonl`: the driver, the
foreground child it runs, and a heartbeat per session. `ledger` is the sum of the ledger's
rows; `sessions` is what `journal_state` reduces the journal to, plus the observed time of
the close row. A stage has one of three kinds, by who writes its receipts: *module*
(tournament, rejection sampling: the child charges engine starts and units), *served*
(eval, ship: the driver charges each server session), *train* (the driver charges after
training returns, and no guard runs). `journal_close` is two steps, its ledger row
(`Charge`) and its close row (`CloseRow`), because they are appends to two files and a
crash fits between them. `Reconcile` is the guard's loop over dead sessions, oldest first.
`OnExit` is the trap, with its two ways out: `die` ends the shell, a TERM between two
commands returns into the stage. `KillDriver` leaves the child, server and heartbeat
running; `OrphanEnds` frees the card; `PowerLoss` stops everything.

Ghosts: `vouched` counts, for each unit of time, the sessions for which a stage or a
heartbeat process still stands; `rejoined` marks the TERM case of the finding below.

Abstractions: one unit of time is at least `JOURNAL_MIN_CHARGE_S`, so every positive
remainder is written; an append to one file is atomic (torn tail lines are not modelled) and, outside
`GpuLedgerPower`, durable;
GPU identity checks and manifests are left out; the guard's projection is one constant.
When the driver is killed during its own close, the helper is taken to die with it; if it
survives, the outcome is that of a kill just after the close.

Bounds: `MaxTime` 3, `MaxSessions` 3, so that two dead sessions and a live one, a kill
between the two appends and reconciliation of both by the third's guard all happen
(`MaxTime` 4 was also checked once). The system may stop (power loss, all sessions used),
so deadlock is not checked.

What the runs show: apart from a trapped TERM during training, receipts, remainders and
reconciliations together never charge more than the time processes vouched for
(`NoInventedSeconds`), even when a charge is written and its close row is lost; a closed
session is covered by the ledger's growth since it opened (`ChargedSinceOpen`); and the
guard lets no stage work unless what each earlier session is known to have occupied still
leaves room for the projection (`PredecessorsCounted`). Three statements of the code are
stronger than what it does:

* `gpu_ledger_undercharge`: the next session records the ledger total when it opens, and
  the dead session is charged after that, by the guard; the next session's close then
  counts that charge as its own. Attested time is lost from the ledger.
* `gpu_ledger_overcharge`: a TERM held until training returns is charged by the trap and
  again by the training receipt.
* `gpu_ledger_power`: `GpuLedgerPower` is `GpuLedger` on a disk that writes late. A row of the
  journal is fsynced by the code and a row of the ledger is not (`configio.py:851`), so
  `unsynced` is how many of the ledger's seconds a loss of power takes. A session that is
  closed just before the power fails keeps its close row and loses its charge, and no later
  guard looks at a closed session. In `GpuLedger` itself a `PowerLoss` spares both files, so
  its properties are about a stop that the disk survives.

### Corpus and Lineage

The pipeline from rollouts to a lockable adapter is one module, because its hazards lie
between components: each artifact is two or three files written one after another, and the
next component, the resumed command and the driver decide by looking at those files.

State: one variable per file (`rows` and `receipt` per shard; `corpus`, `certificate`,
`failure`; `meta`, `report`, `views`; `weights`, `config`, `manifest`), each `None`,
`Torn` or a content; the build's `contract` and the `producer` (card, engine fingerprint,
thinking mode) a command would run under; and the one process, `pc` and `job`. One action
per file operation, in the code's order. A command's checks are its first step (`StartRun`,
`StartFinalize`, `StartViews`, `StartTraining`): a command that refuses writes nothing, so a
refusal is a false guard. The driver runs a command when its stage is not done
(`DistillDone`, `ViewsDone`, `SftDone` are `done_already` with `stage_receipt`); the same
commands can be given by hand, with another `--shard-size`, `--shard N --force` or
`--partial` (`HandRun`, ...), which also stands for a forced stage.

Abstractions. A digest is the content it was computed from, so a receipt holds that
content and "the digest matches" is equality; this makes a receipt that certifies other
bytes representable and equality as strong as SHA-256. A shard's rows are told apart by
their tasks, by what the acceptance filter keeps of them (any subset), by producer and by
contract; the samples per task are not counted. The block is one (family, horizon) cell
and one quota. The row-range and terminal-weight gates of the view builder may refuse a
corpus; they are in `ViewCap`, and this module builds views of every usable corpus. The
summary file is read by nobody.

Environment. `Kill` stops the process between any two file operations. Every write is a
temporary file and a rename, but only the training manifest is synced before it, so after
a power failure a file may have lost its tail: `Truncate` tears any file but the manifest
(and `adapter_config.json` and the failure record, of which only presence matters), and
ends the process. It may strike any file, however long ago it was written. `ChangeWorld` is another build or card between two commands. Each
disturbance, and each command by hand, counts against `MaxDisturb`.

Bounds: two tasks, planned as two shards or one, two producers, two contracts, a quota of
two (every task accepted) and `MaxDisturb` 3: a kill, a re-plan and a change of card can
meet in one behaviour, and each property is violated by its defective variant within them.
Two commands running at once are not modelled: the driver runs one at a time and the code
takes no lock against a second.

Fairness: weak fairness of the process's next step (a sequential program) and of the
driver's runs (`ChainRun`): "re-invoking is always the resume mechanism" (`run_units`), so
somebody re-invokes it; strong fairness of the driver's finalize (`ChainFinalize`), which
`stage_distill` calls once its runs leave nothing incomplete, so that it is tried whenever it
is possible again and again. `ResumeCompletes` is then that whatever was killed, torn,
re-planned or forced before, the stage is done at last, or every shard of the driver's plan
is complete and the refusal is one that no run can mend: fewer trajectories than the quota,
or shards of two producers, which make every later finalize refuse. Both dead ends occur
(without either clause TLC finds a counterexample); the system really stops there until
somebody uses `--force`, which is why deadlock is not checked.

What the runs show: a shard that counts as complete holds exactly the rows of its chunk of
the current plan (`CompleteMeansWhole`); a usable corpus came of a census of the whole
block, meets the quota and has one producer and the current contract (`CertifiedCorpus`),
although any of its shards may have been re-rolled since; a certificate and a refusal
exclude each other; a report and rows that are both whole are of one build, which is what
makes the trainer's check by row count enough; and the gate of the checkpoint lock accepts
only a whole adapter trained on such a corpus (`LockedDescent`).

`Lineage` is the abstract promise, in five steps: a registered build is published, when none
stands and the last attempt is not refused; it is withdrawn; an attempt is refused or the
refusal voided, when none stands; an adapter is attested, when there is none, of a build
published before; it is discarded. `Corpus` implements it (`LineagePromise`): what stands is
the corpus with a certificate over its very bytes, a refusal is the failure on file, the
adapter is the tree its manifest attests, and `published` is a history variable that
remembers what `Certify` certified and that no guard reads. The promise says what survives
a forced or repeated distill, whose skipped later stages keep the old views and adapter: they
may be of a withdrawn build, never of one that finalize did not certify.

One statement of the driver is stronger than the code:

* `corpus_unattested`: the sft stage counts as done when the adapter's two files exist. A
  trainer killed after saving them and before writing its manifest is never run again,
  while the lock refuses the adapter and asks for the stage to be re-run.

### Release and Blinding

`Release` models three commits in a repository the operator may handle at will, and what
the scripts conclude from them. `commits` is every commit ever made, with its ancestors,
its parent and its tree; `disk` is the working tree. The tracked files are the marker of
the preregistration (its commit is P), the locks file (L), the reveal receipt and the
held-out manifest (their commit is R); `payload` and `certspecs` are the held-out bytes,
which git ignores, so they survive every switch of branch. The commands are
`FinalizePrereg`, `LockPrompt`, `LockCheckpoint`, `Reveal`, `GenerateHeldout`,
`ExportCertspecs`, `Seal`, `Quarantine` and the evaluation stage; the operator's own steps
are `Commit` (one file, the pair R asks for, or everything), `Amend`, `Switch` (leaving a
branch behind, or losing it as `git reset --keep` does), `Push`, `Train` and edits of a
frozen or a generator source. Both readers of git are kept apart as the code has them:
`agentic_locks.py` looks at all refs (`AllRefs`), `verify_heldout_release.py` at the past of
HEAD (`Dedicated`). A prompt lock is recognised by its `P`, which only `lock-prompt` stamps.
The manifest stands for its checksum file as well. A digest is the content digested, as in
`Corpus`; the seed and the release id are functions of L and are L.

`Blinding` is the abstract promise: locks are published, the seed is drawn once from a
published lock, and only the drawn seed is evaluated. `Blinded` is that `Release` implements
it, with published = the commits of the public branch that add a lock, seed = the lock of
every receipt `reveal` ever wrote (a ghost: receipts can be deleted), and evaluated = the
seeds of the traces.

Bounds: five commits (the initial one, P, L, R and one more), two adapter versions, one
trace, and one step the registered order has no place for (`MaxDetours` counts amends,
switches and edits). Each property is violated by its defective variant within them, and
`ReleaseProofs` proves all four for every value of these bounds. The public branch never moves backwards: a force push would erase the evidence
the protocol rests on, and nothing in the code notices one. The system stops when the
commits are used up, so deadlock is not checked.

Left out: timestamps (recorded, never read), the acceptance gates that `finalize-prereg`
runs as subprocesses (taken to pass), the study's ledger rows (a study that has run has an
adapter), the selection receipt in the lock (no program writes it; the operator does), and
the train/dev manifest. The marker pins a digest of the generator's sources that nothing
ever compares, which is why `generator` is a variable no guard reads.

What the run shows: the seed is drawn once, from a published lock, whatever is amended or
branched (`OneSeed`, `Blinded`); a gate that passes vouches for that lock and for the bytes
on disk (`GateBinds`); and S18, which reads no bytes at all, still vouches for the seed of
every trace (`VerdictBinds`), because stale bytes are refused when the receipt is written.

Found while modelling, not contradicting any statement of the code: `finalize-prereg
--force` after P is committed cannot be completed, since a second commit of the marker
makes every later command refuse; `seal` compares only the release id, so certspecs exported
by an earlier generator can be sealed over a payload of a later one; the driver's evaluation
stage looks for two files and calls neither gate; the lock a trace was taken under is
nowhere recorded, so a lock changed on a side branch, evaluated under and changed back
leaves no trace; S18's test of the release id in the trace rows never applies, because the
evaluator does not write that field.

### Rollout

One episode of a chain of lookups, under either of the two loops that drive the runtime:
`RolloutEngine` (whose records become training data) and `run_episode` (whose traces are
judged). `messages` is the transcript reduced to who spoke, what answer a text commits to
and which event a tool message carries; `events` is the runtime's record. The actions are
the turns of the two loops, with their differences: the engine answers for an unknown tool
itself and goes on after the call cap, the evaluator stops there, runs out of wall clock or
fails to parse. `Episode` has the runtime in full; here it is what one such call answers
(`Spoils`, `Result`, `Eligible`). A call is known by the node it asks for and its spelling
(`SameCall`, the digest again): the verifier's candidates, equal errors and duplicate calls
go by it, while `PostFaultRetries` goes by the node, as `multidistill.py:546` does. What an
argument of another case was taken from is still found (`_feeds_match` ignores case), so the
chain does not depend on spelling. What an answer rests on (`Contributing`) is the least set of
events that is closed under following an argument back to the event that showed it.

The readings come after the run: the verifier's (`Verdict`, `Reason`), the certification of
the serialized trace (`Ledger`, `RecoveryCertified`, `Orchestrated`), which looks at the
transcript's last words rather than at the text the runner handed over and drops events
whose receipt does not cover their bytes, and the acceptance rules and recovery views
(`RecordAccepted`, `RecoveryTurns`). `Ledger(k)` reads the trace with event `k` changed after the
run.

Bounds: two nodes, five decisions and five calls (one spare retry of each kind above what
the plan needs), two spellings of a call and one stray call (`MaxStray`: a useless one, one to
an unknown tool, or one in the other spelling), one turn with an aside; no fault, or one of three kinds,
on the node that feeds the answer or on the answer's own. The depth of the readings (three
equal errors, four calls without progress) fits in five calls.

What the run shows. An accepted rollout that met a fault contains the faulted call over again
with its token, or a conversion that had seen the wrong unit, and that call got the value;
the turn that asked is taught, and no turn before the fault was seen or after that call
(`RecoveryTaught`). What got the value before can only have been another spelling of the
call, and never after a wrong unit. That case occurs within the bounds and has a
consequence for the corpus: the first turn after the fault is taught as recovery whatever
it did, so the turn that retried blindly in another spelling is taught beside the one that
echoed the token. Of an untouched trace the verifier and the
certification read the same, and any changed event is noticed (`ReadingsAgree`), with one
exception which the property states: an episode that ended without a final text after a
turn that had said an answer. There `_final_assistant_text` (`provenance.py:548`) falls
back to the earlier prose while the verifier reads nothing; S17 compares the two fields, so
it would report a bug although nothing was touched. It is a false alarm, never a false
pass, and no document says otherwise. Other observations: the first turn after a fault is
taught even if it caused a further error (the comment at `datasets.py:671` says such a turn
never is); an unknown tool adds a tool message without an event, which the verifier counts
as a hallucination (the record is rejected for the unknown tool anyway).

### ViewCap

`plan_view_cap` with its integer shares and largest remainders, and the range check after
it. A trajectory is the number of its rows. The code compares floating-point remainders;
equal ones are taken in any order. Bounds: two strata of up to three trajectories of 0, 2 or
5 rows, a range of 10 to 13, so that builds under, at and above the ceiling, lost rows, a
reservation alone above the ceiling, and both refusals occur. `CapFills`: below the ceiling
the cap is inert; above it no stratum is emptied, trajectories are dropped only from the end
of the key's order, and per stratum that was cut fewer rows stay unused than its longest
trajectory has. `CutLandsInRange` draws the conclusion for the registered numbers (5,000 to
6,000 rows, at most six each, twelve strata): once the first trajectories fit, the cap lands
in the range, and its last refusal cannot happen; on the small instance, where a trajectory
is longer than the range is wide, it does. The doc's "every stratum's share
... to within one row" is true of the remainder after the reservation, not of the whole.

### Evaluation and PairedCensus

The chain of processes behind one trace row: the driver (`driver`, `unit`), the server with
its attestation (`server`), the evaluator over one block of one manifest (`shard`), its
worker threads (`inflight`, `results`) and the file (`trace`: the readable rows, and whether
the tail is torn). `Units` is `eval_table` with the arms alternating per block, and two
manifests that share one trace file. `StartShard` has the evaluator's refusals in their
order; any of them ends the stage, as `die` does. Main thread and workers interleave:
`Launch`, `Answer` or `TransportFails`, `Write`; the first failure stops launches, what is
in flight is drained and written, and the shard aborts without a row for the lost episode.

Environment: `Kill` (a trapped signal takes the server along, SIGKILL leaves it; a row may
be half written), `ServerDies`, single lost answers, the ledger's refusal, and `Edit`: another
configuration or environment at any time, another card while the machine is down. The first
three count against `MaxMishaps` 2, edits against `MaxEdits` 2. Two arms, two tasks in one
block, an optional task in the same file, one withheld task, two episodes in flight.

Fairness: weak fairness of a running stage (`Work`: sequential programs whose calls have
timeouts), of ending an orphaned server (`OrphanEnds`; the card is refused while
it lives, so somebody must end it) and of
re-invoking the stage (`BeginEval`; "re-invoking is always the resume mechanism").
`EvaluationCompletes`: if from some time on card, configuration and environment are those
of the rows on file, the stage gets done. The limit of 200 passes over one block, after which
the driver dies, is a `die` like any other (`LedgerRefuses` and `ServerDies` have the same
effect), and a TERM the trap returns from is in `GpuLedger`.

What the run shows: no file mixes two cards, configurations or environments (`OneApparatus`);
no readable episode is run again (`EachTaskOnce`); and the stage implements `PairedCensus`:
traced episodes stay traced, and "done" is declared only when every task of every mandatory
manifest that the control can ask has a row of a live engine in both arms, although a row
glued to a torn tail counts as written when the shard reports itself complete
(`CensusPromise`).

Left out: the text of prompts and requests (the prompt's digest is not in the row's
fingerprint either: S16 checks it afterwards), rows without attested hardware, `--limit`, row
splitting at Unicode line separators. A torn tail is always skippable here. The rows are
written with `ensure_ascii=False` (`evaluate.py:955`) and read back as strict UTF-8 (`:556`),
so a row torn inside a multi-byte character would make the reader raise, and the stage
would not resume before somebody cut the tail off; `EvaluationCompletes` does not cover it.

### Tournament

One file per round and candidate is all the memory there is, and a file that exists is done.
`Start` picks a round, the pending units, or a named unit, by force or not; `RunUnit` writes
one file; `Finalize` freezes the winner of the pooled rows. Equal samples and weights make
the combined rate the pooled fraction. Bounds: three candidates (a first, a second and one
that is not a finalist), one task per round, one forced run, one change of contract.
`FrozenStands`: until somebody forces a unit or deletes the rows, the frozen winner is the one
`finalize` would write again, whatever is run in between, because round two counts for the
finalists only and the finalists depend on round one only. The code rounds rates to four
decimals before it ranks them, which is left out: the property asks only that the ranking is
a function of the rows.

### Publisher

`upload` as it goes: list the remote, digest each file twice, send a batch, digest again,
record, flush the index, and at the end hold the window open and check every record of the
run once more. Producers write, replace and remove files at any step; the remote may commit
a batch and lose the answer; the process may die anywhere, and what was not flushed is lost.
A content is the number of the write that made it. Bounds: a batch of two files and one of
one, one path that may never leave, three writes, two publications. `IndexNamesRemoteBytes`:
every record names bytes its pinned commit holds. `QuiescentWhenRecorded`: a run that ended
recorded nothing that had moved by then. A torn read during the upload itself, and a file that
returns to earlier bytes, are below the model; the backup of the run secret, `verify` and the
receipts a record can carry are left out.

### Verdict

What `agentic_verdict` concludes from the rows and documents on file, and what `stage_ship`
does with it. A row is whether the episode is good, and at most one flaw, each flaw of the
kind one veto looks for; `S8` to `S19` are the vetoes with their coverage rules and their
`INCONCLUSIVE` cases, `Floors`, `ER2` and `ER4` the gates the winner depends on, `Outcome` the winner rule. Over one to
three clusters of one task the bootstrap's 2.5 % quantile is the least difference, exactly;
the instance stays within that. Rows are lost or spoilt, documents go missing, the verdict
is written (or torn) and written again, and a configuration is shipped.

`NothingNamedUnverified` is an action property: an arm is named only when every core task
has a row in both arms and conditions, its floor holds over all of them, the documents are
sound and no row has a flaw a check can see. `Seen` says what the checks cannot see:
a manifest is whole, absent or spoilt as a whole, whereas `_load_jsonl` (`analyze.py:702-714`)
silently drops a line it cannot parse, so a partly lost specification manifest makes S9 and
S15 expect fewer tasks and nothing notices; S16 reads prompt and weights of each file's first episode only, S17 replays tasks of the
specification manifest only, S14's minimum is pooled over the arms, and losing a descriptive
row together with its flaw turns BUG back into a winner. One statement is stronger than the
code:

* `ship_on_bug`: the protocol says of a harness bug "no winner". The verdict text then begins
  with "BUG", the ship stage skips "NO VERDICT" and "none" only, and its last case serves the
  base arm.

Bounds: one core task per place (two), one row of every other kind, both arms good, two
losses (`MaxLosses`); with both arms good the base arm keeps its place, and after two of its faulted rows
went bad the trained arm wins. The gates ER3 and ER5 to ER8, the multi-tool family's, the human-review gates, the
Holm correction, claims, curves and the report do not enter the winner and are left out.

## 3. Proofs

All proofs are checked by tlapm, for every value of the constants that meets the assumptions
named in the modules. TLC evaluates each assumption in the run of its module.

| Assumption | What it says beyond types, and why the code justifies it |
|---|---|
| `LinesAssumption`, `AmountsAssumption` | line numbers and quantities are positive |
| `ExpressAssumption` | an express order has one line (`_LINES_FOR`, `fulfillment.py:45`, `:54`) |
| `OwedAssumption` | `Owed` is summation over a set of lines, by its two defining facts |
| `PlanAssumption`, `OraclePlanOK` | a plan reserves a line once, faults sit on nodes that can carry them; the generator's own check of the plan |
| `FaultsAssumption`, `MaxAttemptsAssumption` | at most two faults in an episode (the stress split's pairs), at least one attempt |
| `CorpusAssumption` | types and positive sizes; the markers of an absent and of a torn file are no content |
| `LedgerAssumption`, `ReleaseAssumption`, `TournamentAssumption` | types and positive sizes |
| `EvaluationAssumption` | a manifest lists a task once, the schedule has every mandatory manifest in every paired arm |
| `PublisherAssumption` | the groups of one publication are disjoint, as the registered ones are (`hf_artifacts.py`, `GROUPS`); naming a group twice on the command line is left out |
| `ViewCapAssumption` | types; a trajectory with views has at least its answer's copies |
| `SuiteAssumption` | the sizes of a build are natural numbers |
| `VerdictAssumption`, `RolloutAssumption` | finitely many core tasks, a chain of at least one node, budgets of at least one |

* **Warehouse** (`EpisodeProofs`). The inductive invariant `WInv` is the type together with
  `Conservation` and `CompleteHoldsEveryLine`: conservation needs the type for arithmetic, and
  finality needs that a complete order leaves no line to reserve. `Owed` is used only through
  its two assumed facts.
* **Episode** (`EpisodeProofs`). `EpisodeImplementsWarehouse` shows every action of an episode
  to be a warehouse step or a stutter, so `Conservation` carries over. `CInv` orders the
  credits. `SInv` says what a safe episode has in common with the oracle's run after the
  credited nodes; it is inductive because a safe credit of an ambiguous reserve really
  mutated, which needs the warehouse to be where the oracle was, hence the line not yet
  reserved (the plan reserves a line once). `AmbiguousIsExecutable` holds in unsafe episodes
  too: the oracle's run over a fresh order reserves every line, so each lot holds its line
  and the budget covers the whole order; whatever part of it is reserved now costs no more
  (`PartCostsNoMore`, by well-founded induction over finite sets, through a minimal
  counterexample, as the induction rules themselves take an operator), and conservation
  leaves the rest. `FinalizeTokenIsWithheld`: only a status query of a full order shows the
  token, or the one reserve of an express order. `RecoveryIsEarned` needs `RInv`: until the
  first canonical observation at a faulted node the node is the next to be credited (for an
  ambiguous fault, credited already). So in a safe episode the first canonical observation
  either is the one that establishes the outcome or was made by another call than the
  faulted one, for any set of spellings (`RecoveryIsEarned` assumes nothing of them).
* **Oracle** (`EpisodeProofs`). Each of its calls completes a node or fires a fault, and no
  fault fires twice: `BInv` says that the decisions begun are the nodes passed and the faults
  fired, which with at most two faults stays under both budgets.
* **Suite** (`EpisodeProofs`). `ControlIsDeranged` and `NoFixedPoint` rest on one fact of
  counting: an order of the tasks without repetitions is onto (an injection of a finite set
  into itself), so each task stands somewhere in it, and the one after it, around the end, is
  another one as soon as there are two. `DerangedSoFar` says that what has been moved is
  what that order prescribes.
* **GPU ledger** (`GpuLedgerProofs`). The invariant adds to `ChargedSinceOpen` the same fact for
  a close whose ledger row is written and whose close row is not (`ClosingCharged`): the
  ledger only grows, so the fact survives to the close row. That no session was opened over
  more than the ledger holds (`OpenedBelow`) is why the close's growth is never cut off at 0. `GuardCountsPredecessors` is an
  action property from it: at the guard's decision every other session is closed.
  `NothingIsInvented` would need the sum of what all sessions can still be charged. Instead
  `AInv` says that what is on the ledger and what each session can still be charged fit
  together under the time vouched for, split among the sessions (`Owed`, `Shares`,
  `Accounted`): a charge takes from the share of its session what it adds to the ledger, and
  each step gives the next split.
* **Corpus** (`CorpusProofs`). Each file is written several steps after the decision to write
  it, so the invariants say what the running process holds as well as what is on disk.
  `JobShape` is the process's own type: the shard it rolls belongs to the plan it was
  given. `ShardInv` says of every receipt that what it was sealed over covers what it
  says was owed, and, between the two writes, that the rows are the ones just rolled; it
  gives `CompleteShardsAreWhole`. `VerdictInv` follows the two orders of finalize
  (certificate away before the failure is written; failure away before the certificate
  is). `ViewsInv` is `ReportDescribesRows` with the steps in between. `CertInv` says that
  a certificate's digest meets the quota, has one producer and was censused over the whole
  block; `PlanCoversBlock` is the arithmetic behind the last part, that the chunks of any
  positive shard size cover the block. `AdapterInv` carries the same facts through
  metadata, training job and manifest, from `CertInv` and `ViewsInv`. `CorpusKeepsItsPromise`
  is the refinement of `Lineage` step by step. It adds `LineageInv`: whatever a later stage
  works from (certificate, metadata, jobs, manifest) is of a published build, and every
  published build is registered, since the trajectories pooled are of the block
  (`AcceptedAreTrajectories`). `AttestedStep` is the adapter's half: its tree is saved in two
  writes and attested in a third, yet what can be locked never changes from one build to
  another at once.
* **Rollout** (`RolloutProofs`). The readings are taken of a finished run, so they rest on how
  its two records grew. `RolloutInv` says of the events that decisions never decrease, that a
  result inside the chain is its call's own, that credits run along the chain and each comes
  in a later decision than the one before, that there is one fault and it precedes the credit
  of its node, and that a token is echoed only after it was shown; of the transcript, that
  its tool messages are the events, once each, that an assistant message stands wherever the
  decision changed, and that the final text is its last word. `RecoveryIsTaught` finds in an accepted
  faulted rollout the call that the verifier certified and the turn that asked for it, by
  taking least and greatest elements of these finite sets; that call's kind is
  `RecoveryEarnsItsTurn`, for any set of spellings. `ReadingsDoAgree`: on an untouched trace the two
  parsers see the same last text, hence the same source; the chain behind it lies in every set
  closed under `Backwards`, by descent along the credits; and a changed event falls out of the
  valid ones, which both certifications demand whole.
* **View cap** (`ViewCapProofs`). A sum is a recursive function, and what it satisfies is
  proved through a least counterexample: `Induction` speaks of a set of numbers and so needs
  no operator as a parameter, `Recursion` says that a function computed step by step exists,
  so the one TLA+ chooses satisfies its equation. Sums of sums, of multiples and of ones
  follow. Then `ShareFacts`: the remainders of the divisions add up to as many times the
  divisor as rows are left over; were one of the favoured remainders 0, all others would be,
  and the favoured alone cannot add up to that; so a favoured stratum has a remainder, and
  nobody's share exceeds the rows he has. `TrimmedStratum`: an uncut stratum uses its whole
  share, a cut one leaves less than its next trajectory takes. Summed over the strata this is
  `CapAlwaysFills`. `CutLandsInRange` has a hypothesis on the constants, that the range is
  at least as wide as the strata times the rows of the longest trajectory but one row, which
  the registered numbers satisfy (60 against 1,000).
* **Release** (`ReleaseProofs`). `OneSeed` needs that a commit which adds a lock to the public
  branch can never disappear (the public branch only grows, and `Rooted`: the past of a commit
  is closed under ancestors) and that every receipt names such a commit (`Receipted`); two of
  them would be two commits that add the lock, which `reveal` refuses. `ReleaseBlinds` is the
  refinement: its invariant adds that every receipt, manifest and payload anywhere (in a tree,
  on disk, in a trace) that carries a seed carries a drawn one, or is one of the retired bytes,
  which are never evaluated because no receipt is written beside them. `TheGateBinds` and
  `TheVerdictBinds` follow from the same invariant by expanding the gates.
* **Evaluation** (`EvaluationProofs`). What the files promise is not inductive: a row is
  appended long after the evaluator compared its attestation with the rows on file. `EvalInv`
  adds what the running evaluator still holds of that check (`ShardFits`), and that a task is
  on file, queued, in flight or returned, never in two of these places (`ShardDisjoint`).
  `StageKeepsThePromise` is the refinement of `PairedCensus` step by step: `done` needs that a
  readable row is never lost and that the census counts what the files hold.
* **Tournament** (`EvaluationProofs`). `FrozenWinnerStands`: once frozen, whatever is run adds
  no row to a finalist's files, since a unit without a file belongs to a candidate that is no
  finalist; the order in which candidates are sorted does not matter.
* **Publisher** (`PublisherProofs`). Both theorems rest on freshness: a file never again holds
  bytes it held before, so bytes that still have an earlier digest have been there ever since.
  `PublisherInv` adds that each path is at one place of the run (`OncePerPath`), that of a batch
  just sent the last commit holds the digested bytes or the file has moved and the digest after
  the upload will tell (`Sent`), and what the window's close fixes of the files (`Window`).
* **Verdict** (`EvaluationProofs`). One step: a verdict that names an arm came past all twelve
  vetoes, and each kind of flaw, document or gap is the business of one of them. The invariant
  says that a task has one row per arm, condition and control, so that the floor, which counts
  rows, is a floor over tasks. `ER2` and `ER4` are not used: whatever the gates between the arms
  say, neither is named over less.

Proved and not model-checked as properties of their own: the type invariants of the warehouse,
the episode, the GPU ledger and the release, the inductive invariants of `Evaluation` and
`Publisher`, `RefusedStays` (no refused path is ever in a remote commit), `CutLandsInRange`,
`ControlIsDeranged` and `NoFixedPoint`.

Only model-checked: `GenerationNeverRefuses` and `BuiltValidates` (apart from the permutation
control they are statements about the registered tables, which TLC evaluates on those very
tables), and the liveness properties `OracleCertifies`, `ResumeCompletes` and
`EvaluationCompletes`. The seven runs that expect a violation show what
the code does against one statement each.

| Run | Distinct states, about | Time, about |
|---|---|---|
| `study` | 610,000 | 2 min |
| `corpus` | 1,395,000 (files 546,000, rollout 843,000, views 6,000) | 2 min |
| `gpu_ledger` | 4,450,000 | 1 min |
| `oracle` | 112,000 (suite 106,000, oracle 5,500) | 45 s |
| `episode` | 97,000 (up to symmetry) | 1.5 min |

## 4. Not modelled, and the plan

Left of the plan, most useful first:

1. An abstract account for `GpuLedger`, charged once per interval, which the findings
   would have to weaken.

Not modelled, and why:

* Suite generation outside `Suite`: keys, numbers, prompt wordings, digests, the
  contamination and uniqueness checks over them, and the writing of the manifests. The oracle
  simulation of a plan is in `Episode`, the held-out phase's release protocol in `Release`.
* The typed-relay and other environments as environments: read-only, with no state beyond the
  crediting that `Episode` has. Their grammars are in `Suite`.
* Training code: numeric. A training stage is a timed child in `GpuLedger` and two file
  writes in `Corpus`.
* Chat, tools, parsing and logging: conversions of text, on which no property here depends
  beyond what `Rollout` keeps of them.
* Preflight, host records, demo and GRPO: operator tools, and a branch the registered study
  does not take.
* A torn line at the end of the GPU ledger (`ledger_rows` raises on it): a ledger append is
  one step here. The loss of whole rows is in `GpuLedgerPower`.

`PROJECT.json` gives the status of each component, what of it is left out, and the hazards
no property covers with the reason.
