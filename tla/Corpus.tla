------------------------------- MODULE Corpus -------------------------------
(***************************************************************************)
(* The training corpus on disk, from rollouts to adapter:                  *)
(*   multidistill.py   shard rows and receipts, accepted corpus            *)
(*   suite/datasets.py view corpus: metadata, report, rows                 *)
(*   sft.py            adapter weights and training manifest               *)
(* and the tests by which scripts/run_multifaceted_chain.sh skips a stage. *)
(*                                                                         *)
(* Every artifact is several files written one after another, each write   *)
(* atomic (temporary file, rename).  One process runs at a time, as the    *)
(* driver runs them, and may be killed between any two file operations.    *)
(* A file may lose its tail.                                               *)
(*                                                                         *)
(* A digest stands for the content it was computed from, so a receipt      *)
(* holds that content.  Two rolls of a shard are told apart by what the    *)
(* acceptance filter keeps of them, by their producer and their contract.  *)
(* A command that refuses writes nothing: a refusal is a false guard.      *)
(***************************************************************************)
EXTENDS Naturals, Sequences, FiniteSets

CONSTANTS
  TaskOrder,    \* the committed tasks of one (family, horizon) block, in order
  Sizes,        \* values an operator may give --shard-size
  DefaultSize,  \* the one the driver uses
  Contracts,    \* environment contract digests
  Producers,    \* producer identities: card, engine fingerprint, thinking mode
  Quota,        \* accepted trajectories the registered minimum asks for
  MaxDisturb,   \* bound on kills, truncations, changes and manual commands
  None, Torn    \* a file that is absent; one whose content is incomplete

Tasks   == {TaskOrder[i] : i \in DOMAIN TaskOrder}
Indexes == 0..(Len(TaskOrder) - 1)

(***************************************************************************)
(* The plan: consecutive chunks of the block, and what each one owes.      *)
(***************************************************************************)
Owed(size, s)  == {TaskOrder[i] : i \in {j \in DOMAIN TaskOrder :
                                          s * size < j /\ j <= (s + 1) * size}}
Shards(size)   == {s \in Indexes : Owed(size, s) # {}}

(***************************************************************************)
(* Contents.  A shard's rows cover its tasks; the acceptance filter keeps  *)
(* a trajectory for some of them.                                          *)
(***************************************************************************)
Rolls == [tasks : SUBSET Tasks, kept : SUBSET Tasks,
          producer : Producers, contract : Contracts]

Trajectories == [task : Tasks, producer : Producers, contract : Contracts]

Receipts == [digest : Rolls, owed : SUBSET Tasks, contract : Contracts]

Certificates == [digest : SUBSET Trajectories, contract : Contracts,
                 census : UNION {[Shards(n) -> Receipts] : n \in Sizes}]

Builds == [corpus : SUBSET Trajectories, contract : Contracts]

CorpusAssumption ==
  /\ TaskOrder \in Seq(Tasks)
  /\ Sizes \subseteq Nat \ {0} /\ DefaultSize \in Sizes
  /\ Quota \in Nat \ {0} /\ MaxDisturb \in Nat
  /\ None # Torn
  /\ \A file \in {None, Torn} :
       file \notin Rolls /\ file \notin Certificates
       /\ \A kept \in SUBSET Trajectories : file # kept
ASSUME CorpusAssumption

VARIABLES
  rows, receipt,                     \* shard-NNNN.jsonl, .receipt.json
  corpus, certificate, failure,      \* accepted.jsonl, .receipt.json, failure
  meta, report, views,               \* sft_views.meta, .report, .jsonl
  weights, config, manifest,         \* the adapter tree (config: is there an
                                     \* adapter_config.json), training manifest
  contract, producer,                \* of the build and the card in use
  pc, job,                           \* the process that runs, if any
  disturbed,                         \* disturbances so far
  published                          \* ghost: every build certified so far

shardFiles    == <<rows, receipt>>
acceptedFiles == <<corpus, certificate, failure>>
viewFiles     == <<meta, report, views>>
adapterFiles  == <<weights, config, manifest>>
world         == <<contract, producer, disturbed, published>>
vars == <<shardFiles, acceptedFiles, viewFiles, adapterFiles, world, pc, job>>

Whole(file)    == file \notin {None, Torn}
NonEmpty(file) == file # None           \* the driver's  [[ -s file ]]
Least(s, S)    == s \in S /\ \A t \in S : s <= t

(* Defective variant of Complete: whatever chunk the receipt covers. *)
CompleteForAnyPlan(size, s) ==
  /\ Whole(receipt[s])
  /\ receipt[s].contract = contract
  /\ receipt[s].digest = rows[s]

(* shard_gaps returns none: a sealed, current receipt for this very chunk, *)
(* and the bytes it was sealed over.                                       *)
Complete(size, s) ==
  /\ Whole(receipt[s])
  /\ receipt[s].contract = contract
  /\ receipt[s].owed = Owed(size, s)
  /\ receipt[s].digest = rows[s]

Incomplete(size) == {s \in Shards(size) : ~ Complete(size, s)}

OneProducer(kept) == \A a, b \in kept : a.producer = b.producer

(* accepted_corpus_gaps returns none. *)
Usable ==
  /\ Whole(corpus) /\ Whole(certificate)
  /\ certificate.contract = contract
  /\ certificate.digest = corpus

(* What the driver's done_already and stage_receipt look at. *)
DistillDone == NonEmpty(corpus) /\ NonEmpty(certificate)
ViewsDone   == NonEmpty(views) /\ NonEmpty(report)
SftDone     == NonEmpty(weights) /\ config

(* load_views_metadata and require_views_chain: the report binds the       *)
(* metadata by digest, the rows only by their number.                      *)
TrainerAccepts ==
  /\ Whole(meta) /\ Whole(report) /\ Whole(views)
  /\ Cardinality(views.corpus) = Cardinality(meta.corpus)
  /\ meta.contract = contract /\ report.contract = contract
  /\ OneProducer(meta.corpus)
  /\ report = meta

(* Defective variant of Lockable: a lock on the path, not the bytes. *)
LockablePath == Whole(manifest) /\ manifest.contract = contract /\ SftDone

(* require_training_manifest, the gate of lock-checkpoint. *)
Lockable ==
  /\ Whole(manifest)
  /\ manifest.contract = contract
  /\ manifest.tree = <<weights, config>>

-----------------------------------------------------------------------------

Idle  == [size |-> DefaultSize, forced |-> {}, units |-> {}, rolled |-> FALSE,
          shard |-> 0, content |-> None]

Init ==
  /\ rows = [s \in Indexes |-> None] /\ receipt = [s \in Indexes |-> None]
  /\ corpus = None /\ certificate = None /\ failure = None
  /\ meta = None /\ report = None /\ views = None
  /\ weights = None /\ config = FALSE /\ manifest = None
  /\ contract \in Contracts /\ producer \in Producers
  /\ pc = "idle" /\ job = Idle
  /\ disturbed = 0 /\ published = {}

Files == <<shardFiles, acceptedFiles, viewFiles, adapterFiles>>

(* A process comes to its next step, or ends. *)
Continue(step) == pc' = step
End == pc' = "idle" /\ job' = Idle

(* A manual or forced command, and whatever the environment does. *)
Disturb ==
  /\ disturbed < MaxDisturb
  /\ disturbed' = disturbed + 1
  /\ UNCHANGED <<contract, producer, published>>

-----------------------------------------------------------------------------
(***************************************************************************)
(* multidistill run: one engine serves every unit that is not complete.    *)
(***************************************************************************)
(* Defective variant of Pending: a shard whose file exists is done. *)
PendingByPath == {s \in job.units : s \in job.forced \/ rows[s] = None}

Pending == {s \in job.units : s \in job.forced \/ ~ Complete(job.size, s)}

StartRun(size, units, forced) ==
  /\ pc = "idle"
  /\ forced \cup (units \cap Incomplete(size)) # {}
  /\ job' = [Idle EXCEPT !.size = size, !.units = units, !.forced = forced]
  /\ Continue("roll")
  /\ UNCHANGED Files

(* The stage of the driver, and a command given by hand. *)
ChainRun ==
  /\ ~ DistillDone
  /\ StartRun(DefaultSize, Shards(DefaultSize), {})
  /\ UNCHANGED world

HandRun ==
  /\ \E size \in Sizes :
       \/ StartRun(size, Shards(size), {})
       \/ \E s \in Shards(size) : StartRun(size, {s}, {s})   \* --shard --force
  /\ Disturb

(* Defective variant of RollShard: the old receipt stays. *)
RollShardUnderReceipt ==
  /\ pc = "roll"
  /\ \E s \in Pending : \E kept \in SUBSET Owed(job.size, s) :
         /\ Least(s, Pending)
         /\ job' = [job EXCEPT !.shard = s,
              !.content = [tasks |-> Owed(job.size, s), kept |-> kept,
                           producer |-> producer, contract |-> contract]]
  /\ Continue("rows")
  /\ UNCHANGED <<shardFiles, acceptedFiles, viewFiles, adapterFiles, world>>

(* The engine rolls the next unit; write_shard drops its old receipt. *)
RollShard ==
  /\ pc = "roll"
  /\ \E s \in Pending : \E kept \in SUBSET Owed(job.size, s) :
         /\ Least(s, Pending)
         /\ receipt' = [receipt EXCEPT ![s] = None]
         /\ job' = [job EXCEPT !.shard = s,
              !.content = [tasks |-> Owed(job.size, s), kept |-> kept,
                           producer |-> producer, contract |-> contract]]
  /\ Continue("rows")
  /\ UNCHANGED <<rows, acceptedFiles, viewFiles, adapterFiles, world>>

WriteRows ==
  /\ pc = "rows"
  /\ rows' = [rows EXCEPT ![job.shard] = job.content]
  /\ Continue("receipt")
  /\ UNCHANGED <<receipt, acceptedFiles, viewFiles, adapterFiles, world, job>>

WriteReceipt ==
  /\ pc = "receipt"
  /\ receipt' = [receipt EXCEPT ![job.shard] =
       [digest |-> rows[job.shard], owed |-> Owed(job.size, job.shard),
        contract |-> contract]]
  /\ job' = [job EXCEPT !.forced = @ \ {job.shard}, !.rolled = TRUE,
                        !.content = None]
  /\ Continue("roll")
  /\ UNCHANGED <<rows, acceptedFiles, viewFiles, adapterFiles, world>>

(* Nothing left, or the budget is spent after at least one unit. *)
EndRun ==
  /\ pc = "roll" /\ (Pending = {} \/ job.rolled)
  /\ End
  /\ UNCHANGED <<Files, world>>

-----------------------------------------------------------------------------
(***************************************************************************)
(* multidistill finalize: pool the complete shards, then either publish a  *)
(* certified corpus or leave none, with the reason.                        *)
(***************************************************************************)
Pool(size) == Shards(size) \ Incomplete(size)

Accepted(size) ==
  {k \in UNION {{[task |-> t, producer |-> rows[s].producer,
                   contract |-> rows[s].contract] : t \in rows[s].kept} :
                s \in Pool(size)} : k.contract = contract}

Census(size) == [s \in Shards(size) |-> receipt[s]]

(* Defective variant of StartFinalize: the quota only warns. *)
StartFinalizeShort(size, partial) ==
  /\ pc = "idle"
  /\ Incomplete(size) = {} \/ partial
  /\ OneProducer(Accepted(size))
  /\ job' = [Idle EXCEPT !.size = size,
                        !.content = [corpus |-> Accepted(size), contract |-> contract]]
  /\ IF Incomplete(size) = {} THEN Continue("void") ELSE Continue("retract")
  /\ UNCHANGED Files

StartFinalize(size, partial) ==
  /\ pc = "idle"
  /\ Incomplete(size) = {} \/ partial
  /\ OneProducer(Accepted(size))
  /\ job' = [Idle EXCEPT !.size = size,
                        !.content = [corpus |-> Accepted(size), contract |-> contract]]
  /\ IF Incomplete(size) = {} /\ Cardinality(Accepted(size)) >= Quota
       THEN Continue("void") ELSE Continue("retract")
  /\ UNCHANGED Files

ChainFinalize ==
  /\ ~ DistillDone
  /\ StartFinalize(DefaultSize, FALSE)
  /\ UNCHANGED world

HandFinalize ==
  /\ \E size \in Sizes, partial \in BOOLEAN : StartFinalize(size, partial)
  /\ Disturb

(* The four file operations of a finalize that passes ... *)
VoidFailure ==
  /\ pc = "void"
  /\ failure' = None
  /\ Continue("decertify")
  /\ UNCHANGED <<shardFiles, corpus, certificate, viewFiles, adapterFiles, world, job>>

Decertify ==
  /\ pc = "decertify"
  /\ certificate' = None
  /\ Continue("corpus")
  /\ UNCHANGED <<shardFiles, corpus, failure, viewFiles, adapterFiles, world, job>>

WriteCorpus ==
  /\ pc = "corpus"
  /\ corpus' = job.content.corpus
  /\ Continue("certify")
  /\ UNCHANGED <<shardFiles, certificate, failure, viewFiles, adapterFiles, world, job>>

Certify ==
  /\ pc = "certify"
  /\ certificate' = [digest |-> corpus, census |-> Census(job.size),
                     contract |-> contract]
  /\ published' = published \cup {[corpus |-> corpus, contract |-> contract]}
  /\ End
  /\ UNCHANGED <<shardFiles, corpus, failure, viewFiles, adapterFiles,
                 contract, producer, disturbed>>

(* Defective variant of Retract: only the corpus is removed. *)
RetractKeepsReceipt ==
  /\ pc = "retract"
  /\ Continue("clear")
  /\ UNCHANGED <<Files, world, job>>

(* ... and the three of one that does not (clear_accepted_corpus first). *)
Retract ==
  /\ pc = "retract"
  /\ certificate' = None
  /\ Continue("clear")
  /\ UNCHANGED <<shardFiles, corpus, failure, viewFiles, adapterFiles, world, job>>

ClearCorpus ==
  /\ pc = "clear"
  /\ corpus' = None
  /\ Continue("explain")
  /\ UNCHANGED <<shardFiles, certificate, failure, viewFiles, adapterFiles, world, job>>

WriteFailure ==
  /\ pc = "explain"
  /\ failure' = IF Cardinality(job.content.corpus) < Quota
                  THEN "quota_miss" ELSE "incomplete_shards"
  /\ End
  /\ UNCHANGED <<shardFiles, corpus, certificate, viewFiles, adapterFiles, world>>

-----------------------------------------------------------------------------
(***************************************************************************)
(* suite.datasets: build the views of a usable corpus (the row range and   *)
(* the terminal weight may still refuse it), then write_view_corpus.       *)
(***************************************************************************)
(* Defective variant of StartViews: the corpus is read, not its receipt. *)
StartViewsUncertified ==
  /\ pc = "idle" /\ Whole(corpus)
  /\ job' = [Idle EXCEPT !.content = [corpus |-> corpus, contract |-> contract]]
  /\ Continue("unreport")
  /\ UNCHANGED Files

StartViews ==
  /\ pc = "idle" /\ Usable
  /\ job' = [Idle EXCEPT !.content = [corpus |-> corpus, contract |-> contract]]
  /\ Continue("unreport")
  /\ UNCHANGED Files

ChainViews ==
  /\ DistillDone /\ ~ ViewsDone
  /\ StartViews
  /\ UNCHANGED world

HandViews == StartViews /\ Disturb

DropReport ==
  /\ pc = "unreport"
  /\ report' = None
  /\ Continue("unview")
  /\ UNCHANGED <<shardFiles, acceptedFiles, meta, views, adapterFiles, world, job>>

(* Defective variant of DropViews: the rows of the last build stay. *)
KeepViews ==
  /\ pc = "unview"
  /\ Continue("meta")
  /\ UNCHANGED <<Files, world, job>>

DropViews ==
  /\ pc = "unview"
  /\ views' = None
  /\ Continue("meta")
  /\ UNCHANGED <<shardFiles, acceptedFiles, meta, report, adapterFiles, world, job>>

WriteMeta ==
  /\ pc = "meta"
  /\ meta' = job.content
  /\ Continue("report")
  /\ UNCHANGED <<shardFiles, acceptedFiles, report, views, adapterFiles, world, job>>

WriteReport ==
  /\ pc = "report"
  /\ report' = job.content
  /\ Continue("views")
  /\ UNCHANGED <<shardFiles, acceptedFiles, meta, views, adapterFiles, world, job>>

WriteViews ==
  /\ pc = "views"
  /\ views' = job.content
  /\ End
  /\ UNCHANGED <<shardFiles, acceptedFiles, meta, report, adapterFiles, world>>

-----------------------------------------------------------------------------
(***************************************************************************)
(* sft: train on the views, save the adapter, attest it.                   *)
(***************************************************************************)
StartTraining ==
  /\ pc = "idle" /\ TrainerAccepts
  /\ job' = [Idle EXCEPT !.content = [rows |-> views, meta |-> meta]]
  /\ Continue("weights")
  /\ UNCHANGED Files

ChainTraining ==
  /\ DistillDone /\ ViewsDone /\ ~ SftDone
  /\ StartTraining
  /\ UNCHANGED world

HandTraining == StartTraining /\ Disturb

SaveWeights ==
  /\ pc = "weights"
  /\ weights' = job.content.rows
  /\ Continue("config")
  /\ UNCHANGED <<shardFiles, acceptedFiles, viewFiles, config, manifest, world, job>>

SaveConfig ==
  /\ pc = "config"
  /\ config' = TRUE
  /\ Continue("attest")
  /\ UNCHANGED <<shardFiles, acceptedFiles, viewFiles, weights, manifest, world, job>>

WriteManifest ==
  /\ pc = "attest"
  /\ manifest' = [inputs |-> job.content, tree |-> <<weights, config>>,
                  contract |-> contract]
  /\ End
  /\ UNCHANGED <<shardFiles, acceptedFiles, viewFiles, weights, config, world>>

-----------------------------------------------------------------------------
(***************************************************************************)
(* The environment.                                                        *)
(***************************************************************************)
Kill ==
  /\ pc # "idle" /\ Disturb /\ End
  /\ UNCHANGED Files

(* Power fails: the process ends and a file loses its tail, its data not   *)
(* yet on the disk.  Only the manifest is synced before its rename.        *)
Truncate ==
  /\ Disturb /\ End
  /\ \/ \E s \in Indexes :
          \/ rows[s] # None /\ rows' = [rows EXCEPT ![s] = Torn]
             /\ UNCHANGED <<receipt, acceptedFiles, viewFiles, adapterFiles>>
          \/ receipt[s] # None /\ receipt' = [receipt EXCEPT ![s] = Torn]
             /\ UNCHANGED <<rows, acceptedFiles, viewFiles, adapterFiles>>
     \/ corpus # None /\ corpus' = Torn
        /\ UNCHANGED <<shardFiles, certificate, failure, viewFiles, adapterFiles>>
     \/ certificate # None /\ certificate' = Torn
        /\ UNCHANGED <<shardFiles, corpus, failure, viewFiles, adapterFiles>>
     \/ meta # None /\ meta' = Torn
        /\ UNCHANGED <<shardFiles, acceptedFiles, report, views, adapterFiles>>
     \/ report # None /\ report' = Torn
        /\ UNCHANGED <<shardFiles, acceptedFiles, meta, views, adapterFiles>>
     \/ views # None /\ views' = Torn
        /\ UNCHANGED <<shardFiles, acceptedFiles, meta, report, adapterFiles>>
     \/ weights # None /\ weights' = Torn
        /\ UNCHANGED <<shardFiles, acceptedFiles, viewFiles, config, manifest>>

(* The build or the card differs from one command to the next. *)
ChangeWorld ==
  /\ pc = "idle" /\ disturbed < MaxDisturb
  /\ disturbed' = disturbed + 1
  /\ contract' \in Contracts /\ producer' \in Producers
  /\ UNCHANGED <<Files, pc, job, published>>

-----------------------------------------------------------------------------

Step == \/ RollShard \/ WriteRows \/ WriteReceipt \/ EndRun
        \/ VoidFailure \/ Decertify \/ WriteCorpus \/ Certify
        \/ Retract \/ ClearCorpus \/ WriteFailure
        \/ DropReport \/ DropViews \/ WriteMeta \/ WriteReport \/ WriteViews
        \/ SaveWeights \/ SaveConfig \/ WriteManifest

Chain == ChainRun \/ ChainFinalize \/ ChainViews \/ ChainTraining

Hand  == HandRun \/ HandFinalize \/ HandViews \/ HandTraining

Next == Step \/ Chain \/ Hand \/ Kill \/ Truncate \/ ChangeWorld

Spec == Init /\ [][Next]_vars

(* A process that runs goes on, and the driver is run again until the      *)
(* distill stage is done; it finalizes after the runs of every stage, so a *)
(* finalize that is possible again and again is tried.                     *)
Resumption == WF_vars(Step) /\ WF_vars(ChainRun) /\ SF_vars(ChainFinalize)

Resumed == Spec /\ Resumption

-----------------------------------------------------------------------------

Lost == {None, Torn}

(* A shard resume takes as done holds the rows of exactly that chunk of    *)
(* the plan, whole, under this contract, whatever was killed, truncated,   *)
(* re-rolled or re-planned before (write_shard, shard_gaps).               *)
CompleteMeansWhole ==
  \A size \in Sizes : \A s \in Shards(size) : Complete(size, s) =>
    /\ Whole(rows[s])
    /\ rows[s].tasks = Owed(size, s)
    /\ rows[s].contract = contract

(* A corpus the view builder may read came of a census of every task of    *)
(* the block, meets the quota, and descends from one producer and this     *)
(* contract (cmd_finalize, require_accepted_corpus).                       *)
CertifiedCorpus ==
  Usable =>
    /\ \A s \in DOMAIN certificate.census : Whole(certificate.census[s])
    /\ UNION {certificate.census[s].owed : s \in DOMAIN certificate.census} = Tasks
    /\ Cardinality(corpus) >= Quota
    /\ OneProducer(corpus)
    /\ \A k \in corpus : k.contract = contract

(* While a failure is on file there is no receipt for a corpus: the two    *)
(* verdicts of finalize never stand together (cmd_finalize).               *)
FailureExcludesReceipt == failure # None => certificate = None

(* The view rows appear after the report that describes them and leave     *)
(* before it changes, so no kill leaves a report next to rows of another   *)
(* build (write_view_corpus).                                              *)
ReportDescribesRows ==
  Whole(report) /\ Whole(views) => report = views

(* An adapter the lock accepts is the one its manifest attests, trained on *)
(* rows whose metadata it names, from a corpus that met the quota and came *)
(* of one producer under this contract (require_training_manifest).        *)
LockedDescent ==
  Lockable =>
    /\ config /\ Whole(weights)
    /\ weights = manifest.inputs.rows
    /\ manifest.inputs.rows = manifest.inputs.meta
    /\ Cardinality(weights.corpus) >= Quota
    /\ OneProducer(weights.corpus)
    /\ \A k \in weights.corpus : k.contract = contract

(* How the files stand for Lineage: the build that stands is the corpus    *)
(* with a certificate over its very bytes, the adapter is the tree that    *)
(* its manifest attests.                                                   *)
Standing ==
  IF Whole(certificate) /\ certificate.digest = corpus
  THEN [corpus |-> corpus, contract |-> certificate.contract] ELSE None
Attested ==
  IF Whole(manifest) /\ manifest.tree = <<weights, config>> THEN weights ELSE None
Registrable ==
  {b \in Builds : Cardinality(b.corpus) >= Quota /\ OneProducer(b.corpus)}

L == INSTANCE Lineage WITH
  Registered <- Registrable,
  Nobody     <- None,
  standing   <- Standing,
  refused    <- failure # None,
  adapter    <- Attested

(* However finalize, the view builder and the trainer are killed, torn and *)
(* repeated: a corpus is replaced only after it was withdrawn, none stands *)
(* with a refusal, and the adapter a lock can accept was trained on a      *)
(* corpus that finalize certified (cmd_finalize, require_views_chain,      *)
(* require_training_manifest).                                             *)
LineagePromise == L!Spec

(* New bytes never come under an old receipt: it is removed before the     *)
(* rows or the corpus it certifies are rewritten (write_shard,             *)
(* cmd_finalize).                                                          *)
NoReceiptWhileRewriting ==
  [][/\ \A s \in Indexes :
          rows'[s] # rows[s] /\ rows'[s] # Torn => receipt[s] = None
     /\ corpus' # corpus /\ corpus' # Torn => certificate = None]_vars

(* Re-invoking is the resume mechanism: when nothing disturbs it any more, *)
(* the stage is done, or every shard of its plan is complete and what they *)
(* hold is no corpus: too few trajectories, or of two producers, which no  *)
(* run rolls again and every finalize refuses (cmd_run, cmd_finalize).     *)
Unfit == ~ OneProducer(Accepted(DefaultSize)) \/ Cardinality(Accepted(DefaultSize)) < Quota

ResumeCompletes == <>[](DistillDone \/ (Incomplete(DefaultSize) = {} /\ Unfit))

(* The driver "never accepts unfinished work as complete": an adapter it   *)
(* skips the sft stage for has the manifest without which no lock accepts  *)
(* it (done_already, stage_receipt; the chain's RESUMABLE rule).           *)
SftDoneIsAttested ==
  pc = "idle" /\ SftDone /\ Whole(weights) => Whole(manifest)
=============================================================================
