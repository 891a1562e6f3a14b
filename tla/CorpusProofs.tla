---------------------------- MODULE CorpusProofs ----------------------------
(***************************************************************************)
(* Proofs about Corpus, for any block of tasks, any shard sizes, any       *)
(* producers and contracts, and any number of disturbances.                *)
(*                                                                         *)
(* None of the properties is inductive as it stands, since an artifact is  *)
(* several files: each invariant adds what the process that writes them    *)
(* has established so far, by the step it is at.                           *)
(***************************************************************************)
EXTENDS Corpus, TLAPS

(* The job is a record of its six fields, and works on units of its plan. *)
JobShape ==
  /\ job = [size |-> job.size, forced |-> job.forced, units |-> job.units,
            rolled |-> job.rolled, shard |-> job.shard, content |-> job.content]
  /\ job.size \in Sizes
  /\ job.units \subseteq Shards(job.size)

(* A receipt on file speaks of one roll. *)
SealedOver(r) ==
  /\ r \in Receipts
  /\ r.digest \in Rolls
  /\ r.digest.tasks = r.owed
  /\ r.digest.contract = r.contract

(* What the roller holds between a roll and its receipt. *)
RollInHand ==
  /\ job.shard \in Indexes
  /\ job.content \in Rolls
  /\ job.content.tasks = Owed(job.size, job.shard)
  /\ job.content.contract = contract

ShardInv ==
  /\ contract \in Contracts /\ producer \in Producers
  /\ DOMAIN rows = Indexes /\ DOMAIN receipt = Indexes
  /\ rows = [s \in Indexes |-> rows[s]] /\ receipt = [s \in Indexes |-> receipt[s]]
  /\ \A s \in Indexes : Whole(receipt[s]) => SealedOver(receipt[s])
  /\ pc \in {"rows", "receipt"} => RollInHand
  /\ pc = "receipt" => rows[job.shard] = job.content
  /\ pc = "rows" => receipt[job.shard] = None

LEMMA DefaultIsASize == DefaultSize \in Sizes
BY CorpusAssumption DEF CorpusAssumption

LEMMA JobShapeInit == Init => JobShape
BY DefaultIsASize DEF Init, Idle, JobShape, Shards

(* Starting a command over units of its plan, and going on with it, keeps  *)
(* the shape of the job.                                                   *)
LEMMA JobShapeStep == JobShape /\ [Next]_vars => JobShape'
<1> SUFFICES ASSUME JobShape, [Next]_vars PROVE JobShape'
  OBVIOUS
<1> USE DefaultIsASize
<1>1. CASE UNCHANGED job
  BY <1>1 DEF JobShape, Shards, Owed
<1>2. CASE End
  BY <1>2 DEF End, Idle, JobShape, Shards
<1>3. ASSUME NEW n \in Sizes, NEW units \in SUBSET Shards(n), NEW forced,
             StartRun(n, units, forced)
      PROVE  JobShape'
  BY <1>3 DEF StartRun, Idle, JobShape
<1>4. CASE RollShard
  BY <1>4 DEF RollShard, JobShape
<1>5. CASE WriteReceipt
  BY <1>5 DEF WriteReceipt, JobShape
<1>6. ASSUME NEW n \in Sizes, NEW partial, StartFinalize(n, partial)
      PROVE  JobShape'
  BY <1>6 DEF StartFinalize, Idle, JobShape, Shards
<1>7. CASE StartViews
  BY <1>7 DEF StartViews, Idle, JobShape, Shards
<1>8. CASE StartTraining
  BY <1>8 DEF StartTraining, Idle, JobShape, Shards
<1>9. CASE Step
  BY <1>1, <1>2, <1>4, <1>5, <1>9
     DEF Step, WriteRows, EndRun, VoidFailure, Decertify, WriteCorpus, Certify,
         Retract, ClearCorpus, WriteFailure, DropReport, DropViews, WriteMeta,
         WriteReport, WriteViews, SaveWeights, SaveConfig, WriteManifest
<1>10. CASE Chain
  BY <1>3, <1>6, <1>7, <1>8, <1>10
     DEF Chain, ChainRun, ChainFinalize, ChainViews, ChainTraining
<1>11. CASE Hand
  <2>1. CASE HandRun
    <3>1. PICK n \in Sizes : \/ StartRun(n, Shards(n), {})
                             \/ \E s \in Shards(n) : StartRun(n, {s}, {s})
      BY <2>1 DEF HandRun
    <3> QED
      BY <1>3, <3>1
  <2> QED
    BY <1>6, <1>7, <1>8, <1>11, <2>1
       DEF Hand, HandFinalize, HandViews, HandTraining
<1>12. CASE Kill \/ Truncate \/ ChangeWorld
  BY <1>1, <1>2, <1>12 DEF Kill, Truncate, ChangeWorld
<1> QED
  BY <1>1, <1>9, <1>10, <1>11, <1>12 DEF Next, vars

-----------------------------------------------------------------------------
(***************************************************************************)
(* Shards.                                                                 *)
(***************************************************************************)
LEMMA ShardInvInit == Init => ShardInv
BY DEF Init, ShardInv, Whole

(* What a shard owes are tasks of the block. *)
LEMMA OwedAreTasks == \A n, s : Owed(n, s) \subseteq Tasks
BY DEF Owed, Tasks

LEMMA ShardInvStep ==
  ASSUME JobShape, ShardInv, [Next]_vars
  PROVE  ShardInv'
<1>1. ASSUME UNCHANGED <<shardFiles, contract, producer>>,
             pc' \notin {"rows", "receipt"}
      PROVE  ShardInv'
  BY <1>1 DEF ShardInv, shardFiles, Whole, SealedOver
<1>2. CASE UNCHANGED vars
  BY <1>2 DEF ShardInv, vars, shardFiles, world, Whole, SealedOver, RollInHand, Owed
<1>3. CASE RollShard
  <2>0. PICK s \in Pending : \E kept \in SUBSET Owed(job.size, s) :
          /\ receipt' = [receipt EXCEPT ![s] = None]
          /\ job' = [job EXCEPT !.shard = s,
               !.content = [tasks |-> Owed(job.size, s), kept |-> kept,
                            producer |-> producer, contract |-> contract]]
    BY <1>3 DEF RollShard
  <2>1. PICK kept \in SUBSET Owed(job.size, s) :
          /\ receipt' = [receipt EXCEPT ![s] = None]
          /\ job' = [job EXCEPT !.shard = s,
               !.content = [tasks |-> Owed(job.size, s), kept |-> kept,
                            producer |-> producer, contract |-> contract]]
          /\ pc' = "rows" /\ rows' = rows
          /\ contract' = contract /\ producer' = producer
    BY <1>3, <2>0 DEF RollShard, Continue, world
  <2>2. s \in Indexes
    BY <2>1 DEF Pending, JobShape, Shards
  <2>3. job'.shard = s /\ job'.size = job.size
        /\ job'.content = [tasks |-> Owed(job.size, s), kept |-> kept,
                           producer |-> producer, contract |-> contract]
    BY <2>1 DEF JobShape
  <2>4. job'.content \in Rolls
    BY <2>1, <2>3, OwedAreTasks DEF ShardInv, Rolls
  <2>5. RollInHand'
    BY <2>1, <2>2, <2>3, <2>4 DEF RollInHand, Owed
  <2>6. /\ DOMAIN receipt' = Indexes
        /\ receipt'[s] = None
        /\ \A t \in Indexes : t # s => receipt'[t] = receipt[t]
    BY <2>1, <2>2 DEF ShardInv
  <2> QED
    BY <2>1, <2>2, <2>3, <2>5, <2>6 DEF ShardInv, Whole, SealedOver
<1>4. CASE WriteRows
  <2>1. /\ pc = "rows" /\ pc' = "receipt" /\ job' = job /\ receipt' = receipt
        /\ contract' = contract /\ producer' = producer
        /\ rows' = [rows EXCEPT ![job.shard] = job.content]
    BY <1>4 DEF WriteRows, Continue, world
  <2>2. RollInHand'
    BY <2>1 DEF ShardInv, RollInHand, Owed
  <2>3. DOMAIN rows' = Indexes
        /\ rows'[job.shard] = job.content
    BY <2>1 DEF ShardInv, RollInHand
  <2> QED
    BY <2>1, <2>2, <2>3 DEF ShardInv, Whole, SealedOver
<1>5. CASE WriteReceipt
  <2> DEFINE new == [digest |-> rows[job.shard], owed |-> Owed(job.size, job.shard),
                     contract |-> contract]
  <2>1. /\ pc = "receipt" /\ pc' = "roll" /\ rows' = rows
        /\ contract' = contract /\ producer' = producer
        /\ receipt' = [receipt EXCEPT ![job.shard] = new]
    BY <1>5 DEF WriteReceipt, Continue, world
  <2>2. SealedOver(new) /\ job.shard \in Indexes
    BY <2>1, OwedAreTasks DEF ShardInv, RollInHand, SealedOver, Receipts
  <2>3. /\ DOMAIN receipt' = Indexes
        /\ receipt'[job.shard] = new
        /\ \A t \in Indexes : t # job.shard => receipt'[t] = receipt[t]
    BY <2>1, <2>2 DEF ShardInv
  <2>4. \A t \in Indexes : Whole(receipt'[t]) => SealedOver(receipt'[t])
    BY <2>2, <2>3 DEF ShardInv
  <2> QED
    BY <2>1, <2>3, <2>4 DEF ShardInv, Whole, SealedOver
<1>6. CASE Truncate
  <2>1. pc' = "idle" /\ contract' = contract /\ producer' = producer
    BY <1>6 DEF Truncate, Disturb, End
  <2>2. CASE UNCHANGED shardFiles
    BY <1>1, <2>1, <2>2
  <2>3. ASSUME NEW s \in Indexes, rows' = [rows EXCEPT ![s] = Torn], receipt' = receipt
        PROVE  ShardInv'
    BY <2>1, <2>3 DEF ShardInv, Whole, SealedOver
  <2>4. ASSUME NEW s \in Indexes, receipt' = [receipt EXCEPT ![s] = Torn], rows' = rows
        PROVE  ShardInv'
    BY <2>1, <2>4 DEF ShardInv, Whole, SealedOver
  <2> QED
    BY <1>6, <2>2, <2>3, <2>4 DEF Truncate
<1>7. CASE ChangeWorld
  BY <1>7, CorpusAssumption
     DEF ChangeWorld, ShardInv, Files, shardFiles, Whole, SealedOver
<1>8. CASE Step /\ ~ RollShard /\ ~ WriteRows /\ ~ WriteReceipt
  BY <1>1, <1>8
     DEF Step, EndRun, VoidFailure, Decertify, WriteCorpus, Certify, Retract,
         ClearCorpus, WriteFailure, DropReport, DropViews, WriteMeta, WriteReport,
         WriteViews, SaveWeights, SaveConfig, WriteManifest, Continue, End, Files,
         world
<1>9. CASE Chain \/ Hand \/ Kill
  BY <1>1, <1>9
     DEF Chain, ChainRun, ChainFinalize, ChainViews, ChainTraining, Hand, HandRun,
         HandFinalize, HandViews, HandTraining, StartRun, StartFinalize, StartViews,
         StartTraining, Kill, Disturb, Continue, End, Files, world
<1> QED
  BY <1>2, <1>3, <1>4, <1>5, <1>6, <1>7, <1>8, <1>9 DEF Next

THEOREM ShardsAlways == Spec => [](JobShape /\ ShardInv)
<1>1. Init => JobShape /\ ShardInv
  BY JobShapeInit, ShardInvInit
<1>2. JobShape /\ ShardInv /\ [Next]_vars => (JobShape /\ ShardInv)'
  BY JobShapeStep, ShardInvStep
<1> QED
  BY <1>1, <1>2, PTL DEF Spec

(* Complete: a shard resume takes as done holds exactly its chunk of the   *)
(* plan, whole, under this contract, whatever happened before (shard_gaps, *)
(* write_shard).                                                           *)
THEOREM CompleteShardsAreWhole == Spec => []CompleteMeansWhole
<1>1. ShardInv => CompleteMeansWhole
  BY CorpusAssumption
     DEF CorpusAssumption, ShardInv, SealedOver, CompleteMeansWhole, Complete, Shards,
         Whole
<1> QED
  BY <1>1, ShardsAlways, PTL

-----------------------------------------------------------------------------
(***************************************************************************)
(* The verdict of finalize.                                                *)
(***************************************************************************)
VerdictInv ==
  /\ FailureExcludesReceipt
  /\ pc \in {"decertify", "corpus", "certify"} => failure = None
  /\ pc \in {"corpus", "certify", "clear", "explain"} => certificate = None

LEMMA VerdictStep == VerdictInv /\ [Next]_vars => VerdictInv'
<1> SUFFICES ASSUME VerdictInv, [Next]_vars PROVE VerdictInv'
  OBVIOUS
<1> USE DEF VerdictInv, FailureExcludesReceipt
<1>1. ASSUME UNCHANGED acceptedFiles,
             pc' \notin {"decertify", "corpus", "certify", "clear", "explain"}
      PROVE  VerdictInv'
  BY <1>1 DEF acceptedFiles
<1>2. CASE UNCHANGED vars
  BY <1>2 DEF vars, acceptedFiles
<1>3. CASE VoidFailure \/ Decertify \/ WriteCorpus \/ Certify
  BY <1>3 DEF VoidFailure, Decertify, WriteCorpus, Certify, Continue, End
<1>4. CASE Retract \/ ClearCorpus \/ WriteFailure
  BY <1>4 DEF Retract, ClearCorpus, WriteFailure, Continue, End
<1>5. CASE Truncate
  BY <1>5 DEF Truncate, End, acceptedFiles
<1>6. CASE ChangeWorld
  BY <1>6 DEF ChangeWorld, Files, acceptedFiles
<1>7. CASE RollShard \/ WriteRows \/ WriteReceipt \/ EndRun \/ DropReport \/ DropViews
           \/ WriteMeta \/ WriteReport \/ WriteViews \/ SaveWeights \/ SaveConfig
           \/ WriteManifest
  BY <1>1, <1>7
     DEF RollShard, WriteRows, WriteReceipt, EndRun, DropReport, DropViews, WriteMeta,
         WriteReport, WriteViews, SaveWeights, SaveConfig, WriteManifest, Continue,
         End, Files
<1>8. CASE Chain \/ Hand \/ Kill
  BY <1>1, <1>8
     DEF Chain, ChainRun, ChainFinalize, ChainViews, ChainTraining, Hand, HandRun,
         HandFinalize, HandViews, HandTraining, StartRun, StartFinalize, StartViews,
         StartTraining, Kill, Disturb, Continue, End, Files
<1> QED
  BY <1>2, <1>3, <1>4, <1>5, <1>6, <1>7, <1>8 DEF Next, Step

THEOREM VerdictAlways == Spec => []VerdictInv
<1>1. Init => VerdictInv
  BY DEF Init, VerdictInv, FailureExcludesReceipt
<1> QED
  BY <1>1, VerdictStep, PTL DEF Spec

(* A failure on file and a receipt for a corpus never stand together       *)
(* (cmd_finalize, clear_accepted_corpus).                                  *)
THEOREM VerdictsExclude == Spec => []FailureExcludesReceipt
<1>1. VerdictInv => FailureExcludesReceipt
  BY DEF VerdictInv
<1> QED
  BY <1>1, VerdictAlways, PTL

(* Rows and corpus change only when no receipt certifies them              *)
(* (write_shard, cmd_finalize).                                            *)
THEOREM NothingRewrittenUnderReceipt == Spec => NoReceiptWhileRewriting
<1> DEFINE Guarded ==
      /\ \A s \in Indexes : rows'[s] # rows[s] /\ rows'[s] # Torn => receipt[s] = None
      /\ corpus' # corpus /\ corpus' # Torn => certificate = None
<1>1. ASSUME ShardInv, VerdictInv, [Next]_vars
      PROVE  [Guarded]_vars
  <2>1. CASE WriteRows
    BY <1>1, <2>1 DEF WriteRows, ShardInv, RollInHand, acceptedFiles
  <2>2. CASE WriteCorpus \/ ClearCorpus
    BY <1>1, <2>2 DEF WriteCorpus, ClearCorpus, VerdictInv, shardFiles
  <2>3. CASE Truncate
    BY <1>1, <2>3 DEF Truncate, ShardInv, shardFiles, acceptedFiles
  <2>4. CASE UNCHANGED <<rows, corpus>>
    BY <2>4
  <2>5. Next => WriteRows \/ WriteCorpus \/ ClearCorpus \/ Truncate \/ UNCHANGED <<rows, corpus>>
    BY DEF Next, Step, Chain, ChainRun, ChainFinalize, ChainViews, ChainTraining, Hand,
           HandRun, HandFinalize, HandViews, HandTraining, StartRun, StartFinalize,
           StartViews, StartTraining, Kill, ChangeWorld, RollShard, WriteReceipt,
           EndRun, VoidFailure, Decertify, Certify, Retract, WriteFailure, DropReport,
           DropViews, WriteMeta, WriteReport, WriteViews, SaveWeights, SaveConfig,
           WriteManifest, Files, shardFiles, acceptedFiles
  <2> QED
    BY <1>1, <2>1, <2>2, <2>3, <2>4, <2>5
<1>2. ShardInv /\ VerdictInv /\ [Next]_vars => [Guarded]_vars
  BY <1>1
<1>3. Spec => [][Guarded]_vars
  BY <1>2, ShardsAlways, VerdictAlways, PTL DEF Spec
<1> QED
  BY <1>3 DEF NoReceiptWhileRewriting

-----------------------------------------------------------------------------
(***************************************************************************)
(* The view corpus.                                                        *)
(***************************************************************************)
ViewsInv ==
  /\ ReportDescribesRows
  /\ pc \in {"unview", "meta", "report"} => report = None
  /\ pc \in {"meta", "report", "views"} => views = None
  /\ pc = "views" => report = job.content

LEMMA ViewsStep == ViewsInv /\ [Next]_vars => ViewsInv'
<1> SUFFICES ASSUME ViewsInv, [Next]_vars PROVE ViewsInv'
  OBVIOUS
<1> USE DEF ViewsInv, ReportDescribesRows, Whole
<1>1. ASSUME UNCHANGED viewFiles, pc' \notin {"unview", "meta", "report", "views"}
      PROVE  ViewsInv'
  BY <1>1 DEF viewFiles
<1>2. CASE UNCHANGED vars
  BY <1>2 DEF vars, viewFiles
<1>3. CASE DropReport \/ DropViews \/ WriteMeta \/ WriteReport \/ WriteViews
  BY <1>3 DEF DropReport, DropViews, WriteMeta, WriteReport, WriteViews, Continue, End
<1>4. CASE Truncate
  BY <1>4 DEF Truncate, End, viewFiles
<1>5. CASE ChangeWorld
  BY <1>5 DEF ChangeWorld, Files, viewFiles
<1>6. CASE Step /\ ~ DropReport /\ ~ DropViews /\ ~ WriteMeta /\ ~ WriteReport
           /\ ~ WriteViews
  BY <1>1, <1>6
     DEF Step, RollShard, WriteRows, WriteReceipt, EndRun, VoidFailure, Decertify,
         WriteCorpus, Certify, Retract, ClearCorpus, WriteFailure, SaveWeights,
         SaveConfig, WriteManifest, Continue, End, Files
<1>7. CASE Chain \/ Hand \/ Kill
  BY <1>1, <1>7
     DEF Chain, ChainRun, ChainFinalize, ChainViews, ChainTraining, Hand, HandRun,
         HandFinalize, HandViews, HandTraining, StartRun, StartFinalize, StartViews,
         StartTraining, Kill, Disturb, Continue, End, Files
<1> QED
  BY <1>2, <1>3, <1>4, <1>5, <1>6, <1>7 DEF Next

THEOREM ViewsAlways == Spec => []ViewsInv
<1>1. Init => ViewsInv
  BY DEF Init, ViewsInv, ReportDescribesRows, Whole
<1> QED
  BY <1>1, ViewsStep, PTL DEF Spec

(* No kill, at any step of a rebuild, leaves a report beside rows of       *)
(* another build (write_view_corpus).                                      *)
THEOREM ReportsDescribeTheirRows == Spec => []ReportDescribesRows
<1>1. ViewsInv => ReportDescribesRows
  BY DEF ViewsInv
<1> QED
  BY <1>1, ViewsAlways, PTL

-----------------------------------------------------------------------------
(***************************************************************************)
(* The accepted corpus.                                                    *)
(***************************************************************************)

(* Cutting the block in chunks of any size loses no task (plan_shards). *)
LEMMA PlanCoversBlock ==
  ASSUME NEW n \in Sizes
  PROVE  UNION {Owed(n, s) : s \in Shards(n)} = Tasks
<1>1. n \in Nat /\ n > 0 /\ TaskOrder \in Seq(Tasks)
  BY CorpusAssumption DEF CorpusAssumption
<1>2. Len(TaskOrder) \in Nat /\ DOMAIN TaskOrder = 1..Len(TaskOrder)
  BY <1>1
<1>3. ASSUME NEW i \in 1..Len(TaskOrder)
      PROVE  \E s \in Shards(n) : TaskOrder[i] \in Owed(n, s)
  <2> DEFINE s == (i - 1) \div n
  <2>1. s \in Nat /\ s * n <= i - 1 /\ i - 1 < s * n + n
    BY <1>1, <1>2
  <2>2. s <= i - 1
    <3>1. s <= s * n
      BY <1>1, <2>1
    <3> QED
      BY <2>1, <3>1, <1>1, <1>2
  <2>3. s \in Indexes
    BY <1>2, <2>1, <2>2 DEF Indexes
  <2>4. (s + 1) * n = s * n + n
    BY <1>1, <2>1
  <2>5. s * n < i /\ i <= (s + 1) * n
    BY <1>1, <1>2, <2>1, <2>4
  <2> HIDE DEF s
  <2>6. TaskOrder[i] \in Owed(n, s)
    BY <1>2, <2>5 DEF Owed
  <2> QED
    BY <2>3, <2>6 DEF Shards
<1> QED
  BY <1>2, <1>3, OwedAreTasks DEF Tasks

(* What finalize registers: enough trajectories, one producer, this        *)
(* contract.                                                               *)
Registered(kept, c) ==
  /\ Cardinality(kept) >= Quota
  /\ OneProducer(kept)
  /\ \A k \in kept : k.contract = c

(* A certificate binds a registered corpus to a census of the whole block. *)
Certifies(cert) ==
  /\ \A s \in DOMAIN cert.census : Whole(cert.census[s])
  /\ UNION {cert.census[s].owed : s \in DOMAIN cert.census} = Tasks
  /\ Registered(cert.digest, cert.contract)

Publishing == pc \in {"void", "decertify", "corpus", "certify"}

CertInv ==
  /\ Whole(certificate) => Certifies(certificate)
  /\ Publishing => Incomplete(job.size) = {} /\ Registered(job.content.corpus, contract)
  /\ pc = "certify" => corpus = job.content.corpus

LEMMA StartFinalizeCertified ==
  ASSUME CertInv, contract' = contract,
         NEW n \in Sizes, NEW partial, StartFinalize(n, partial)
  PROVE  CertInv'
<1>1. /\ certificate' = certificate /\ pc' \in {"void", "retract"}
      /\ UNCHANGED <<rows, receipt>>
  BY DEF StartFinalize, Continue, Files, acceptedFiles, shardFiles
<1>2. job'.size = n /\ job'.content.corpus = Accepted(n)
  BY DEF StartFinalize, Idle
<1>3. pc' = "void" => Incomplete(n) = {} /\ Cardinality(Accepted(n)) >= Quota
  BY DEF StartFinalize, Continue
<1>4. OneProducer(Accepted(n)) /\ \A k \in Accepted(n) : k.contract = contract
  BY DEF StartFinalize, Accepted
<1>5. Incomplete(job.size)' = Incomplete(n)
  BY <1>1, <1>2 DEF Incomplete, Complete, Shards, Owed
<1>6. CASE pc' = "void"
  <2>1. (Incomplete(job.size) = {} /\ Registered(job.content.corpus, contract))'
    BY <1>2, <1>3, <1>4, <1>5, <1>6 DEF Registered, OneProducer
  <2> QED
    BY <1>1, <1>6, <2>1 DEF CertInv, Certifies, Registered, Whole, OneProducer
<1>7. CASE pc' = "retract"
  BY <1>1, <1>7 DEF CertInv, Publishing, Certifies, Registered, Whole, OneProducer
<1> QED
  BY <1>1, <1>6, <1>7

LEMMA CertifyCertified ==
  ASSUME JobShape, CertInv, Certify
  PROVE  CertInv'
<1>1. /\ certificate' = [digest |-> corpus, census |-> Census(job.size), contract |-> contract]
      /\ pc = "certify" /\ pc' = "idle"
  BY DEF Certify, End
<1>2. Registered(certificate'.digest, certificate'.contract)
  BY <1>1 DEF CertInv, Publishing
<1>3. \A s \in Shards(job.size) : Whole(receipt[s]) /\ receipt[s].owed = Owed(job.size, s)
  BY <1>1 DEF CertInv, Publishing, Incomplete, Complete
<1>4. /\ DOMAIN certificate'.census = Shards(job.size)
      /\ \A s \in Shards(job.size) : certificate'.census[s] = receipt[s]
  BY <1>1 DEF Census
<1>5. UNION {certificate'.census[s].owed : s \in DOMAIN certificate'.census} = Tasks
  <2>1. \A s \in Shards(job.size) : certificate'.census[s].owed = Owed(job.size, s)
    BY <1>3, <1>4
  <2>2. UNION {Owed(job.size, s) : s \in Shards(job.size)} = Tasks
    BY PlanCoversBlock DEF JobShape
  <2> QED
    BY <1>4, <2>1, <2>2
<1>6. \A s \in DOMAIN certificate'.census : Whole(certificate'.census[s])
  BY <1>3, <1>4 DEF Whole
<1>7. Certifies(certificate')
  BY <1>2, <1>5, <1>6 DEF Certifies
<1> QED
  BY <1>1, <1>7 DEF CertInv, Publishing, Certifies, Registered, Whole, OneProducer

LEMMA CertStep ==
  ASSUME JobShape, CertInv, [Next]_vars
  PROVE  CertInv'
<1>1. ASSUME certificate' = certificate, ~ Publishing'
      PROVE  CertInv'
  BY <1>1 DEF CertInv, Publishing, Certifies, Registered, Whole, OneProducer
<1>2. ASSUME certificate' \in Lost, ~ Publishing'
      PROVE  CertInv'
  BY <1>2 DEF CertInv, Publishing, Whole, Lost
<1>3. ASSUME certificate' \in {certificate, None}, Publishing, Publishing', pc' # "certify",
             UNCHANGED <<rows, receipt, contract, job>>
      PROVE  CertInv'
  <2>1. Incomplete(job.size)' = Incomplete(job.size)
    BY <1>3 DEF Incomplete, Complete, Shards
  <2>2. Whole(certificate') => Certifies(certificate')
    BY <1>3 DEF CertInv, Whole, Certifies
  <2> QED
    BY <1>3, <2>1, <2>2 DEF CertInv, Certifies, Whole, Registered, OneProducer
<1>4. CASE UNCHANGED vars
  BY <1>4 DEF vars, shardFiles, acceptedFiles, world, CertInv, Publishing, Certifies,
     Registered, Whole, OneProducer, Incomplete, Complete, Shards
<1>5. CASE VoidFailure \/ Decertify
  <2>1. /\ certificate' \in {certificate, None} /\ Publishing /\ Publishing'
        /\ pc' # "certify" /\ UNCHANGED <<rows, receipt, contract, job>>
    BY <1>5 DEF VoidFailure, Decertify, Continue, Publishing, shardFiles, world
  <2> QED
    BY <1>3, <2>1
<1>6. CASE WriteCorpus
  <2>1. /\ pc = "corpus" /\ pc' = "certify" /\ corpus' = job.content.corpus
        /\ UNCHANGED <<rows, receipt, contract, job, certificate>>
    BY <1>6 DEF WriteCorpus, Continue, shardFiles, world
  <2>2. Incomplete(job.size)' = Incomplete(job.size)
    BY <2>1 DEF Incomplete, Complete, Shards
  <2> QED
    BY <2>1, <2>2 DEF CertInv, Publishing, Certifies, Whole, Registered, OneProducer
<1>7. CASE Certify
  BY <1>7, CertifyCertified
<1>8. CASE Retract
  BY <1>2, <1>8 DEF Retract, Continue, Publishing, Lost
<1>9. CASE Step /\ ~ VoidFailure /\ ~ Decertify /\ ~ WriteCorpus /\ ~ Certify /\ ~ Retract
  BY <1>1, <1>9
     DEF Step, RollShard, WriteRows, WriteReceipt, EndRun, ClearCorpus, WriteFailure,
         DropReport, DropViews, WriteMeta, WriteReport, WriteViews, SaveWeights,
         SaveConfig, WriteManifest, Continue, End, Files, acceptedFiles, Publishing
<1>10. CASE ChainFinalize \/ HandFinalize
  BY <1>10, StartFinalizeCertified, DefaultIsASize
     DEF ChainFinalize, HandFinalize, Disturb, world
<1>11. CASE ChainRun \/ ChainViews \/ ChainTraining \/ HandRun \/ HandViews \/ HandTraining
  BY <1>1, <1>11
     DEF ChainRun, ChainViews, ChainTraining, HandRun, HandViews, HandTraining, StartRun,
         StartViews, StartTraining, Continue, Files, acceptedFiles, Publishing
<1>12. CASE Kill \/ Truncate
  BY <1>1, <1>2, <1>12
     DEF Kill, Truncate, End, Files, acceptedFiles, Publishing, Lost
<1>13. CASE ChangeWorld
  BY <1>1, <1>13 DEF ChangeWorld, Files, acceptedFiles, Publishing
<1> QED
  BY <1>4, <1>5, <1>6, <1>7, <1>8, <1>9, <1>10, <1>11, <1>12, <1>13
     DEF Next, Chain, Hand

THEOREM CertAlways == Spec => []CertInv
<1>1. Init => CertInv
  BY DEF Init, CertInv, Whole, Publishing
<1>2. JobShape /\ CertInv /\ [Next]_vars => CertInv'
  BY CertStep
<1> QED
  BY <1>1, <1>2, ShardsAlways, PTL DEF Spec

(* A corpus the view builder may read came of a census of the whole block, *)
(* meets the quota, and descends from one producer and this contract       *)
(* (cmd_finalize, build_accepted_receipt, accepted_corpus_gaps).           *)
THEOREM CorpusIsCertified == Spec => []CertifiedCorpus
<1>1. CertInv => CertifiedCorpus
  BY DEF CertInv, CertifiedCorpus, Usable, Certifies, Registered
<1> QED
  BY <1>1, CertAlways, PTL

-----------------------------------------------------------------------------
(***************************************************************************)
(* The adapter.                                                            *)
(***************************************************************************)
Descended(build) == Registered(build.corpus, build.contract)

BuildingViews == pc \in {"unreport", "unview", "meta", "report", "views"}
Training      == pc \in {"weights", "config", "attest"}

AdapterInv ==
  /\ Whole(meta) => Descended(meta)
  /\ BuildingViews => Descended(job.content)
  /\ Training => /\ job.content.rows = job.content.meta
                 /\ Whole(job.content.rows) /\ Descended(job.content.rows)
                 /\ job.content.rows.contract = contract
  /\ pc \in {"config", "attest"} => weights = job.content.rows
  /\ pc = "attest" => config
  /\ Whole(manifest) =>
       /\ manifest.tree = <<manifest.inputs.rows, TRUE>>
       /\ manifest.inputs.rows = manifest.inputs.meta
       /\ Whole(manifest.inputs.rows) /\ Descended(manifest.inputs.rows)
       /\ manifest.inputs.rows.contract = manifest.contract

(* config is a Boolean: there is an adapter_config.json or there is none. *)
ConfigOK == config \in BOOLEAN

LEMMA ConfigStep == ConfigOK /\ [Next]_vars => ConfigOK'
BY DEF ConfigOK, Next, Step, Chain, ChainRun, ChainFinalize, ChainViews, ChainTraining, Hand,
       HandRun, HandFinalize, HandViews, HandTraining, StartRun, StartFinalize,
       StartViews, StartTraining, Kill, Truncate, ChangeWorld, RollShard, WriteRows,
       WriteReceipt, EndRun, VoidFailure, Decertify, WriteCorpus, Certify, Retract,
       ClearCorpus, WriteFailure, DropReport, DropViews, WriteMeta, WriteReport,
       WriteViews, SaveWeights, SaveConfig, WriteManifest, Files, adapterFiles, vars

LEMMA AdapterStep ==
  ASSUME AdapterInv, CertInv, ViewsInv, ConfigOK, [Next]_vars
  PROVE  AdapterInv'
<1> USE DEF AdapterInv, BuildingViews, Training, Descended, Registered, OneProducer, Whole
<1>1. ASSUME meta' = meta \/ meta' \in Lost, manifest' = manifest,
             ~ BuildingViews', ~ Training'
      PROVE  AdapterInv'
  BY <1>1 DEF Lost
<1>2. CASE UNCHANGED vars
  BY <1>2 DEF vars, viewFiles, adapterFiles, world
<1>3. CASE StartViews /\ contract' = contract
  <2>1. /\ pc' = "unreport" /\ job'.content = [corpus |-> corpus, contract |-> contract]
        /\ UNCHANGED <<meta, manifest>>
    BY <1>3 DEF StartViews, Idle, Continue, Files, viewFiles, adapterFiles
  <2>2. Registered(corpus, contract)
    BY <1>3 DEF StartViews, Usable, CertInv, Certifies
  <2>3. job'.content.corpus = corpus /\ job'.content.contract = contract
    BY <2>1
  <2>4. Descended(job.content)'
    BY <2>2, <2>3
  <2>5. BuildingViews' /\ ~ Training'
    BY <2>1
  <2>6. /\ (Whole(meta) => Descended(meta))'
        /\ (Whole(manifest) =>
              /\ manifest.tree = <<manifest.inputs.rows, TRUE>>
              /\ manifest.inputs.rows = manifest.inputs.meta
              /\ Whole(manifest.inputs.rows) /\ Descended(manifest.inputs.rows)
              /\ manifest.inputs.rows.contract = manifest.contract)'
    BY <2>1
  <2> QED
    BY <2>1, <2>4, <2>5, <2>6
<1>4. CASE StartTraining /\ contract' = contract
  <2>1. /\ pc' = "weights" /\ job'.content = [rows |-> views, meta |-> meta]
        /\ UNCHANGED <<meta, manifest>>
    BY <1>4 DEF StartTraining, Idle, Continue, Files, viewFiles, adapterFiles
  <2>2. views = meta /\ Whole(views) /\ Descended(meta) /\ meta.contract = contract
    BY <1>4 DEF StartTraining, TrainerAccepts, ViewsInv, ReportDescribesRows
  <2>3. job'.content.rows = views /\ job'.content.meta = meta
    BY <2>1
  <2>4. /\ job'.content.rows = job'.content.meta
        /\ Whole(job.content.rows)' /\ Descended(job.content.rows)'
        /\ job'.content.rows.contract = contract'
    BY <1>4, <2>2, <2>3
  <2>5. ~ BuildingViews' /\ pc' \notin {"config", "attest"}
    BY <2>1
  <2>6. /\ (Whole(meta) => Descended(meta))'
        /\ (Whole(manifest) =>
              /\ manifest.tree = <<manifest.inputs.rows, TRUE>>
              /\ manifest.inputs.rows = manifest.inputs.meta
              /\ Whole(manifest.inputs.rows) /\ Descended(manifest.inputs.rows)
              /\ manifest.inputs.rows.contract = manifest.contract)'
    BY <2>1
  <2> QED
    BY <2>4, <2>5, <2>6
<1>5. CASE DropReport \/ DropViews \/ WriteMeta \/ WriteReport
  <2>1. CASE DropReport \/ DropViews
    BY <2>1 DEF DropReport, DropViews, Continue, adapterFiles, world
  <2>2. CASE WriteMeta
    BY <2>2 DEF WriteMeta, Continue, adapterFiles, world
  <2>3. CASE WriteReport
    BY <2>3 DEF WriteReport, Continue, adapterFiles, world
  <2> QED
    BY <1>5, <2>1, <2>2, <2>3
<1>6. CASE SaveWeights \/ SaveConfig
  BY <1>6 DEF SaveWeights, SaveConfig, Continue, viewFiles, world
<1>7. CASE WriteManifest
  <2>1. /\ pc = "attest" /\ pc' = "idle" /\ meta' = meta
        /\ manifest' = [inputs |-> job.content, tree |-> <<weights, config>>,
                        contract |-> contract]
    BY <1>7 DEF WriteManifest, End, viewFiles
  <2>2. config = TRUE
    BY <2>1
  <2> QED
    BY <2>1, <2>2
<1>8. CASE Truncate
  <2>1. CASE weights' = Torn /\ UNCHANGED <<viewFiles, manifest>>
    BY <1>1, <1>8, <2>1 DEF Truncate, End, viewFiles
  <2> QED
    BY <1>1, <1>8, <2>1 DEF Truncate, End, viewFiles, adapterFiles, Lost
<1>9. CASE ChangeWorld
  BY <1>9 DEF ChangeWorld, Files, viewFiles, adapterFiles
<1>10. CASE RollShard \/ WriteRows \/ WriteReceipt \/ EndRun \/ VoidFailure \/ Decertify
            \/ WriteCorpus \/ Certify \/ Retract \/ ClearCorpus \/ WriteFailure
            \/ WriteViews
  BY <1>1, <1>10
     DEF RollShard, WriteRows, WriteReceipt, EndRun, VoidFailure, Decertify, WriteCorpus,
         Certify, Retract, ClearCorpus, WriteFailure, WriteViews, Continue, End, Files,
         viewFiles, adapterFiles
<1>11. CASE ChainRun \/ HandRun \/ ChainFinalize \/ HandFinalize \/ Kill
  BY <1>1, <1>11
     DEF ChainRun, HandRun, ChainFinalize, HandFinalize, StartRun, StartFinalize, Kill,
         Continue, End, Files, viewFiles, adapterFiles
<1>12. CASE ChainViews \/ HandViews \/ ChainTraining \/ HandTraining
  BY <1>3, <1>4, <1>12
     DEF ChainViews, HandViews, ChainTraining, HandTraining, Disturb, world
<1> QED
  BY <1>2, <1>5, <1>6, <1>7, <1>8, <1>9, <1>10, <1>11, <1>12
     DEF Next, Step, Chain, Hand

(* An adapter the lock accepts is the one its manifest attests, trained on *)
(* the rows of one view build, from a corpus that met the quota and came   *)
(* of one producer under this contract (require_training_manifest).        *)
THEOREM LockedAdapterDescends == Spec => []LockedDescent
<1>1. Init => AdapterInv /\ ConfigOK
  BY DEF Init, ConfigOK, AdapterInv, Whole, BuildingViews, Training
<1>2. AdapterInv /\ CertInv /\ ViewsInv /\ ConfigOK /\ [Next]_vars
        => AdapterInv' /\ ConfigOK'
  BY AdapterStep, ConfigStep
<1>3. AdapterInv => LockedDescent
  BY DEF AdapterInv, LockedDescent, Lockable, Descended, Registered
<1> QED
  BY <1>1, <1>2, <1>3, CertAlways, ViewsAlways, PTL DEF Spec

-----------------------------------------------------------------------------
(***************************************************************************)
(* The corpus keeps the promise of Lineage.                                *)
(***************************************************************************)
(* Whatever a later stage works from was certified once: the standing      *)
(* corpus, the views and the job that builds them, the rows the trainer    *)
(* holds and those the manifest names.                                     *)
LineageInv ==
  /\ Whole(certificate) =>
       [corpus |-> certificate.digest, contract |-> certificate.contract] \in published
  /\ published \subseteq Registrable
  /\ Publishing => job.content.corpus \in SUBSET Trajectories
  /\ BuildingViews => job.content \in published
  /\ Whole(meta) => meta \in published
  /\ Training => job.content.rows \in published
  /\ Whole(manifest) => manifest.inputs.rows \in published

(* Only trajectories of the block are pooled. *)
LEMMA AcceptedAreTrajectories ==
  ASSUME ShardInv, NEW n \in Sizes
  PROVE  Accepted(n) \subseteq Trajectories
<1>1. ASSUME NEW s \in Pool(n)
      PROVE  rows[s] \in Rolls
  <2>1. s \in Indexes /\ Complete(n, s)
    BY <1>1 DEF Pool, Incomplete, Shards
  <2> QED
    BY <2>1 DEF Complete, ShardInv, SealedOver
<1>2. ASSUME NEW s \in Pool(n), NEW t \in rows[s].kept
      PROVE  [task |-> t, producer |-> rows[s].producer, contract |-> rows[s].contract]
               \in Trajectories
  BY <1>1 DEF Rolls, Trajectories
<1> QED
  BY <1>2 DEF Accepted

(* What Certify writes is a certificate of a registrable build.            *)
LEMMA CertifiesABuild ==
  ASSUME JobShape, ShardInv, CertInv, LineageInv, Certify
  PROVE  /\ Whole(certificate')
         /\ certificate'.digest = corpus' /\ certificate'.contract = contract
         /\ [corpus |-> corpus, contract |-> contract] \in Registrable
<1>1. /\ certificate' = [digest |-> corpus, census |-> Census(job.size), contract |-> contract]
      /\ pc = "certify" /\ corpus' = corpus
  BY DEF Certify
<1>2. /\ corpus \in SUBSET Trajectories /\ Registered(corpus, contract)
      /\ Incomplete(job.size) = {} /\ job.size \in Sizes /\ contract \in Contracts
  BY <1>1 DEF LineageInv, CertInv, Publishing, JobShape, ShardInv
<1>3. Census(job.size) \in [Shards(job.size) -> Receipts]
  <2>1. \A s \in Shards(job.size) : s \in Indexes /\ Complete(job.size, s)
    BY <1>2 DEF Incomplete, Shards
  <2> QED
    BY <2>1 DEF Census, Complete, ShardInv, SealedOver
<1>4. certificate' \in Certificates
  BY <1>1, <1>2, <1>3 DEF Certificates
<1>5. Whole(certificate')
  <2>1. \A cert \in Certificates : cert # None /\ cert # Torn
    BY CorpusAssumption DEF CorpusAssumption
  <2> QED
    BY <1>4, <2>1 DEF Whole
<1> QED
  BY <1>1, <1>2, <1>5 DEF Registrable, Registered, Builds

LEMMA LineageStep ==
  ASSUME JobShape, ShardInv, CertInv, ViewsInv, AdapterInv, LineageInv, [Next]_vars
  PROVE  LineageInv'
<1> USE DEF LineageInv, Publishing, BuildingViews, Training
<1>1. ASSUME published' = published,
             certificate' = certificate \/ certificate' \in Lost,
             meta' = meta \/ meta' \in Lost, manifest' = manifest,
             Publishing' \/ BuildingViews' \/ Training' => job' = job,
             Publishing' => Publishing,
             BuildingViews' => BuildingViews,
             Training' => Training
      PROVE  LineageInv'
  BY <1>1 DEF Lost, Whole
<1>2. CASE UNCHANGED vars
  BY <1>1, <1>2 DEF vars, acceptedFiles, viewFiles, adapterFiles, world
<1>3. ASSUME NEW n \in Sizes, NEW partial, StartFinalize(n, partial), published' = published
      PROVE  LineageInv'
  <2>1. /\ pc' \in {"void", "retract"} /\ job'.content.corpus = Accepted(n)
        /\ UNCHANGED <<certificate, meta, manifest>>
    BY <1>3 DEF StartFinalize, Idle, Continue, Files, acceptedFiles, viewFiles, adapterFiles
  <2> QED
    BY <1>3, <2>1, AcceptedAreTrajectories DEF Whole
<1>4. CASE StartViews /\ published' = published
  <2>1. /\ pc' = "unreport"
        /\ job'.content = [corpus |-> corpus, contract |-> contract]
        /\ UNCHANGED <<certificate, meta, manifest>>
    BY <1>4 DEF StartViews, Idle, Continue, Files, acceptedFiles, viewFiles, adapterFiles
  <2>2. [corpus |-> corpus, contract |-> contract] \in published
    BY <1>4 DEF StartViews, Usable
  <2> QED
    BY <1>4, <2>1, <2>2 DEF Whole
<1>5. CASE StartTraining /\ published' = published
  <2>1. /\ pc' = "weights" /\ job'.content = [rows |-> views, meta |-> meta]
        /\ UNCHANGED <<certificate, meta, manifest>>
    BY <1>5 DEF StartTraining, Idle, Continue, Files, acceptedFiles, viewFiles, adapterFiles
  <2>2. views = meta /\ Whole(meta)
    BY <1>5 DEF StartTraining, TrainerAccepts, ViewsInv, ReportDescribesRows
  <2>3. job'.content.rows \in published
    BY <2>1, <2>2
  <2> QED
    BY <1>5, <2>1, <2>3 DEF Whole
<1>6. CASE Certify
  <2>1. /\ published' = published \cup {[corpus |-> corpus, contract |-> contract]}
        /\ pc' = "idle" /\ corpus' = corpus /\ UNCHANGED <<meta, manifest>>
    BY <1>6 DEF Certify, End, viewFiles, adapterFiles
  <2>2. /\ certificate'.digest = corpus /\ certificate'.contract = contract
        /\ [corpus |-> corpus, contract |-> contract] \in Registrable
    BY <1>6, <2>1, CertifiesABuild
  <2>3. (published \subseteq Registrable)'
    BY <2>1, <2>2 DEF Registrable, OneProducer
  <2> QED
    BY <2>1, <2>2, <2>3 DEF Whole
<1>7. CASE WriteMeta
  BY <1>7 DEF WriteMeta, Continue, acceptedFiles, adapterFiles, world, Whole
<1>8. CASE WriteManifest
  <2>1. /\ pc = "attest" /\ pc' = "idle" /\ manifest'.inputs = job.content
        /\ UNCHANGED <<certificate, meta, published>>
    BY <1>8 DEF WriteManifest, End, acceptedFiles, viewFiles, world
  <2> QED
    BY <2>1 DEF Whole
<1>9. CASE Truncate
  <2>1. published' = published /\ pc' = "idle"
    BY <1>9 DEF Truncate, Disturb, End
  <2>2. /\ certificate' = certificate \/ certificate' \in Lost
        /\ meta' = meta \/ meta' \in Lost
        /\ manifest' = manifest
    BY <1>9 DEF Truncate, acceptedFiles, viewFiles, adapterFiles, Lost
  <2> QED
    BY <1>1, <2>1, <2>2
<1>10. CASE VoidFailure \/ Decertify \/ WriteCorpus \/ Retract \/ ClearCorpus \/ WriteFailure
  BY <1>1, <1>10
     DEF VoidFailure, Decertify, WriteCorpus, Retract, ClearCorpus, WriteFailure,
         Continue, End, viewFiles, adapterFiles, world, Lost
<1>11. CASE RollShard \/ WriteRows \/ WriteReceipt \/ EndRun
  BY <1>1, <1>11
     DEF RollShard, WriteRows, WriteReceipt, EndRun, Continue, End, Files,
         acceptedFiles, viewFiles, adapterFiles, world
<1>12. CASE DropReport \/ DropViews \/ WriteReport \/ WriteViews \/ SaveWeights \/ SaveConfig
  BY <1>1, <1>12
     DEF DropReport, DropViews, WriteReport, WriteViews, SaveWeights, SaveConfig,
         Continue, End, acceptedFiles, viewFiles, adapterFiles, world
<1>13. CASE ChainRun \/ HandRun \/ Kill \/ ChangeWorld
  BY <1>1, <1>13
     DEF ChainRun, HandRun, Kill, ChangeWorld, StartRun, Disturb, Continue, End, Files,
         acceptedFiles, viewFiles, adapterFiles, world
<1>14. CASE ChainFinalize \/ HandFinalize
  BY <1>3, <1>14, DefaultIsASize DEF ChainFinalize, HandFinalize, Disturb, world
<1>15. CASE ChainViews \/ HandViews \/ ChainTraining \/ HandTraining
  BY <1>4, <1>5, <1>15
     DEF ChainViews, HandViews, ChainTraining, HandTraining, Disturb, world
<1> QED
  BY <1>2, <1>6, <1>7, <1>8, <1>9, <1>10, <1>11, <1>12, <1>13, <1>14, <1>15
     DEF Next, Step, Chain, Hand

(* The adapter that can be locked changes only to none, or from none to    *)
(* one trained on a published build.                                       *)
LEMMA AttestedStep ==
  ASSUME AdapterInv, LineageInv, [Next]_vars
  PROVE  \/ Attested' \in {Attested, None}
         \/ Attested = None /\ Attested' \in published
<1>1. CASE UNCHANGED adapterFiles
  BY <1>1 DEF adapterFiles, Attested, Whole
<1>2. Whole(manifest) => /\ manifest.tree = <<manifest.inputs.rows, TRUE>>
                         /\ Whole(manifest.inputs.rows)
                         /\ manifest.inputs.rows \in published
  BY DEF AdapterInv, LineageInv
<1>3. CASE manifest' = manifest
  <2>1. manifest.tree = <<weights, config>> /\ Whole(manifest)
          => weights = manifest.inputs.rows /\ weights \in published
    BY <1>2
  <2>2. manifest.tree = <<weights', config'>> /\ Whole(manifest)
          => weights' = manifest.inputs.rows /\ weights' \in published
    BY <1>2
  <2>3. Attested \in {manifest.inputs.rows, None}
    BY <2>1 DEF Attested
  <2>4. Attested' # None => Attested' = manifest.inputs.rows /\ Attested' \in published
    BY <1>3, <2>2 DEF Attested, Whole
  <2> QED
    BY <2>3, <2>4
<1>4. CASE WriteManifest
  <2>1. /\ manifest' = [inputs |-> job.content, tree |-> <<weights, config>>,
                        contract |-> contract]
        /\ weights' = weights /\ config' = config
    BY <1>4 DEF WriteManifest
  <2>2. weights = job.content.rows /\ weights \in published
    BY <1>4 DEF WriteManifest, AdapterInv, LineageInv, Training
  <2>3. Attested' \in {weights, None}
    BY <2>1 DEF Attested
  <2>4. Attested \in {weights, None}
    BY DEF Attested
  <2> QED
    BY <2>2, <2>3, <2>4
<1>5. Next => WriteManifest \/ manifest' = manifest
  BY DEF Next, Step, Chain, ChainRun, ChainFinalize, ChainViews, ChainTraining, Hand,
         HandRun, HandFinalize, HandViews, HandTraining, StartRun, StartFinalize,
         StartViews, StartTraining, Kill, Truncate, ChangeWorld, RollShard, WriteRows,
         WriteReceipt, EndRun, VoidFailure, Decertify, WriteCorpus, Certify, Retract,
         ClearCorpus, WriteFailure, DropReport, DropViews, WriteMeta, WriteReport,
         WriteViews, SaveWeights, SaveConfig, Files, adapterFiles
<1> QED
  BY <1>1, <1>3, <1>4, <1>5 DEF vars

LEMMA LineageRefined ==
  ASSUME JobShape, ShardInv, VerdictInv, CertInv, AdapterInv, LineageInv, [Next]_vars
  PROVE  [L!Next]_(L!vars)
<1> USE DEF L!Next, L!vars
<1>1. CASE UNCHANGED <<acceptedFiles, published>>
  <2>1. UNCHANGED <<published, Standing, failure # None>>
    BY <1>1 DEF acceptedFiles, Standing, Whole
  <2>2. CASE Attested' = Attested
    BY <2>1, <2>2
  <2>3. CASE Attested' = None
    BY <2>1, <2>3 DEF L!Discard
  <2>4. CASE Attested = None /\ Attested' \in published
    BY <2>1, <2>4 DEF L!Attest
  <2> QED
    BY <2>2, <2>3, <2>4, AttestedStep
<1>2. ASSUME UNCHANGED <<failure, published, adapterFiles>>, Standing' \in {Standing, None}
      PROVE  [L!Next]_(L!vars)
  <2>1. UNCHANGED <<published, failure # None, Attested>>
    BY <1>2 DEF adapterFiles, Attested, Whole
  <2> QED
    BY <1>2, <2>1 DEF L!Withdraw
<1>3. CASE Certify
  <2>1. /\ certificate = None /\ failure = None /\ failure' = failure /\ corpus' = corpus
        /\ published' = published \cup {[corpus |-> corpus, contract |-> contract]}
        /\ UNCHANGED adapterFiles
    BY <1>3 DEF Certify, VerdictInv
  <2>2. Standing = None /\ UNCHANGED <<failure # None, Attested>>
    BY <2>1 DEF Standing, Whole, adapterFiles, Attested
  <2>3. /\ Standing' = [corpus |-> corpus, contract |-> contract]
        /\ Standing' \in Registrable
    BY <1>3, <2>1, CertifiesABuild DEF Standing, Whole
  <2>4. published' = published \cup {Standing'}
    BY <2>1, <2>3
  <2> QED
    BY <2>1, <2>2, <2>3, <2>4 DEF L!Publish
<1>4. CASE Decertify \/ Retract
  <2>1. certificate' = None /\ UNCHANGED <<failure, published, adapterFiles>>
    BY <1>4 DEF Decertify, Retract, world
  <2> QED
    BY <1>2, <2>1 DEF Standing, Whole
<1>5. CASE WriteCorpus \/ ClearCorpus
  <2>1. certificate = None /\ UNCHANGED <<certificate, failure, published, adapterFiles>>
    BY <1>5 DEF WriteCorpus, ClearCorpus, VerdictInv, world
  <2> QED
    BY <1>2, <2>1 DEF Standing, Whole
<1>6. CASE VoidFailure \/ WriteFailure
  <2>1. /\ UNCHANGED <<corpus, certificate, published, adapterFiles>>
        /\ failure' # failure => certificate = None
    BY <1>6 DEF VoidFailure, WriteFailure, VerdictInv, FailureExcludesReceipt, world
  <2>2. UNCHANGED <<Standing, published, Attested>>
    BY <2>1 DEF Standing, Whole, Attested, adapterFiles
  <2>3. CASE (failure # None)' = (failure # None)
    BY <2>2, <2>3
  <2>4. CASE (failure # None)' = ~ (failure # None)
    <3>1. Standing = None
      BY <2>1, <2>4 DEF Standing, Whole
    <3> QED
      BY <2>2, <2>4, <3>1 DEF L!Reconsider
  <2> QED
    BY <2>3, <2>4
<1>7. CASE Truncate
  <2>1. published' = published /\ failure' = failure
    BY <1>7 DEF Truncate, Disturb, acceptedFiles
  <2>2. CASE UNCHANGED acceptedFiles
    BY <1>1, <2>1, <2>2
  <2>3. CASE corpus' = Torn /\ UNCHANGED <<certificate, adapterFiles>>
    <3>1. Whole(certificate) => certificate.digest \in SUBSET Trajectories
      BY DEF LineageInv, Registrable, Builds
    <3>2. Whole(certificate) => certificate.digest # Torn
      BY <3>1, CorpusAssumption DEF CorpusAssumption
    <3>3. Standing' = None
      BY <2>3, <3>2 DEF Standing, Whole
    <3> QED
      BY <1>2, <2>1, <2>3, <3>3
  <2>4. CASE certificate' = Torn /\ UNCHANGED adapterFiles
    BY <1>2, <2>1, <2>4 DEF Standing, Whole
  <2> QED
    BY <1>7, <2>2, <2>3, <2>4 DEF Truncate
<1>8. CASE RollShard \/ WriteRows \/ WriteReceipt \/ EndRun \/ DropReport \/ DropViews
           \/ WriteMeta \/ WriteReport \/ WriteViews \/ SaveWeights \/ SaveConfig
           \/ WriteManifest
  BY <1>1, <1>8
     DEF RollShard, WriteRows, WriteReceipt, EndRun, DropReport, DropViews, WriteMeta,
         WriteReport, WriteViews, SaveWeights, SaveConfig, WriteManifest, Files, world
<1>9. CASE Chain \/ Hand \/ Kill \/ ChangeWorld
  BY <1>1, <1>9
     DEF Chain, ChainRun, ChainFinalize, ChainViews, ChainTraining, Hand, HandRun,
         HandFinalize, HandViews, HandTraining, StartRun, StartFinalize, StartViews,
         StartTraining, Kill, ChangeWorld, Disturb, Files, world
<1>10. CASE UNCHANGED vars
  BY <1>1, <1>10 DEF vars, world
<1> QED
  BY <1>3, <1>4, <1>5, <1>6, <1>7, <1>8, <1>9, <1>10 DEF Next, Step

(* Corpus implements Lineage: whatever is killed, torn, repeated or forced, *)
(* a corpus is replaced only after it was withdrawn, none stands with a    *)
(* refusal, and an adapter a lock can accept was trained on a corpus that  *)
(* finalize certified (cmd_finalize, write_view_corpus,                    *)
(* require_training_manifest).                                             *)
THEOREM CorpusKeepsItsPromise == Spec => LineagePromise
<1> DEFINE IInv == /\ JobShape /\ ShardInv /\ VerdictInv /\ CertInv /\ ViewsInv
                   /\ AdapterInv /\ ConfigOK /\ LineageInv
<1>1. Init => AdapterInv /\ ConfigOK /\ LineageInv
  BY DEF Init, ConfigOK, AdapterInv, LineageInv, Whole, Registrable, Publishing, BuildingViews, Training
<1>2. Init => L!Init
  BY DEF Init, L!Init, Standing, Attested, Whole
<1>3. JobShape /\ ShardInv /\ CertInv /\ ViewsInv /\ AdapterInv /\ ConfigOK /\ LineageInv
        /\ [Next]_vars => AdapterInv' /\ ConfigOK' /\ LineageInv'
  BY AdapterStep, ConfigStep, LineageStep
<1>4. Spec => []IInv
  BY <1>1, <1>3, ShardsAlways, VerdictAlways, CertAlways, ViewsAlways, PTL DEF Spec
<1>5. IInv /\ [Next]_vars => [L!Next]_(L!vars)
  BY LineageRefined
<1> QED
  BY <1>2, <1>4, <1>5, PTL DEF Spec, L!Spec, LineagePromise
=============================================================================
