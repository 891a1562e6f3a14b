SPECIFICATION ResumedStudy
CONSTANTS
  Absent = Absent
  None = None
  MaxCommits = 5
  MaxVersions = 2
  MaxDetours = 1
  MaxTraces = 1
  gpu1 = gpu1
  gpu2 = gpu2
  yaml1 = yaml1
  yaml2 = yaml2
  env1 = env1
  env2 = env2
  t1 = t1
  t2 = t2
  d1 = d1
  m1 = m1
  p1 = p1
  f1 = f1
  f2 = f2
  f3 = f3
  MandatoryArms <- EvalArms
  DescriptiveArms <- NoArms
  SpecManifests <- EvalManifests
  Units <- EvalUnits
  Withheld = {d1}
  BlockTasks = 2
  Concurrency = 2
  Cards = {gpu1, gpu2}
  Configs = {yaml1, yaml2}
  Contracts = {env1, env2}
  Groups <- TwoGroups
  Refusals = {f3}
  BatchOps = 2
  MaxWrites = 3
  MaxRuns = 2
  Candidates <- ThreeCandidates
  Round1 = 1
  Round2 = 1
  Checkouts = {env1, env2}
  MaxForced = 1
  MaxChanges = 1
  MaxMishaps = 2
  MaxEdits = 2
  CoreTasks = {t1, t2}
  OrchTasks = {m1}
  RedactedTasks = {d1}
  PermutedTasks = {p1}
  Family <- TaskFamily
  Place <- TaskPlace
  RedactedNeed = 1
  PermutedNeed = 1
  MinCommon = 1
  RecoveryMargin = 5
  CleanMargin <- CleanLoss
  FloorOverall = 50
  FloorFamily = 50
  CrashMax = 50
  Profiles <- BothGood
  MaxLosses = 2
  Focuses = {"release", "evaluation", "publisher", "tournament", "verdict"}
INVARIANTS
  OneSeed
  GateBinds
  VerdictBinds
  OneApparatus
  EachTaskOnce
  IndexNamesRemoteBytes
  QuiescentWhenRecorded
  FrozenStands
PROPERTIES
  Blinded
  CensusPromise
  NothingNamedUnverified
  EvaluationCompletes
CHECK_DEADLOCK FALSE
