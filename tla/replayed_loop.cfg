SPECIFICATION GovernanceSpec
CONSTANTS
  r1 = r1  r2 = r2  t1 = t1  e1 = e1  e2 = e2  w1 = w1
  Focus = {"capsule"}
  Replicas = {r1, r2}
  Tasks = {t1}
  Batches <- OneTask
  Required = {t1}
  Retried = {t1}
  Gates = {FALSE, TRUE}
  MaxIterations = 2
  MaxPerIteration = 2
  MaxTotalWorkers = 3
  MaxPatchSteps = 2
  LoopRevLimit = 5
  Candidates <- TwoStepPlans
  Patches <- PlanPatches
  MaxSteps = 4
  MaxPlanDepth = 3
  MaxFanout = 2
  MaxOperations = 3
  Teams <- SomeTeams
  TaskBatches <- SomeBatches
  Transport <- TransportNames
  MaxBatch = 3
  Manifest <- TwoWorkers
  WorkerResults <- SomeResults
  MaxFieldBytes = 2
  MaxRefs = 1
  MaxOmitted = 1
  MaxAggregateWorkers = 2
  MaxAggregateBytes = 7
  MarkBytes = 1
  MaxWorkerAttempts = 2
  PolicyReplicas = {r1, r2}
  Documents <- SomeDocuments
  Proposals <- SomeProposals
  Rotations = 1
  Runs = {e1, e2}
  Producers = {"p"}
  StateKeys = {"k1", "k2"}
  Values = {1, 2}
  StatePatches <- SomePatches
  Outputs <- SomeOutputs
  Mappings <- BothWritten
  Projections <- SomeProjections
  Writers = {w1}
  MaxPatchOps = 2
  MaxStateKeys = 2
  MaxStateBytes = 3
  MaxEnvelope = 2
  MaxCacheEntries = 1
  ClaimLimit = 1
  PlanSteps = {"a", "b", "c"}
  SpecOf <- ThreeSteps
  StepSources <- Writings
  RunInput <- OneInput
  StepOutputs <- SomeStepOutputs
  Passes = {"p"}
  MaxConditionDepth = 3
  CapsuleRuns = {"a", "b"}
  Looping = {"b"}
  StepNames = {"x"}
  PlansOf <- PlansOfBoth
  CapsuleRequests = {r1, r2}
  MaxRevisions = 1
  MaxAttempts = 1
  AttemptLimit <- TwoAndNone
  LateLimit = 1
  PolicyLimit = 1
  MaxNodes = 4
  MaxEdges = 8
  MaxSpans = 2
INVARIANTS ReplayedLoopStarts
CHECK_DEADLOCK FALSE
