SPECIFICATION FairSpec
CONSTANTS
  s1 = s1  s2 = s2  d1 = d1  d2 = d2  r1 = r1  r2 = r2  p1 = p1  p2 = p2
  Steps = {s1, s2}
  InitialPlan = {s1, s2}
  DependsOn <- Chain
  OnFailure <- RetryThenStop
  MaxAttempts <- TwoThenOne
  Conditional = {s2}
  Refusable = {s2}
  Gated = {s2}
  Checked = {s1}
  Planners = {}
  Timed = {s1, s2}
  Supervised = {s1}
  BadInput = {}
  AuthorityBound = FALSE
  Proposals = {}
  PatchAdds <- NoPatch
  PatchReplaces <- NoPatch
  PatchPolicy <- AllAllowed
  Dispatchers = {d1}
  Reconcilers = {r1}
  RejectedWorkMayRun = FALSE
  AttemptLimit = 3
  LeaseLimit = 2
INVARIANTS StepShowsLatestAttempt AttemptsAreBounded DependenciesCameFirst CompletedMeansAllTerminal
 
CHECK_DEADLOCK FALSE
