SPECIFICATION Spec
CONSTANTS
  s1 = s1  s2 = s2  d1 = d1  d2 = d2  r1 = r1  r2 = r2  p1 = p1  p2 = p2
  Steps = {s1}
  InitialPlan = {s1}
  DependsOn <- NoDeps
  OnFailure <- AllRetry
  MaxAttempts <- TwoAttempts
  Conditional = {}
  Refusable = {}
  Gated = {}
  Checked = {}
  Planners = {}
  Timed = {s1}
  Supervised = {}
  BadInput = {}
  AuthorityBound = FALSE
  Proposals = {}
  PatchAdds <- NoPatch
  PatchReplaces <- NoPatch
  PatchPolicy <- AllAllowed
  Dispatchers = {d1}
  Reconcilers = {r1}
  RejectedWorkMayRun = TRUE
  AttemptLimit = 3
  LeaseLimit = 2
INVARIANTS AttemptsAreBounded
CHECK_DEADLOCK FALSE
