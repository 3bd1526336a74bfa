SPECIFICATION Spec
CONSTANTS
  s1 = s1  s2 = s2  d1 = d1  d2 = d2  r1 = r1  r2 = r2  p1 = p1  p2 = p2
  Steps = {s1, s2}
  InitialPlan = {s1, s2}
  DependsOn <- NoDeps
  OnFailure <- ContinueThenRetry
  MaxAttempts <- OneThenTwo
  Conditional = {}
  Refusable = {s1}
  Gated = {s1}
  Checked = {}
  Planners = {}
  Timed = {s2}
  Supervised = {}
  BadInput = {}
  AuthorityBound = TRUE
  Proposals = {}
  PatchAdds <- NoPatch
  PatchReplaces <- NoPatch
  PatchPolicy <- AllAllowed
  Dispatchers = {d1}
  Reconcilers = {r1}
  RejectedWorkMayRun = FALSE
  AttemptLimit = 3
  LeaseLimit = 1
INVARIANTS FailureHasCause
PROPERTIES ImplementsWorkAuthority
CHECK_DEADLOCK FALSE
