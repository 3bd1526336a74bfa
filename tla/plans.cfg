SPECIFICATION Spec
CONSTANTS
  s1 = s1  s2 = s2  d1 = d1  d2 = d2  r1 = r1  r2 = r2  p1 = p1  p2 = p2
  Steps = {s1, s2}
  InitialPlan = {s1}
  DependsOn <- Chain
  OnFailure <- StopThenContinue
  MaxAttempts <- OneEach
  Conditional = {s1}
  Refusable = {}
  Gated = {}
  Checked = {}
  Planners = {s1}
  Timed = {}
  Supervised = {}
  BadInput = {s1}
  AuthorityBound = FALSE
  Proposals = {p1, p2}
  PatchAdds <- AddsSecond
  PatchReplaces <- ReplacesFirst
  PatchPolicy <- SecondGated
  Dispatchers = {d1}
  Reconcilers = {r1}
  RejectedWorkMayRun = FALSE
  AttemptLimit = 1
  LeaseLimit = 1
INVARIANTS RevisionsAreSerial GrantBeforeActivation AttemptedSpecIsKept
PROPERTIES StepOutcomesAreFinal
CHECK_DEADLOCK FALSE
