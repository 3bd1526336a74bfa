SPECIFICATION SettlingSpec
CONSTANTS
  e1 = e1  e2 = e2  e3 = e3  org = org  w1 = w1  w2 = w2  q1 = q1  q2 = q2  q3 = q3  NoAccount = NoAccount
  NoFlow = NoFlow  NoState = NoState
  Focus = {"delegation", "auth", "console", "worker", "python", "host", "launcher"}
  Executions = {e1, e2, e3}
  OperatorAccounts = {org}
  Dimensions <- TwoDims
  Work = {w1, w2}
  OwnerOf <- Owners
  StepBudget <- Budgets
  Ceilings <- Grants
  Usages <- Reports
  Deltas <- UpOrDown
  ChainMaxDepth = 16
  AdjustLimit = 1
  Root = e1
  Requests = {q1, q2, q3}
  RequestedBy <- Requesters
  Child <- ChildOf
  RootEnvelope <- UnderOrg
  MaxDepth = 2
  MaxRequests = 1
  Begins = {"b1", "b2"}
  Providers = {"p"}
  Methods = {"m"}
  Completes = {"k"}
  MaxFlows = 1
  AuthRevLimit = 2
  Fetches = {"f1", "f2"}
  Initials = {"RUNNING"}
  WaitLimit = 1
  ClickLimit = 1
  Failures = 1
  RunRequests = {"r1", "r2"}
  InvocationOf <- Invoked
  FingerprintOf <- Fingerprints
  Concurrency = 1
  MaxQueuedRuns = 1
  MaxEntries = 2
  MaxCallbackAttempts = 2
  Submissions = {"s1"}
  KeyOf <- PyInvoked
  BodyOf <- PyBodies
  PyConcurrency = 1
  PyMaxQueued = 0
  PyMaxEntries = 2
  PyMaxAttempts = 2
  Emitters = {}
  HandlerEvents = 0
  HostRuns = {"h1"}
  Shape <- RunShapes
  AgentProfile <- BoundProfile
  HostEnv <- EnvAgents
  BridgeSlots = 2
  HostCrashLimit = 1
  Services = {"orchestrator"}
  Edits = 1
  Interrupts = 2
INVARIANTS BudgetIsSound
 
CHECK_DEADLOCK FALSE
