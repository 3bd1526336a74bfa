SPECIFICATION EdgeSpec
CONSTANTS
  NoState = NoState  NoFile = NoFile
  Focus = {"worker", "python", "host", "rust", "recovery", "launcher"}
  RunRequests = {"r1", "r2", "r3"}
  InvocationOf <- Invoked
  FingerprintOf <- Fingerprints
  Concurrency = 1
  MaxQueuedRuns = 0
  MaxEntries = 2
  MaxCallbackAttempts = 2
  Submissions = {"s1", "s2"}
  KeyOf <- PyInvoked
  BodyOf <- PyBodies
  PyConcurrency = 1
  PyMaxQueued = 0
  PyMaxEntries = 2
  PyMaxAttempts = 1
  Emitters = {"s1"}
  HandlerEvents = 1
  HostRuns = {"h1", "h2", "h3"}
  Shape <- RunShapes
  AgentProfile <- BoundProfile
  HostEnv <- EnvAgents
  BridgeSlots = 2
  HostCrashLimit = 1
  RsPosts = {"p1", "p2", "p3"}
  RsKeyOf <- RustKeys
  RsPrintOf <- RustPrints
  RsCarries <- RustCarries
  RsLarge = {"p1"}
  RsProfile <- RustProfile
  RsBridge = FALSE
  RsBridgeSlots = 4
  RsAttempts = 2
  RsUtc = TRUE
  RsCrashLimit = 1
  CommandLines <- ThreeCommands
  Modes = {"reconcile", "drill", "promote", "backup", "upgrade"}
  Clears = {"c1"}
  RecoveryCrashLimit = 2
  LossLimit = 1
  Services = {"orchestrator", "gateway"}
  Edits = 2
  Interrupts = 2
INVARIANTS EdgeTypeOK WorkersKeepBounds  StackIsRecoverable
PROPERTIES PyKeepsContract
CHECK_DEADLOCK FALSE
