SPECIFICATION WorkbenchSpec
CONSTANTS
  d1 = d1  d2 = d2  d3 = d3  s1 = s1  s2 = s2  c1 = c1  c2 = c2
  NoToken = NoToken  NoFlow = NoFlow
  Focus = {"lease", "release", "connection", "auth", "source", "command", "form", "console"}
  Starts = {s1, s2}
  Isolated = {s1}
  Continues = {c1, c2}
  Source <- FromFirst
  Deliveries = {d1, d2, d3}
  Overlap = FALSE
  Ops = {s1, s2}
  Calls = {d1, d2}
  Processes = {"p"}
  MaxRestarts = 1
  MaxArgs = 2
  MaxProbeTime = 3
  CapabilityKeys = {"plannerOutput"}
  MaxConns = 2
  Profiles <- SomeProfiles
  Tests = {d1, d2}
  OneProcess = TRUE
  Attempts = {"a"}
  Onboards = {"k"}
  RevLimit = 2
  ClockLimit = 2
  Begins = {d1, d2, d3}
  Providers = {"p", "q"}
  Methods = {"m"}
  Completes = {"k"}
  MaxFlows = 1
  AuthRevLimit = 2
  SourceNames = {"s"}
  Probes = {"p1", "p2"}
  ModelCounts = {0, 2}
  SourceOverlap = FALSE
  EditLimit = 2
  CmdDeliveries = {d1, d2, d3}
  CmdKeys = {"k", "bad"}
  IllFormed = {"bad"}
  Cores = {"x", "y"}
  Rests = {"-"}
  CrashBudget = 1
  FlipLimit = 1
  FormConns = {"a", "c"}
  RuntimeKind <- KindOf
  CardStatus <- CardStatusOf
  ModelsAt <- ModelsOf
  FormProviders = {"p"}
  ProviderOf <- ProviderOfModel
  NoProvider = "-"
  NoModel = "none"
  NoConn = "nobody"
  FormWorkspaces = {"w"}
  NoWorkspace = "no"
  SignInLimit = 2
  UserLimit = 3
  LaunchLimit = 1
  Fetches = {"f1", "f2"}
  Initials = {"PENDING", "RUNNING"}
  WaitLimit = 1
  ClickLimit = 2
  Failures = 1
SYMMETRY Symmetry
INVARIANTS WorkbenchTypeOK  
PROPERTIES ChoicesStand
CHECK_DEADLOCK FALSE
