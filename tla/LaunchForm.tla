----------------------------- MODULE LaunchForm -----------------------------
(* The team launch page of the frontend: the Runtime Target picker of one  *)
(* worker target (connection, then provider, then model), the catalogs the *)
(* page loads behind the user's back, and handleSubmit, which asks every   *)
(* target's connection once more which providers are signed in before it   *)
(* starts the run.  Every await is a step of its own, so answers arrive in *)
(* any order and after the user has moved on; the page fences none of them *)
EXTENDS FiniteSets, Naturals

CONSTANTS FormConns,       \* the connections the page lists
          RuntimeKind,     \* connection -> "opencode" | "codex" | "claude"
          CardStatus,      \* connection -> the status on its card
          ModelsAt,        \* connection -> the models its runtime lists
          FormProviders,   \* provider identifiers
          ProviderOf,      \* model -> its "provider/" prefix, or NoProvider
          NoProvider,
          NoModel,         \* no model argument: the runtime's default
          NoConn,
          FormWorkspaces,  \* the registered workspaces
          NoWorkspace,
          SignInLimit,     \* bound: sign-ins and sign-outs at the runtimes
          UserLimit,       \* bound: what the user does before giving up
          LaunchLimit      \* bound: clicks on the launch button

FormModels == UNION {ModelsAt[c] : c \in FormConns}

ASSUME FormAssumption ==
  /\ RuntimeKind \in [FormConns -> {"opencode", "codex", "claude"}]
  /\ CardStatus \in [FormConns -> {"AVAILABLE", "DEGRADED", "AUTH_REQUIRED",
                                    "UNAVAILABLE", "DRAFT", "REVOKED"}]
  /\ \A m \in FormModels : ProviderOf[m] \in FormProviders \cup {NoProvider}
  /\ NoConn \notin FormConns /\ NoProvider \notin FormProviders
  /\ NoModel \notin FormModels /\ NoWorkspace \notin FormWorkspaces
  /\ SignInLimit \in Nat /\ UserLimit \in Nat /\ LaunchLimit \in Nat

VARIABLES formSignedIn,  \* external: connection -> the providers signed in there
          signIns,       \* how often that has changed
          moves,         \* what the user has done so far
          target,        \* the picker's value: [conn, model]
          discovery,     \* the signed-in providers of the last answer kept
          catalog,       \* the models of the last answer kept
          provider,      \* selectedProvider
          manual,        \* manualMode
          loading,       \* the picker's one loading flag
          asked,         \* picker requests in flight: [kind, conn, move]
          workspace,     \* selectedWorkspaceId
          loads,         \* loadCatalogs in flight: the workspace each one captured
          bounds,        \* whose limits the form holds: the template's or the user's
          launch,        \* handleSubmit: [at, target, known, answer]
          launchClicks,  \* launches begun
          connected,     \* providers signed in at some time since that click
          started        \* the targets of the runs started

pickerVars == <<target, discovery, catalog, provider, manual, loading, asked>>
pageVars == <<workspace, loads, bounds>>
formVars == <<formSignedIn, signIns, moves, pickerVars, pageVars, launch, launchClicks,
              connected, started>>

NoTarget == [conn |-> NoConn, model |-> NoModel]
NoLaunch == [at |-> "idle", target |-> NoTarget, answer |-> {}, known |-> FALSE]

\* Structured provider discovery exists for OpenCode only; Codex lists models.
ProviderDiscoverySupported(c) == c # NoConn /\ RuntimeKind[c] = "opencode"
ModelDiscoverySupported(c) == c # NoConn /\ RuntimeKind[c] \in {"opencode", "codex"}

\* pickerReadiness: a degraded connection stays selectable.
PickerReady(c) == CardStatus[c] \in {"AVAILABLE", "DEGRADED"}

\* selectableProviders: only the authenticated ones.
Selectable == discovery

\* scopedModels and models: filtered by the discovery that is held, whatever
\* connection either of the two answers came from.
ScopedModels ==
  {m \in catalog :
     /\ Selectable # {} => ProviderOf[m] \in Selectable \cup {NoProvider}
     /\ provider # NoProvider => ProviderOf[m] = provider}

\* The model list is drawn only while nothing loads and there is a catalog.
Offered ==
  IF /\ ModelDiscoverySupported(target.conn) /\ ~loading
     /\ ProviderDiscoverySupported(target.conn) => Selectable # {}
     /\ catalog # {}
  THEN ScopedModels ELSE {}

\* manualModelIsAllowed: for OpenCode the prefix must name a signed-in provider.
ManualModelIsAllowed(m) ==
  ProviderDiscoverySupported(target.conn) /\ Selectable # {}
    => ProviderOf[m] \in Selectable

FormInit ==
  /\ formSignedIn = [c \in FormConns |-> {}] /\ signIns = 0 /\ moves = 0
  /\ target = NoTarget /\ discovery = {} /\ catalog = {}
  /\ provider = NoProvider /\ manual = FALSE /\ loading = FALSE /\ asked = {}
  /\ workspace = NoWorkspace /\ loads = {NoWorkspace} /\ bounds = "default"
  /\ launch = NoLaunch /\ launchClicks = 0
  /\ connected = {} /\ started = {}

\* The page is left once a run is started.
UserMove == launch.at # "left" /\ moves < UserLimit /\ moves' = moves + 1

\* The pairs of connection and provider that are signed in.
Pairs(s) == {q \in FormConns \X FormProviders : q[2] \in s[q[1]]}

------------------------------------------------------------------------------
\* External: a provider is signed in or out at a runtime, whenever it likes.
FormSignInChanges ==
  /\ signIns < SignInLimit /\ signIns' = signIns + 1
  /\ \E c \in FormConns, p \in FormProviders :
       /\ formSignedIn' = [formSignedIn EXCEPT ![c] = IF p \in @ THEN @ \ {p} ELSE @ \cup {p}]
       /\ connected' = connected \cup Pairs(formSignedIn')
  /\ UNCHANGED <<moves, pickerVars, pageVars, launch, launchClicks, started>>

------------------------------------------------------------------------------
(* The picker. *)

\* The effect on a changed connection: the requests for the new one go out,
\* what was asked for the old one stays in flight, and what was answered for
\* it stays on display until an answer replaces it.
ConnectionEffect(c) ==
  /\ provider' = NoProvider /\ manual' = FALSE
  /\ asked' = asked \cup
       {r \in [kind : {"providers", "models"}, conn : {c}, move : {moves}] :
          IF r.kind = "providers" THEN ProviderDiscoverySupported(c)
                                  ELSE ModelDiscoverySupported(c)}
  /\ loading' = (loading \/ ModelDiscoverySupported(c))
  /\ discovery' = IF ProviderDiscoverySupported(c) THEN discovery ELSE {}
  /\ catalog' = IF ModelDiscoverySupported(c) THEN catalog ELSE {}

\* Mutant: the model stays when the connection changes.
ConnectionChangeKeepsModel(c) ==
  /\ UserMove /\ c # target.conn /\ (c # NoConn => PickerReady(c))
  /\ target' = [target EXCEPT !.conn = c]
  /\ ConnectionEffect(c)
  /\ UNCHANGED <<formSignedIn, signIns, pageVars, launch, launchClicks, connected, started>>

\* handleConnectionChange: another connection drops the model.
HandleConnectionChange(c) ==
  /\ UserMove /\ c # target.conn /\ (c # NoConn => PickerReady(c))
  /\ target' = [conn |-> c, model |-> NoModel]
  /\ ConnectionEffect(c)
  /\ UNCHANGED <<formSignedIn, signIns, pageVars, launch, launchClicks, connected, started>>

\* Another planner or verifier drops that role's target.
SelectRole == HandleConnectionChange(NoConn)

\* The Refresh button, disabled while something loads.
RefreshModels ==
  /\ UserMove /\ ModelDiscoverySupported(target.conn) /\ ~loading
  /\ asked' = asked \cup {[kind |-> "models", conn |-> target.conn, move |-> moves]}
  /\ loading' = TRUE
  /\ UNCHANGED <<formSignedIn, signIns, target, discovery, catalog, provider, manual,
                 pageVars, launch, launchClicks, connected, started>>

SelectProvider(p) ==
  /\ UserMove /\ ProviderDiscoverySupported(target.conn)
  /\ p \in (Selectable \cup {NoProvider}) \ {provider} /\ provider' = p
  /\ UNCHANGED <<formSignedIn, signIns, target, discovery, catalog, manual, loading,
                 asked, pageVars, launch, launchClicks, connected, started>>

\* selectModel from the list, or back to the runtime's default.
SelectModel(m) ==
  /\ UserMove /\ target.conn # NoConn /\ m # target.model
  /\ m \in Offered \cup {NoModel}
  /\ target' = [target EXCEPT !.model = m]
  /\ UNCHANGED <<formSignedIn, signIns, discovery, catalog, provider, manual, loading,
                 asked, pageVars, launch, launchClicks, connected, started>>

\* "Enter model ID manually", then Use.
EnterModel(m) ==
  /\ UserMove /\ target.conn # NoConn
  /\ IF manual THEN /\ ManualModelIsAllowed(m)
                    /\ target' = [target EXCEPT !.model = m] /\ manual' = FALSE
               ELSE /\ ~loading /\ manual' = TRUE /\ UNCHANGED target
  /\ UNCHANGED <<formSignedIn, signIns, discovery, catalog, provider, loading, asked,
                 pageVars, launch, launchClicks, connected, started>>

\* loadProviders: whatever answer arrives is kept; a failure clears.  The one
\* loading flag falls with the first answer of the two.
ProvidersAnswer(r) ==
  /\ r \in asked /\ r.kind = "providers"
  /\ asked' = asked \ {r} /\ loading' = FALSE
  /\ discovery' \in {{}, formSignedIn[r.conn]}
  /\ UNCHANGED <<formSignedIn, signIns, moves, target, catalog, provider, manual,
                 pageVars, launch, launchClicks, connected, started>>

\* loadModels, likewise.
ModelsAnswer(r) ==
  /\ r \in asked /\ r.kind = "models"
  /\ asked' = asked \ {r} /\ loading' = FALSE
  /\ catalog' \in {{}, ModelsAt[r.conn]}
  /\ UNCHANGED <<formSignedIn, signIns, moves, target, discovery, provider, manual,
                 pageVars, launch, launchClicks, connected, started>>

------------------------------------------------------------------------------
(* The page: catalogs, and the launch. *)

\* A changed workspace re-runs loadCatalogs, which captured it.
ChooseWorkspace(w) ==
  /\ UserMove /\ w # workspace /\ workspace' = w /\ loads' = loads \cup {w}
  /\ UNCHANGED <<formSignedIn, signIns, pickerVars, bounds, launch, launchClicks, connected,
                 started>>

EditBounds ==
  /\ UserMove /\ bounds' = "user"
  /\ UNCHANGED <<formSignedIn, signIns, pickerVars, workspace, loads, launch, launchClicks,
                 connected, started>>

\* loadCatalogs: the default template is applied again, and a load that was
\* begun without a workspace picks the first one, whatever is chosen by now.
LoadCatalogs(w) ==
  /\ w \in loads /\ bounds' = "default"
  /\ \E first \in FormWorkspaces :
       LET picks == w = NoWorkspace /\ workspace # first IN
       /\ workspace' = IF w = NoWorkspace THEN first ELSE workspace
       /\ loads' = (loads \ {w}) \cup (IF picks THEN {first} ELSE {})
  /\ UNCHANGED <<formSignedIn, signIns, moves, pickerVars, launch, launchClicks, connected,
                 started>>

\* handleSubmit: what the form holds at the click is what will be sent.
HandleSubmit ==
  /\ launch.at = "idle" /\ launchClicks < LaunchLimit /\ launchClicks' = launchClicks + 1
  /\ launch' = [at |-> "checking", target |-> target, known |-> FALSE, answer |-> {}]
  /\ connected' = Pairs(formSignedIn)
  /\ UNCHANGED <<formSignedIn, signIns, moves, pickerVars, pageVars, started>>

\* The launch-time discovery of the target's connection answers or fails.
DiscoveryAnswers ==
  /\ launch.at = "checking"
  /\ \E ok \in BOOLEAN :
       launch' = [launch EXCEPT !.at = "checked", !.known = ok /\ launch.target.conn # NoConn,
                    !.answer = IF ok /\ ProviderDiscoverySupported(launch.target.conn)
                               THEN formSignedIn[launch.target.conn] ELSE {}]
  /\ UNCHANGED <<formSignedIn, signIns, moves, pickerVars, pageVars, launchClicks, connected,
                 started>>

\* A target with a model is unavailable when its connection did not answer or
\* the provider the model names is not signed in there.
Unavailable ==
  LET t == launch.target IN
  /\ t.model # NoModel
  /\ \/ ~launch.known
     \/ ProviderOf[t.model] # NoProvider /\ ProviderOf[t.model] \notin launch.answer

\* Blocked, or the command goes out: it is executed and the page leaves for
\* the run, it is refused, or it is executed and its answer is lost.
DecideLaunch ==
  /\ launch.at = "checked"
  /\ \/ /\ Unavailable /\ launch' = NoLaunch /\ UNCHANGED started
     \/ /\ ~Unavailable
        /\ \/ launch' = NoLaunch /\ UNCHANGED started
           \/ /\ started' = started \cup {launch.target}
              /\ launch' \in {NoLaunch, [launch EXCEPT !.at = "left"]}
  /\ UNCHANGED <<formSignedIn, signIns, moves, pickerVars, pageVars, launchClicks, connected>>

FormNext ==
  \/ FormSignInChanges \/ SelectRole \/ RefreshModels \/ EditBounds
  \/ HandleSubmit \/ DiscoveryAnswers \/ DecideLaunch
  \/ \E c \in FormConns : HandleConnectionChange(c)
  \/ \E p \in FormProviders \cup {NoProvider} : SelectProvider(p)
  \/ \E m \in FormModels \cup {NoModel} : SelectModel(m)
  \/ \E m \in FormModels : EnterModel(m)
  \/ \E r \in asked : ProvidersAnswer(r) \/ ModelsAnswer(r)
  \/ \E w \in FormWorkspaces \cup {NoWorkspace} : ChooseWorkspace(w) \/ LoadCatalogs(w)

FormSpec == FormInit /\ [][FormNext]_formVars

------------------------------------------------------------------------------
FormTypeOK ==
  /\ formSignedIn \in [FormConns -> SUBSET FormProviders]
  /\ target \in [conn : FormConns \cup {NoConn}, model : FormModels \cup {NoModel}]
  /\ target.conn = NoConn => target.model = NoModel
  /\ provider \in FormProviders \cup {NoProvider}
  /\ started \subseteq [conn : FormConns \cup {NoConn}, model : FormModels \cup {NoModel}]

\* However stale the picker is, no run is started for a provider and model
\* whose provider was not signed in through that very connection at some
\* moment since the launch button was pressed (handleSubmit's launch check).
LaunchedTargetsWereConnected ==
  \A t \in started' \ started :
    t.model # NoModel /\ ProviderOf[t.model] # NoProvider
      => <<t.conn, ProviderOf[t.model]>> \in connected

\* RuntimeTargetPicker.tsx: "Everything is CONNECTION-SCOPED: providers/models
\* come from the SELECTED connection's current revision (never a global PATH
\* lookup, never another connection's state)."
OfferedModelsAreOfTheConnection ==
  Offered # {} => Offered \subseteq ModelsAt[target.conn]
=============================================================================
