---------------------------- MODULE MCWorkbench ----------------------------
(***************************************************************************)
(* The operator's side for TLC: commands, workspaces, connections, sign-in *)
(* flows, model sources and the pages of the console.  As in MCGovernance, *)
(* the component in focus takes its steps and the others rest.             *)
(***************************************************************************)
EXTENDS WorkspaceLease, WorkspaceRelease, Connections, AuthFlows, ModelSources, Commands, LaunchForm, Console, TLC

CONSTANTS Focus, d1, d2, d3, s1, s2, c1, c2

VARIABLE focus

-----------------------------------------------------------------------------
FromFirst == [c \in Continues |-> s1]

(* A profile whose version is pinned and whose sign-in is probed, and      *)
(* profiles the parser refuses.                                            *)
Codex ==
  [kind |-> "codex", cli |-> TRUE, pinned |-> 1, expectsVersion |-> TRUE, authProbe |-> TRUE,
   authAnyNonZero |-> TRUE, declared |-> [k \in CapabilityKeys |-> "off"], command |-> "absolute", args |-> 1,
   cwd |-> "none", env |-> {"reference"}, credentialRefs |-> {"env"},
   probe |-> [args |-> 1, wallTime |-> 0, authExitCodes |-> <<1, 2>>]]
SomeProfiles ==
  {Codex, [Codex EXCEPT !.kind = "generic-cli", !.cli = FALSE], [Codex EXCEPT !.command = "relative"],
   [Codex EXCEPT !.probe.wallTime = 9], [Codex EXCEPT !.probe.authExitCodes = <<1, 1>>],
   [Codex EXCEPT !.credentialRefs = {"value"}]}

(* The launch form offers an opencode and a claude or codex connection. *)
KindOf == [c \in FormConns |-> CASE c = "a" -> "opencode" [] c = "b" -> "codex" [] c = "c" -> "claude"]
CardStatusOf == [c \in FormConns |-> IF c = "b" THEN "DEGRADED" ELSE "AVAILABLE"]
ModelsOf == [a |-> {"pm"}, b |-> {"g"}, c |-> {}]
ProviderOfModel == [pm |-> "p", g |-> "-"]

\* Calls, connection tests, begin calls and deliveries bear the same names.
Symmetry == Permutations(Calls)

-----------------------------------------------------------------------------
Frozen(c, v) == focus # c => UNCHANGED v

OthersRest ==
  /\ UNCHANGED focus
  /\ Frozen("lease", leaseVars) /\ Frozen("release", releaseVars) /\ Frozen("connection", connVars)
  /\ Frozen("auth", authVars) /\ Frozen("source", sourceVars) /\ Frozen("command", commandVars)
  /\ Frozen("form", formVars) /\ Frozen("console", consoleVars)

WorkbenchInit ==
  /\ focus \in Focus
  /\ LeaseInit /\ ConnInit /\ SourceInit /\ FormInit
  /\ ReleaseInit /\ (focus # "release" => ws.state = "FAILED" /\ worktree = "clean")
  /\ IF focus = "auth" THEN AuthInit
     ELSE AuthInit /\ \A b \in Begins : /\ begin[b].provider = CHOOSE p \in Providers : TRUE
                                        /\ begin[b].method = CHOOSE m \in Methods : TRUE
  /\ CommandInit /\ (focus # "command" => command = "compare-executions" /\ signedIn
                       /\ \A d \in CmdDeliveries : requestOf[d] = CHOOSE r \in [key : CmdKeys, body : RequestBodies] : TRUE)
  /\ ConsoleInit /\ (focus # "console" => consoleRun = "RUNNING" /\ fetch[CHOOSE f \in Fetches : TRUE] = "asked")

WorkbenchNext ==
  \/ focus = "lease" /\ LeaseNext /\ OthersRest
  \/ focus = "release" /\ ReleaseNext /\ OthersRest
  \/ focus = "connection" /\ ConnNext /\ OthersRest
  \/ focus = "auth" /\ AuthNext /\ OthersRest
  \/ focus = "source" /\ SourceNext /\ OthersRest
  \/ focus = "command" /\ CommandNext /\ OthersRest
  \/ focus = "form" /\ FormNext /\ OthersRest
  \/ focus = "console" /\ ConsoleNext /\ OthersRest

workbenchVars == <<focus, leaseVars, releaseVars, connVars, authVars, sourceVars, commandVars, formVars, consoleVars>>

WorkbenchSpec == WorkbenchInit /\ [][WorkbenchNext]_workbenchVars

-----------------------------------------------------------------------------
\* Every component's variables have their types: leases and release rows,
\* connection revisions and claims, sign-in flows and what the form holds.
WorkbenchTypeOK == LeaseTypeOK /\ ReleaseTypeOK /\ ConnTypeOK /\ AuthTypeOK /\ FormTypeOK

\* A working tree has one run and one owner at a time, a lease says what is
\* the case on disk, and what is reported removed is removed, whoever crashes
\* between the database and git.
LeasesAreSound ==
  /\ OneRunPerTree /\ LiveRunKeepsItsLease /\ LeaseTellsTheTruth /\ RemovedIsTrue
  /\ TargetHasOneOwner /\ ReleasedMeansRemoved

\* Runtime connections, sign-in flows, model sources and workbench commands
\* show and use evidence of the configuration, request and owner it is of,
\* and hold no more flows and servers than their limits.
ConnectionsAreSound ==
  /\ CardShowsCurrentRevision /\ ClaimsStayCoherent
  /\ EvidenceIsOfConfiguration /\ EvidenceMatchesAuthority /\ DuplicateIsOfTheSameRequest
  /\ ServersHaveOwners /\ OneSignInPerProvider /\ FlowsAreBounded

\* What was decided of a connection is not undone by a late answer: a revoked
\* one stays revoked, the newest test's result stands, and only targets that
\* were once connected are launched.
ChoicesStand == [][RevokedIsTerminal /\ NewestTestWins /\ LaunchedTargetsWereConnected]_workbenchVars
=============================================================================
