------------------------------- MODULE MCEdge -------------------------------
(***************************************************************************)
(* The processes around the orchestrator, for TLC: the worker SDKs, the    *)
(* executor hosts, and the deployment's maintenance and development        *)
(* scripts.  As in MCGovernance, the component in focus takes its steps    *)
(* and the others rest.                                                    *)
(***************************************************************************)
EXTENDS Worker, PyWorker, LocalHost, RustHost, Recovery, Launcher

CONSTANT Focus

VARIABLE focus

-----------------------------------------------------------------------------
(* Requests of two invocations, the first delivered twice; to the Python   *)
(* worker, one invocation delivered twice.                                 *)
Invoked == [r \in RunRequests |-> IF r = "r3" THEN "j" ELSE "i"]
Fingerprints == [r \in RunRequests |-> IF r = "r2" THEN 2 ELSE 1]
PyInvoked == [r \in Submissions |-> "i"]
PyBodies == [r \in Submissions |-> "b"]

(* A host that serves registered agents; the third run names a model the   *)
(* profile does not allow.                                                 *)
RunShapes == [i \in HostRuns |-> [connection |-> "match", model |-> IF i = "h3" THEN "valid" ELSE "none",
                                  workspace |-> "inside"]]
BoundProfile == [bound |-> TRUE, modelPrefix |-> FALSE, requireWorkspace |-> TRUE]
EnvAgents == [agents |-> "valid", token |-> FALSE, keys |-> "map"]

RustKeys == [r \in RsPosts |-> IF r = "p3" THEN "j" ELSE "i"]
RustPrints == [r \in RsPosts |-> IF r = "p2" THEN "g" ELSE "f"]
RustCarries == [r \in RsPosts |-> [contract |-> TRUE, connection |-> "match",
                                   model |-> IF r = "p3" THEN "invalid" ELSE "none", workspace |-> "inside"]]
RustProfile == [bound |-> TRUE, modelPrefix |-> TRUE, requireWorkspace |-> TRUE, structured |-> TRUE]

(* Maintenance commands of an operator. *)
ThreeCommands == <<"i1", "i2", "i3">>

-----------------------------------------------------------------------------
Frozen(c, v) == focus # c => UNCHANGED v

OthersRest ==
  /\ UNCHANGED focus
  /\ Frozen("worker", workerVars) /\ Frozen("python", pyVars) /\ Frozen("host", hostVars) /\ Frozen("rust", rustVars)
  /\ Frozen("recovery", recoveryVars) /\ Frozen("launcher", launcherVars)

EdgeInit ==
  /\ focus \in Focus
  /\ WorkerInit /\ PyInit /\ HostInit /\ RustInit /\ RecoveryInit /\ LauncherInit

EdgeNext ==
  \/ focus = "worker" /\ WorkerNext /\ OthersRest
  \/ focus = "python" /\ PyNext /\ OthersRest
  \/ focus = "host" /\ HostNext /\ OthersRest
  \/ focus = "rust" /\ RustNext /\ OthersRest
  \/ focus = "recovery" /\ RecoveryNext /\ OthersRest
  \/ focus = "launcher" /\ LauncherNext /\ OthersRest

edgeVars == <<focus, workerVars, pyVars, hostVars, rustVars, recoveryVars, launcherVars>>

EdgeSpec == EdgeInit /\ [][EdgeNext]_edgeVars

-----------------------------------------------------------------------------
\* Every component's variables have their types: workers, hosts and their
\* state files, databases and the maintenance lock.
EdgeTypeOK ==
  WorkerTypeOK /\ PyTypeOK /\ HostTypeOK /\ RustTypeOK /\ RecoveryTypeOK

\* A worker runs no more than its capacity and an invocation once at a time,
\* is quiet once stopped, and reports the end of a run after its result.
WorkersKeepBounds ==
  /\ WorkerCapacityHolds /\ OneLiveRunPerInvocation /\ StoppedIsQuiet
  /\ TerminalEventFollowsResult

\* No process group is forgotten by either host: a settled run's group is
\* gone, a live run is in the state file, and what a crash left behind is
\* terminated by the sweep before new work is taken.
GroupsAreAccounted ==
  /\ SettledGroupIsGone /\ RecordedOrphanIsTerminated /\ ActiveRunIsRecorded
  /\ RustGroupsFitSlots /\ RustRecordIsCurrent /\ RustOrphanIsTerminated

\* Through upgrades, crashes and interrupts the stack can be brought back: no
\* authoritative database is lost or served stale, maintenance has one owner,
\* and the launcher reports failures and takes down what it started.
StackIsRecoverable ==
  /\ AuthorityIsKept /\ ReconciledIsAuthority /\ OneMaintenanceOwner
  /\ FailedUpgradeIsRecoverable /\ CleanExitMeansNoFailure /\ InfrastructureIsTornDown
=============================================================================
