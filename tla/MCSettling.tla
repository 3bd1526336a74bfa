----------------------------- MODULE MCSettling -----------------------------
(***************************************************************************)
(* What must eventually happen around a run, for TLC: orphaned executions  *)
(* are cancelled and their budget is settled, sign-in servers stop, the    *)
(* run page converges, stop() resolves, processes are supervised to their  *)
(* end and an interrupted stack goes down.  As in MCGovernance, the        *)
(* component in focus takes its steps and the others rest, so each         *)
(* fairness assumption is one about the component in focus.                *)
(***************************************************************************)
EXTENDS BudgetLedger, AuthFlows, Console, Worker, PyWorker, LocalHost, Launcher

CONSTANTS Focus, e1, e2, e3, org, w1, w2, q1, q2, q3

VARIABLE focus

-----------------------------------------------------------------------------
(* An execution, a child and a grandchild under one operator account. *)
TwoDims == <<"tokens", "currency">>
Amount(t, c) == [d \in Dims |-> IF d = "tokens" THEN t ELSE c]
Owners == [w \in Work |-> IF w = w1 THEN e1 ELSE e2]
Budgets == [w \in Work |-> Amount(1, 1)]
Grants == {Amount(2, 1)}
Reports == {Amount(0, 0), Amount(2, 0)}
Requesters == [r \in Requests |-> IF r = q2 THEN w2 ELSE w1]
ChildOf == [r \in Requests |-> IF r = q1 THEN e2 ELSE e3]
UnderOrg == [parent |-> org, ceiling |-> Amount(2, 1)]
UpOrDown == {-1, 1}

(* The edges. *)
Invoked == [r \in RunRequests |-> r]
Fingerprints == [r \in RunRequests |-> 1]
PyInvoked == [r \in Submissions |-> r]
PyBodies == [r \in Submissions |-> "b"]

RunShapes == [i \in HostRuns |-> [connection |-> "match", model |-> "none", workspace |-> "inside"]]
BoundProfile == [bound |-> TRUE, modelPrefix |-> FALSE, requireWorkspace |-> TRUE]
EnvAgents == [agents |-> "valid", token |-> FALSE, keys |-> "map"]

-----------------------------------------------------------------------------
Frozen(c, v) == focus # c => UNCHANGED v

OthersRest ==
  /\ UNCHANGED focus /\ Frozen("delegation", delegationVars)
  /\ Frozen("auth", authVars) /\ Frozen("console", consoleVars) /\ Frozen("worker", workerVars) /\ Frozen("python", pyVars)
  /\ Frozen("host", hostVars) /\ Frozen("launcher", launcherVars)

SettlingInit ==
  /\ focus \in Focus /\ DelegationInit
  /\ WorkerInit /\ PyInit /\ HostInit /\ LauncherInit
  /\ AuthInit /\ (focus # "auth" => \A b \in Begins : begin[b].provider = CHOOSE p \in Providers : TRUE)
  /\ ConsoleInit /\ (focus # "console" => fetch[CHOOSE f \in Fetches : TRUE] = "asked")

SettlingNext ==
  \/ focus = "delegation" /\ DelegationNext /\ OthersRest
  \/ focus = "auth" /\ AuthNext /\ OthersRest
  \/ focus = "console" /\ ConsoleNext /\ OthersRest
  \/ focus = "worker" /\ WorkerNext /\ OthersRest
  \/ focus = "python" /\ PyNext /\ OthersRest
  \/ focus = "host" /\ HostNext /\ OthersRest
  \/ focus = "launcher" /\ LauncherNext /\ OthersRest

settlingVars == <<focus, delegationVars, authVars, consoleVars, workerVars, pyVars, hostVars, launcherVars>>

-----------------------------------------------------------------------------
(* Fairness. *)

\* RuntimeRecoveryService.recover runs the cascade on every tick.
CascadeFairness ==
  \A r \in Requests : WF_delegationVars(focus = "delegation" /\ CancelOrphan(r))

\* A begin call in flight goes on, callbacks are answered, and the timer of a
\* flow fires.  Nobody has to complete or cancel a flow.
AuthFairness ==
  /\ \A b \in Begins : /\ WF_authVars(focus = "auth" /\ BeginStep(b))
                       /\ WF_authVars(focus = "auth" /\ Expire(b))
  /\ \A k \in Completes : WF_authVars(focus = "auth" /\ (Callback(k) \/ EndCallback(k)))

\* The page's interval fires and requests end; the operator need not act.
ConsoleFairness ==
  /\ WF_consoleVars(focus = "console" /\ Poll)
  /\ \A f \in Fetches : /\ WF_consoleVars(focus = "console" /\ ServerReads(f))
                        /\ WF_consoleVars(focus = "console" /\ FetchAnswers(f))

\* Timers and callbacks of a worker's event loop run when due: the execution
\* timeout ends a run, the request timeout an attempt, the grace period fires.
\* Nothing is assumed of a handler or of the failure hook.
WorkerFairness ==
  /\ WF_workerVars(focus = "worker" /\ (Listening \/ BindFails))
  /\ WF_workerVars(focus = "worker" /\ GraceExpires)
  /\ WF_workerVars(focus = "worker" /\ Stopped)
  /\ WF_workerVars(focus = "worker" /\ ScheduledDrain)
  /\ \A r \in RunRequests :
       /\ WF_workerVars(focus = "worker" /\ (Answer(r) \/ Reject(r)))
       /\ WF_workerVars(focus = "worker" /\ EndRun(r))
       /\ WF_workerVars(focus = "worker" /\ Attempt(r))
       /\ WF_workerVars(focus = "worker" /\ AbortDelivery(r))
       /\ WF_workerVars(focus = "worker" /\ HookAborted(r))

PyFairness ==
  /\ WF_pyVars(focus = "python" /\ Bind)
  /\ WF_pyVars(focus = "python" /\ (StopScheduler \/ DrainEnds \/ CloseWorker))
  /\ WF_pyVars(focus = "python" /\ GraceEnds)
  /\ WF_pyVars(focus = "python" /\ DrainQueue)
  /\ \A r \in Submissions :
       /\ WF_pyVars(focus = "python" /\ EndPyRun(r))
       /\ \A k \in Jobs : WF_pyVars(focus = "python" /\ (\/ ScheduleEvent(r, k) \/ AttemptJob(r, k)
                                                              \/ AbortJob(r, k) \/ HookCut(r, k)))

\* The host's timers fire and the kernel reports exits; a child may trap
\* SIGTERM for ever, but not SIGKILL.
HostFairness ==
  \A i \in HostRuns :
    /\ WF_hostVars(focus = "host" /\ OnSpawn(i))
    /\ WF_hostVars(focus = "host" /\ Escalate(i, "wall"))
    /\ WF_hostVars(focus = "host" /\ KillTimer(i))
    /\ WF_hostVars(focus = "host" /\ OnExit(i))

\* The event loops run and signals arrive; nothing promises that a source
\* changes, an operator interrupts or a child ends by itself, except that a
\* build does.
LauncherFairness ==
  /\ WF_launcherVars(focus = "launcher" /\ MainFlow)
  /\ WF_launcherVars(focus = "launcher" /\ FinishStack)
  /\ WF_launcherVars(focus = "launcher" /\ InnerExits)
  /\ WF_launcherVars(focus = "launcher" /\ OnInnerExit)
  /\ WF_launcherVars(focus = "launcher" /\ ChildEnds(Build))
  /\ WF_launcherVars(focus = "launcher" /\ TakeSignal("int"))
  /\ WF_launcherVars(focus = "launcher" /\ TakeSignal("usr2"))

SettlingSpec ==
  /\ SettlingInit /\ [][SettlingNext]_settlingVars
  /\ CascadeFairness /\ AuthFairness /\ ConsoleFairness
  /\ WorkerFairness /\ PyFairness /\ HostFairness /\ LauncherFairness

------------------------------------------------------------------------------
\* The ledger of a run and its delegated children balances: every amount is
\* explained by entries, nothing is overdrawn, live work is reserved, what was
\* committed is not refunded, and a child is bounded by and spends from its
\* parent.
BudgetIsSound ==
  /\ DelegationTypeOK /\ LedgerExplained /\ NeverOverdrawn /\ LiveWorkIsReserved
  /\ CommittedIsNeverRefunded /\ DelegationIsBounded /\ ChildSpendsItsParentsBudget

\* Everything that was started ends: orphaned children, servers, stopping
\* workers and their accepted runs, supervised processes and an interrupted
\* stack; and the console at last shows it.
WorkSettles ==
  /\ NoRunnableOrphan /\ ServersStop /\ ConsoleConverges /\ StopCompletes
  /\ AcceptedRunSettles /\ PyStopCompletes /\ SupervisionSettles /\ InterruptedStackStops
=============================================================================
