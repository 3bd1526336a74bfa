------------------------------ MODULE RustHost ------------------------------
(***************************************************************************)
(* The Rust executor host (services/local-executor-host-rs).  It speaks    *)
(* the worker protocol itself: an idempotency map behind a mutex that is   *)
(* taken twice, one permit per run and no queue, a detached task per run   *)
(* that supervises the child and then delivers the one result.  The        *)
(* supervisor writes the invocation to the child's stdin before it watches *)
(* anything, and reads both pipes to their end before it kills the group.  *)
(***************************************************************************)
EXTENDS Naturals, FiniteSets

CONSTANTS
  RsPosts,        \* POST /v1/runs requests
  RsKeyOf,        \* the invocation id of each
  RsPrintOf,      \* its fingerprint
  RsCarries,      \* connection, model and workspace of each
  RsLarge,        \* posts whose invocation is larger than the stdin pipe
  RsProfile,      \* the agent's entry of EXECUTOR_HOST_AGENTS
  RsBridge,       \* the dynamic bridge: no agents are configured
  RsBridgeSlots,  \* its permits (4)
  RsAttempts,     \* callback attempts (8)
  RsUtc,          \* ps prints local time: the host's time zone is UTC
  RsCrashLimit,   \* bound: crashes of the host
  NoFile

\* parse_host_config_from: the bridge exactly when no agents are configured.
RsParsedHost == RsBridge \in BOOLEAN /\ RsBridgeSlots \in Nat \ {0}

\* parse_agent_config: connectionId and configHash come together.
RsParsedAgent ==
  RsProfile \in [bound : BOOLEAN, modelPrefix : BOOLEAN, requireWorkspace : BOOLEAN, structured : BOOLEAN]

ASSUME RustAssumption ==
  /\ RsParsedHost /\ RsParsedAgent /\ RsUtc \in BOOLEAN /\ RsLarge \subseteq RsPosts
  /\ RsAttempts \in Nat \ {0} /\ RsCrashLimit \in Nat /\ NoFile \notin RsPosts
  /\ DOMAIN RsKeyOf = RsPosts /\ DOMAIN RsPrintOf = RsPosts
  /\ RsCarries \in [RsPosts -> [contract : BOOLEAN, connection : {"none", "match", "other"}, 
                                model : {"none", "valid", "invalid"}, workspace : {"none", "invalid", "outside", "inside"}]]

RsKeys == {RsKeyOf[r] : r \in RsPosts}
RsPrints == {RsPrintOf[r] : r \in RsPosts}

VARIABLES
  rsUp,       \* "serving", "stopping", "down" or "sweeping"
  rsStore,    \* the idempotency map: fingerprints, "none" for a miss
  rsPost,     \* progress and answer of each request
  rsRun,      \* its detached task
  rsLeader,   \* its child
  rsKin,      \* other members of the child's group
  rsFile,     \* the run recorded in <stateDir>/<agent>.json
  rsCrashes

rustVars == <<rsUp, rsStore, rsPost, rsRun, rsLeader, rsKin, rsFile, rsCrashes>>

RsSupervised == {"feeding", "watching", "collecting"}
RsLive == RsSupervised \cup {"preparing", "delivering"}
RsDead == {"exit0", "exit1", "signal"}

RustTypeOK ==
  /\ rsUp \in {"serving", "stopping", "down", "sweeping"}
  /\ rsStore \in [RsKeys -> RsPrints \cup {"none"}]
  /\ rsPost \in [RsPosts -> {"new", "checked", "permitted", "accepted", "duplicate", "conflict",
                             "full", "refused", "dropped"}]
  /\ rsRun \in [RsPosts -> [at : RsLive \cup {"none", "done", "lost", "orphan"},
                            trigger : {"none", "deadline", "shutdown"}, due : BOOLEAN, limit : BOOLEAN,
                            tries : 0 .. RsAttempts - 1,
                            outcome : {"none", "succeeded", "failed", "killed", "output_limit",
                                       "spawn_failed", "mismatch", "bad_path", "invalid_result"}]]
  /\ rsLeader \in [RsPosts -> {"none", "alive"} \cup RsDead]
  /\ rsKin \in [RsPosts -> {"none", "holding", "quiet"}]
  /\ rsFile \in RsPosts \cup {NoFile}
  /\ rsCrashes \in 0 .. RsCrashLimit

RsNoRun == [at |-> "none", trigger |-> "none", due |-> FALSE, limit |-> FALSE, tries |-> 0, outcome |-> "none"]

RsGroupAlive(r) == rsLeader[r] = "alive" \/ rsKin[r] # "none"

-----------------------------------------------------------------------------
(* submit. *)

\* Bearer, size, JSON, contract, target agent, idempotency key, callback key
\* and callback origin.
RsRefuse(r) ==
  /\ rsUp = "serving" /\ rsPost[r] = "new"
  /\ rsPost' = [rsPost EXCEPT ![r] = "refused"]
  /\ UNCHANGED <<rsUp, rsStore, rsRun, rsLeader, rsKin, rsFile, rsCrashes>>

\* parse_run_request: the contract's fields and no others, no unsafe numbers.
RsParses(r) == RsCarries[r].contract

\* The first time the map is locked: lookup only.
RsCheck(r) ==
  LET stored == rsStore[RsKeyOf[r]] IN
  /\ rsUp = "serving" /\ rsPost[r] = "new" /\ RsParses(r)
  /\ rsPost' = [rsPost EXCEPT ![r] = IF stored = "none" THEN "checked"
                                     ELSE IF stored = RsPrintOf[r] THEN "duplicate" ELSE "conflict"]
  /\ UNCHANGED <<rsUp, rsStore, rsRun, rsLeader, rsKin, rsFile, rsCrashes>>

\* Permits out: the task keeps its own until the callback has ended.
RsHolding == {r \in RsPosts : rsPost[r] = "permitted" \/ rsRun[r].at \in RsLive}

RsSlots == IF RsBridge THEN RsBridgeSlots ELSE 1

RsAcquire(r) ==
  /\ rsPost[r] = "checked"
  /\ rsPost' = [rsPost EXCEPT ![r] = IF Cardinality(RsHolding) < RsSlots THEN "permitted" ELSE "full"]
  /\ UNCHANGED <<rsUp, rsStore, rsRun, rsLeader, rsKin, rsFile, rsCrashes>>

\* The second time: insert, spawn the task, 202.
RsAccept(r) ==
  /\ rsPost[r] = "permitted" /\ rsPost' = [rsPost EXCEPT ![r] = "accepted"]
  /\ rsStore' = [rsStore EXCEPT ![RsKeyOf[r]] = RsPrintOf[r]]
  /\ rsRun' = [rsRun EXCEPT ![r].at = "preparing"]
  /\ UNCHANGED <<rsUp, rsLeader, rsKin, rsFile, rsCrashes>>

-----------------------------------------------------------------------------
(* run_once. *)

\* resolve_profile of the bridge: the revision the invocation names, with its hash.
RsResolves(c) == c.connection = "match"

RsBindingHolds(c) ==
  /\ IF RsBridge THEN RsResolves(c) ELSE c.connection = (IF RsProfile.bound THEN "match" ELSE "none")
  /\ c.model # "none" => RsProfile.modelPrefix /\ c.model = "valid"

RsCwdResolves(c) ==
  c.workspace = "inside" \/ (c.workspace = "none" /\ ~RsBridge /\ ~RsProfile.requireWorkspace)

\* Everything fails closed before the spawn.
RsFailClosed(r) ==
  /\ rsRun[r].at = "preparing" /\ rsUp \in {"serving", "stopping"}
  /\ ~(RsBindingHolds(RsCarries[r]) /\ RsCwdResolves(RsCarries[r]))
  /\ rsRun' = [rsRun EXCEPT ![r].at = "delivering",
                 ![r].outcome = IF RsBindingHolds(RsCarries[r]) THEN "bad_path" ELSE "mismatch"]
  /\ UNCHANGED <<rsUp, rsStore, rsPost, rsLeader, rsKin, rsFile, rsCrashes>>

\* Spawn, and on_spawn writes the state file if it can; a spawn that fails still
\* clears it.
RsSpawn(r) ==
  /\ rsRun[r].at = "preparing" /\ rsUp \in {"serving", "stopping"}
  /\ RsBindingHolds(RsCarries[r]) /\ RsCwdResolves(RsCarries[r])
  /\ \/ /\ rsLeader' = [rsLeader EXCEPT ![r] = "alive"] /\ rsFile' \in {r, rsFile}
        /\ rsRun' = [rsRun EXCEPT ![r].at = "feeding"]
     \/ /\ rsRun' = [rsRun EXCEPT ![r].at = "delivering", ![r].outcome = "spawn_failed"]
        /\ rsFile' = NoFile /\ UNCHANGED rsLeader
  /\ UNCHANGED <<rsUp, rsStore, rsPost, rsKin, rsCrashes>>

\* stdin.write_all, awaited before any timer or signal is looked at: it returns
\* when the pipe takes the whole invocation, when nobody can read it any more...
RsFed(r) ==
  /\ rsRun[r].at = "feeding" /\ (r \notin RsLarge \/ ~RsGroupAlive(r))
  /\ rsRun' = [rsRun EXCEPT ![r].at = "watching"]
  /\ UNCHANGED <<rsUp, rsStore, rsPost, rsLeader, rsKin, rsFile, rsCrashes>>

\* ... or when the child reads it, which is the child's business.
RsInputRead(r) ==
  /\ rsRun[r].at = "feeding" /\ r \in RsLarge /\ RsGroupAlive(r)
  /\ rsRun' = [rsRun EXCEPT ![r].at = "watching"]
  /\ UNCHANGED <<rsUp, rsStore, rsPost, rsLeader, rsKin, rsFile, rsCrashes>>

-----------------------------------------------------------------------------
(* The child's group, which obeys nobody but SIGKILL. *)

RsChildExits(r) ==
  /\ rsLeader[r] = "alive" /\ \E how \in RsDead : rsLeader' = [rsLeader EXCEPT ![r] = how]
  /\ UNCHANGED <<rsUp, rsStore, rsPost, rsRun, rsKin, rsFile, rsCrashes>>

\* It forks, a member lets go of the pipes, a member exits.
RsKinChanges(r) ==
  /\ \/ rsLeader[r] = "alive" /\ rsKin[r] = "none" /\ rsKin' = [rsKin EXCEPT ![r] = "holding"]
     \/ rsKin[r] = "holding" /\ rsKin' = [rsKin EXCEPT ![r] = "quiet"]
     \/ rsKin[r] # "none" /\ rsKin' = [rsKin EXCEPT ![r] = "none"]
  /\ UNCHANGED <<rsUp, rsStore, rsPost, rsRun, rsLeader, rsFile, rsCrashes>>

\* kill_group(SIGKILL).
RsKillGroup(r) ==
  /\ rsLeader' = [rsLeader EXCEPT ![r] = IF @ = "alive" THEN "signal" ELSE @]
  /\ rsKin' = [rsKin EXCEPT ![r] = "none"]

\* begin_escalate: SIGTERM, which the group may ignore, and a task that sends
\* SIGKILL after the grace.
RsEscalate(r, trigger) ==
  /\ rsRun[r].at = "watching" /\ rsRun[r].trigger = "none"
  /\ trigger = "shutdown" => rsUp = "stopping"
  /\ rsRun' = [rsRun EXCEPT ![r].trigger = trigger, ![r].due = TRUE]
  /\ \E how \in {"alive", "exit0", "exit1", "signal"}, kin \in {"none", rsKin[r]} :
       /\ rsLeader' = [rsLeader EXCEPT ![r] = IF @ = "alive" THEN how ELSE @]
       /\ rsKin' = [rsKin EXCEPT ![r] = kin]
  /\ UNCHANGED <<rsUp, rsStore, rsPost, rsFile, rsCrashes>>

RsKillDue(r) ==
  /\ rsRun[r].due /\ rsRun' = [rsRun EXCEPT ![r].due = FALSE] /\ RsKillGroup(r)
  /\ UNCHANGED <<rsUp, rsStore, rsPost, rsFile, rsCrashes>>

\* read_bounded reports one stream over its limit.
RsLimit(r) ==
  /\ rsRun[r].at = "watching" /\ ~rsRun[r].limit /\ RsGroupAlive(r)
  /\ rsRun' = [rsRun EXCEPT ![r].limit = TRUE] /\ RsKillGroup(r)
  /\ UNCHANGED <<rsUp, rsStore, rsPost, rsFile, rsCrashes>>

\* child.wait() returns; from here only the two reads are awaited.
RsWaited(r) ==
  /\ rsRun[r].at = "watching" /\ rsLeader[r] \in RsDead
  /\ rsRun' = [rsRun EXCEPT ![r].at = "collecting"]
  /\ UNCHANGED <<rsUp, rsStore, rsPost, rsLeader, rsKin, rsFile, rsCrashes>>

\* settle: a child that catches SIGTERM and exits 0 has succeeded.
RsSettled(r, over) ==
  IF over \/ rsRun[r].limit THEN "output_limit"
  ELSE CASE rsLeader[r] = "exit0" -> "succeeded" [] rsLeader[r] = "exit1" -> "failed" [] OTHER -> "killed"

\* adapt_native_runtime_output: a structured result may turn out invalid.
RsAdapted(outcome) ==
  IF outcome = "succeeded" /\ RsProfile.structured THEN {"succeeded", "invalid_result"} ELSE {outcome}

RsCleared(outcome) == NoFile

\* The pipes reach their end (or both their limits), the rest of the group is
\* killed and the state file removed.
RsCollect(r, over) ==
  /\ rsRun[r].at = "collecting" /\ (over \/ rsKin[r] # "holding")
  /\ \E outcome \in RsAdapted(RsSettled(r, over)) :
       /\ rsRun' = [rsRun EXCEPT ![r].at = "delivering", ![r].outcome = outcome]
       /\ rsFile' = RsCleared(outcome)
  /\ rsLeader' = [rsLeader EXCEPT ![r] = "none"] /\ rsKin' = [rsKin EXCEPT ![r] = "none"]
  /\ UNCHANGED <<rsUp, rsStore, rsPost, rsCrashes>>

\* deliver_callback: a final answer ends it, anything else is tried again.
RsDeliver(r) ==
  /\ rsRun[r].at = "delivering"
  /\ \/ rsRun' = [rsRun EXCEPT ![r] = [RsNoRun EXCEPT !.at = "done", !.due = rsRun[r].due]]
     \/ rsRun[r].tries + 1 < RsAttempts /\ rsRun' = [rsRun EXCEPT ![r].tries = @ + 1]
  /\ UNCHANGED <<rsUp, rsStore, rsPost, rsLeader, rsKin, rsFile, rsCrashes>>

-----------------------------------------------------------------------------
(* The process. *)

RsInterrupt ==
  /\ rsUp = "serving" /\ rsUp' = "stopping"
  /\ UNCHANGED <<rsStore, rsPost, rsRun, rsLeader, rsKin, rsFile, rsCrashes>>

\* The end of the process loses its tasks, its map and its open requests.
RsGone(killed) ==
  /\ rsUp' = "down" /\ rsStore' = [k \in RsKeys |-> "none"]
  /\ rsPost' = [r \in RsPosts |-> IF rsPost[r] \in {"checked", "permitted"} THEN "dropped" ELSE rsPost[r]]
  /\ rsRun' = [r \in RsPosts |-> IF rsRun[r].at \in RsLive
                                 THEN [RsNoRun EXCEPT !.at = IF rsFile = r THEN "orphan" ELSE "lost"]
                                 ELSE [rsRun[r] EXCEPT !.due = FALSE]]
  /\ rsLeader' = [r \in RsPosts |-> IF r \in killed /\ rsLeader[r] = "alive" THEN "signal" ELSE rsLeader[r]]
  /\ UNCHANGED <<rsKin, rsFile>>

\* axum drains the open requests, start_host returns, main ends: kill_on_drop
\* takes the children along, nobody awaits the runs.
RsExit ==
  /\ rsUp = "stopping" /\ \A r \in RsPosts : rsPost[r] \notin {"checked", "permitted"}
  /\ RsGone({r \in RsPosts : rsRun[r].at \in RsSupervised}) /\ UNCHANGED rsCrashes

RsCrash ==
  /\ rsUp \in {"serving", "stopping"} /\ rsCrashes < RsCrashLimit /\ rsCrashes' = rsCrashes + 1
  /\ RsGone({})

\* terminate_orphan at start: only for configured agents, and only for a live
\* leader whose start time can be matched.
RsRestart ==
  /\ rsUp = "down"
  /\ IF RsBridge \/ rsFile = NoFile
     THEN rsUp' = "serving" /\ UNCHANGED <<rsFile, rsLeader, rsKin>>
     ELSE IF rsLeader[rsFile] # "alive" \/ ~RsUtc
     THEN rsUp' = "serving" /\ rsFile' = NoFile /\ UNCHANGED <<rsLeader, rsKin>>
     ELSE /\ rsUp' = "sweeping" /\ UNCHANGED rsFile
          /\ \E how \in {"alive", "signal"}, kin \in {"none", rsKin[rsFile]} :
               rsLeader' = [rsLeader EXCEPT ![rsFile] = how] /\ rsKin' = [rsKin EXCEPT ![rsFile] = kin]
  /\ UNCHANGED <<rsStore, rsPost, rsRun, rsCrashes>>

RsSweepKill ==
  IF rsLeader[rsFile] = "alive" THEN RsKillGroup(rsFile) ELSE UNCHANGED <<rsLeader, rsKin>>

RsSweepEnds ==
  /\ rsUp = "sweeping" /\ RsSweepKill /\ rsFile' = NoFile /\ rsUp' = "serving"
  /\ UNCHANGED <<rsStore, rsPost, rsRun, rsCrashes>>

RustInit ==
  /\ rsUp = "serving" /\ rsFile = NoFile /\ rsCrashes = 0 /\ rsStore = [k \in RsKeys |-> "none"]
  /\ rsPost = [r \in RsPosts |-> "new"]
  /\ rsRun = [r \in RsPosts |-> RsNoRun]
  /\ rsLeader = [r \in RsPosts |-> "none"] /\ rsKin = [r \in RsPosts |-> "none"]

RustNext ==
  \/ RsInterrupt \/ RsExit \/ RsCrash \/ RsRestart \/ RsSweepEnds
  \/ \E r \in RsPosts :
       \/ RsRefuse(r) \/ RsCheck(r) \/ RsAcquire(r) \/ RsAccept(r) \/ RsFailClosed(r) \/ RsSpawn(r)
       \/ RsFed(r) \/ RsInputRead(r) \/ RsChildExits(r) \/ RsKinChanges(r)
       \/ \E trigger \in {"deadline", "shutdown"} : RsEscalate(r, trigger)
       \/ RsKillDue(r) \/ RsLimit(r) \/ RsWaited(r) \/ RsDeliver(r)
       \/ \E over \in BOOLEAN : RsCollect(r, over)

RustSpec == RustInit /\ [][RustNext]_rustVars

\* The runtime polls its tasks and its timers fire; the child owes nothing.
RustFairness ==
  \A r \in RsPosts :
    /\ WF_rustVars(RsAccept(r)) /\ WF_rustVars(RsSpawn(r) \/ RsFailClosed(r)) /\ WF_rustVars(RsFed(r))
    /\ WF_rustVars(RsEscalate(r, "deadline")) /\ WF_rustVars(RsKillDue(r)) /\ WF_rustVars(RsWaited(r))
    /\ WF_rustVars(RsCollect(r, FALSE)) /\ WF_rustVars(RsDeliver(r))

-----------------------------------------------------------------------------
\* One writer per agent: with the map locked twice around the permit, deliveries
\* of one invocation may both run, but never at the same time, and no group of
\* an earlier run of this host is left beside the current one.
RustGroupsFitSlots ==
  ~RsBridge => Cardinality({r \in RsPosts : RsGroupAlive(r) /\ rsRun[r].at \notin {"lost", "orphan"}}) <= RsSlots

\* "while a run is active, <stateDir>/<agent>.json records the CHILD pid": a
\* serving host's file never names a run that has ended, whose pid could be
\* anybody's.
RustRecordIsCurrent ==
  ~RsBridge /\ rsUp = "serving" /\ rsFile # NoFile => rsRun[rsFile].at \in RsSupervised

\* A recorded child that survived a crash is dead when the host serves again.
RustOrphanIsTerminated ==
  ~RsBridge /\ RsUtc /\ rsUp = "serving" =>
    \A r \in RsPosts : rsRun[r].at = "orphan" => rsLeader[r] # "alive"

\* "At the earlier of the invocation deadlineAt and wallTimeMs, the group
\* receives SIGTERM, then SIGKILL after a 5s grace" (local-executor-host.md):
\* supervision ends whatever the child does.
RustDeadlineHolds ==
  \A r \in RsPosts : rsRun[r].at \in RsSupervised ~> rsRun[r].at \notin RsSupervised

\* "The host materializes exactly one canonical AgentResultV1 per invocation":
\* two deliveries of one invocation are not both run by one host process.
RustRunsInvocationOnce ==
  \A r, q \in RsPosts : r # q /\ RsKeyOf[r] = RsKeyOf[q] => ~(rsRun[r].at \in RsLive /\ rsRun[q].at \in RsLive)
=============================================================================
