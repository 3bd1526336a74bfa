------------------------------ MODULE LocalHost ------------------------------
(***************************************************************************)
(* The local executor host (services/local-executor-host): one supervised  *)
(* child process group per invocation, killed by SIGTERM and then SIGKILL  *)
(* at its deadline or at shutdown, bounded in its output; and the state    *)
(* file by which a restarted host terminates the group a crash left        *)
(* behind.  One agent is modelled: served by its own worker, which runs    *)
(* one invocation at a time, or by the dynamic bridge, which runs four and *)
(* names the state file after the target agent of each.                    *)
(***************************************************************************)
EXTENDS Naturals, FiniteSets

CONSTANTS
    HostRuns,        \* invocations of the agent
    Shape,           \* what each of them carries: connection, model, workspace
    AgentProfile,    \* the agent's configuration: bound, modelPrefix, requireWorkspace
    HostEnv,         \* the host's environment: agents, token, keys
    BridgeSlots,     \* execution.concurrency of the bridge's worker (4)
    HostCrashLimit,  \* bound: crashes of the host
    NoState          \* no state file

(* What parseAgentConfig makes of an agent's entry: bound to a connection   *)
(* revision, with a fixed model argument, requiring an execution workspace. *)
ParsedAgentConfig ==
    AgentProfile \in [bound : BOOLEAN, modelPrefix : BOOLEAN, requireWorkspace : BOOLEAN]

\* parseCallbackKeys, and the secrets that stand in for it.
CallbackKeysParse == HostEnv.keys \in {"map", "secret"}

(* parseHostConfig: without EXECUTOR_HOST_AGENTS the host is the dynamic    *)
(* bridge, which needs a token and callback keys of its own; with it, every *)
(* entry must parse under a distinct port.                                  *)
ParseHostConfig ==
    CASE HostEnv.agents = "absent" -> IF HostEnv.token /\ CallbackKeysParse THEN "bridge"
                                                                            ELSE "refused"
      [] HostEnv.agents = "valid"  -> IF HostEnv.keys = "malformed" THEN "refused" ELSE "agents"
      [] OTHER                     -> "refused"

Bridge == ParseHostConfig = "bridge"

ASSUME HostAssumption ==
    /\ HostEnv \in [agents : {"absent", "valid", "no json", "empty", "same port"},
                    token : BOOLEAN, keys : {"absent", "map", "secret", "malformed"}]
    /\ HostCrashLimit \in Nat /\ BridgeSlots \in Nat \ {0}
    /\ NoState \notin HostRuns
    /\ Shape \in [HostRuns ->
         [connection : {"none", "match", "other", "otherhash"},
          model : {"none", "valid", "invalid"},
          workspace : {"none", "malformed", "relative", "missing", "outside", "inside"}]]
    /\ ParsedAgentConfig

VARIABLES
    host,    \* "down", "sweeping", "grace" or "serving"
    file,    \* the invocation recorded in <stateDir>/<agent>.json
    leader,  \* the child of an invocation: none, alive, or how it exited
    kin,     \* its process group has other members alive
    sup,     \* the supervisor's promise for an invocation
    hostCrashes

hostVars == <<host, file, leader, kin, sup, hostCrashes>>

ChildExitCodes == {"exit0", "exit1", "SIGTERM", "SIGKILL"}
Triggers == {"wall", "shutdown"}
HostOutcomes == {"none", "succeeded", "failed", "killed", "output_limit", "spawn_failed", "refused"}

IdleRun == [pc |-> "idle", fired |-> {}, trigger |-> "wall", limitHit |-> FALSE,
         recorded |-> FALSE, outcome |-> "none"]

HostTypeOK ==
    /\ host \in {"down", "sweeping", "grace", "serving"}
    /\ file \in HostRuns \cup {NoState}
    /\ leader \in [HostRuns -> {"none", "alive"} \cup ChildExitCodes]
    /\ kin \in [HostRuns -> BOOLEAN]
    /\ sup \in [HostRuns -> [pc : {"idle", "spawned", "watching", "settled", "lost"},
                             fired : SUBSET Triggers, trigger : Triggers,
                             limitHit : BOOLEAN, recorded : BOOLEAN, outcome : HostOutcomes]]
    /\ hostCrashes \in 0..HostCrashLimit

HostInit ==
    /\ host = "serving" /\ file = NoState /\ hostCrashes = 0
    /\ leader = [i \in HostRuns |-> "none"]
    /\ kin = [i \in HostRuns |-> FALSE]
    /\ sup = [i \in HostRuns |-> IdleRun]

Watched(i) == sup[i].pc \in {"spawned", "watching"}

-----------------------------------------------------------------------------
(* Before the spawn: everything fails closed. *)

\* The bridge has no profile of its own: it builds one from the revision the
\* invocation names, which must exist with the hash the invocation carries.
BridgeProfile(s) == s.connection = "match"

\* validateInvocationBinding against the agent's fixed configuration.
BindingHolds(s) ==
    /\ IF Bridge THEN BridgeProfile(s)
       ELSE s.connection = (IF AgentProfile.bound THEN "match" ELSE "none")
    /\ s.model # "none" => AgentProfile.modelPrefix /\ s.model = "valid"

\* parseExecutionWorkspaceMember: a member that does not parse fails closed.
MemberParses(s) == s.workspace # "malformed"

\* resolveExecutionCwd: the path the invocation carries must be absolute, exist
\* and resolve inside the allowed root or an authorised workspace.
CwdResolves(s) ==
    /\ MemberParses(s)
    /\ \/ s.workspace = "inside"
       \/ s.workspace = "none" /\ ~(Bridge \/ AgentProfile.requireWorkspace)

Slots == IF Bridge THEN BridgeSlots ELSE 1

HasSlot == Cardinality({i \in HostRuns : Watched(i)}) < Slots

Refuse(i) ==
    /\ host = "serving" /\ sup[i].pc = "idle" /\ HasSlot
    /\ ~(BindingHolds(Shape[i]) /\ CwdResolves(Shape[i]))
    /\ sup' = [sup EXCEPT ![i].pc = "settled", ![i].outcome = "refused"]
    /\ UNCHANGED <<host, file, leader, kin, hostCrashes>>

\* superviseProcess: spawn(detached).  A spawn that fails settles by the error
\* event, and the finally block clears the state file.
Spawn(i) ==
    /\ host = "serving" /\ sup[i].pc = "idle" /\ HasSlot
    /\ BindingHolds(Shape[i]) /\ CwdResolves(Shape[i])
    /\ \/ /\ sup' = [sup EXCEPT ![i].pc = "spawned"]
          /\ leader' = [leader EXCEPT ![i] = "alive"]
          /\ UNCHANGED file
       \/ /\ sup' = [sup EXCEPT ![i].pc = "settled", ![i].outcome = "spawn_failed"]
          /\ file' = NoState
          /\ UNCHANGED leader
    /\ UNCHANGED <<host, kin, hostCrashes>>

\* The spawn event: writeRunState, which may fail ("orphan protection degraded").
OnSpawn(i) ==
    /\ host = "serving" /\ sup[i].pc = "spawned"
    /\ \E written \in BOOLEAN :
          /\ sup' = [sup EXCEPT ![i].pc = "watching", ![i].recorded = written]
          /\ file' = IF written THEN i ELSE file
    /\ UNCHANGED <<host, leader, kin, hostCrashes>>

-----------------------------------------------------------------------------
(* The child and its supervisor. *)

\* The child forks: its group gains a member.
Fork(i) ==
    /\ leader[i] = "alive" /\ ~kin[i]
    /\ kin' = [kin EXCEPT ![i] = TRUE]
    /\ UNCHANGED <<host, file, leader, sup, hostCrashes>>

\* The child ends by itself, or is killed by someone else.
ChildExits(i) ==
    /\ leader[i] = "alive"
    /\ \E how \in {"exit0", "exit1", "SIGKILL"} : leader' = [leader EXCEPT ![i] = how]
    /\ UNCHANGED <<host, file, kin, sup, hostCrashes>>

\* escalate: the wall clock or the worker's abort sends SIGTERM to the group; a
\* child may ignore it, die of it, or catch it and exit.
Escalate(i, trigger) ==
    /\ host = "serving" /\ Watched(i) /\ trigger \notin sup[i].fired
    /\ sup' = [sup EXCEPT ![i].fired = @ \cup {trigger}, ![i].trigger = trigger]
    /\ \/ UNCHANGED leader
       \/ /\ leader[i] = "alive"
          /\ \E how \in {"SIGTERM", "exit0", "exit1"} : leader' = [leader EXCEPT ![i] = how]
    /\ UNCHANGED <<host, file, kin, hostCrashes>>

\* The grace timer: killGroup(SIGKILL), a no-op once the child has exited.
KillTimer(i) ==
    /\ host = "serving" /\ Watched(i) /\ sup[i].fired # {} /\ leader[i] = "alive"
    /\ leader' = [leader EXCEPT ![i] = "SIGKILL"]
    /\ kin' = [kin EXCEPT ![i] = FALSE]
    /\ UNCHANGED <<host, file, sup, hostCrashes>>

\* boundStream: a chunk over the byte bound kills the group at once.
OverLimit(i) ==
    /\ host = "serving" /\ Watched(i) /\ ~sup[i].limitHit /\ leader[i] = "alive"
    /\ sup' = [sup EXCEPT ![i].limitHit = TRUE]
    /\ leader' = [leader EXCEPT ![i] = "SIGKILL"]
    /\ kin' = [kin EXCEPT ![i] = FALSE]
    /\ UNCHANGED <<host, file, hostCrashes>>

\* The order in which the exit handler reads what happened.
HostOutcomeOf(i) ==
    IF sup[i].limitHit THEN "output_limit"
    ELSE IF leader[i] \in {"SIGTERM", "SIGKILL"} THEN "killed"
    ELSE IF leader[i] = "exit0" THEN "succeeded" ELSE "failed"

\* Mutant: the exit handler relies on killGroup, a no-op for an exited child.
SurvivorsOfExit(i) == kin[i]

\* process.kill(-pid, SIGKILL) of the exit handler.
GroupAfterExit(i) == FALSE

\* The exit event: kill what is left of the group, settle once, and in the
\* finally block of the handler clear the agent's state file.
OnExit(i) ==
    /\ host = "serving" /\ sup[i].pc = "watching" /\ leader[i] \in ChildExitCodes
    /\ kin' = [kin EXCEPT ![i] = GroupAfterExit(i)]
    /\ sup' = [sup EXCEPT ![i].pc = "settled", ![i].outcome = HostOutcomeOf(i)]
    /\ file' = NoState
    /\ UNCHANGED <<host, leader, hostCrashes>>

-----------------------------------------------------------------------------
(* Crash and restart. *)

\* The host dies: its timers and promises are gone, the groups live on.
Crash ==
    /\ host # "down" /\ hostCrashes < HostCrashLimit
    /\ hostCrashes' = hostCrashes + 1
    /\ host' = "down"
    /\ sup' = [i \in HostRuns |-> IF Watched(i) THEN [sup[i] EXCEPT !.pc = "lost"] ELSE sup[i]]
    /\ UNCHANGED <<file, leader, kin>>

\* startHostWorkers: the bridge serves at once, an agent is swept first.
RestartHost ==
    /\ host = "down" /\ ParseHostConfig # "refused"
    /\ host' = IF Bridge THEN "serving" ELSE "sweeping"
    /\ UNCHANGED <<file, leader, kin, sup, hostCrashes>>

\* terminateOrphan, first half.  An exited child's pid may be in use again; its
\* start time then differs and nothing is killed.  A live child whose identity
\* ps cannot confirm is left alone as well.
Sweep ==
    /\ host = "sweeping"
    /\ \/ /\ file \notin {i \in HostRuns : leader[i] = "alive"}
          /\ file' = NoState /\ host' = "serving"
          /\ UNCHANGED <<leader, sup>>
       \/ /\ file # NoState /\ leader[file] = "alive"
          /\ file' = NoState /\ host' = "serving"
          /\ sup' = [sup EXCEPT ![file].recorded = FALSE]
          /\ UNCHANGED leader
       \/ /\ file # NoState /\ leader[file] = "alive"
          /\ host' = "grace"
          /\ \E how \in {"alive", "SIGTERM", "exit0"} : leader' = [leader EXCEPT ![file] = how]
          /\ UNCHANGED <<file, sup>>
    /\ UNCHANGED <<kin, hostCrashes>>

\* terminateOrphan, second half: SIGKILL the group only if its leader is alive.
SweepGrace ==
    /\ host = "grace"
    /\ IF leader[file] = "alive"
       THEN /\ leader' = [leader EXCEPT ![file] = "SIGKILL"]
            /\ kin' = [kin EXCEPT ![file] = FALSE]
       ELSE UNCHANGED <<leader, kin>>
    /\ file' = NoState /\ host' = "serving"
    /\ UNCHANGED <<sup, hostCrashes>>

HostNext ==
    \/ Crash \/ RestartHost \/ Sweep \/ SweepGrace
    \/ \E i \in HostRuns :
          \/ Refuse(i) \/ Spawn(i) \/ OnSpawn(i) \/ Fork(i) \/ ChildExits(i)
          \/ KillTimer(i) \/ OverLimit(i) \/ OnExit(i)
          \/ \E trigger \in Triggers : Escalate(i, trigger)

HostSpec == HostInit /\ [][HostNext]_hostVars

-----------------------------------------------------------------------------
(* Properties. *)

\* A run that settled leaves no member of its process group alive, whichever
\* of exit, kill and output limit came first (the exit handler's group kill).
SettledGroupIsGone ==
    \A i \in HostRuns : sup[i].pc = "settled" => leader[i] # "alive" /\ ~kin[i]

\* A host that serves has terminated the child an earlier life of it recorded
\* and can identify: it never runs next to its own orphan (terminateOrphan).
RecordedOrphanIsTerminated ==
    host = "serving" =>
        \A i \in HostRuns : sup[i].pc = "lost" /\ sup[i].recorded => leader[i] # "alive"

\* The state file names a child this host watches, or one a crash left behind;
\* no run ever clears or overwrites the record of another one.
ActiveRunIsRecorded ==
    \A i \in HostRuns :
        sup[i].pc = "watching" /\ sup[i].recorded /\ host = "serving" => file = i

\* Every supervised child settles in exactly one outcome unless the host dies:
\* one that ignores SIGTERM is killed (the wall clock and the grace timer).
SupervisionSettles ==
    \A i \in HostRuns : sup[i].pc = "spawned" ~> sup[i].pc \in {"settled", "lost"}

=============================================================================
