--------------------------- MODULE WorkspaceLease ---------------------------
(***************************************************************************)
(* Execution workspaces: the lease a Team Run holds on the directory its   *)
(* runtimes work in.  A start-team-run command allocates the lease before  *)
(* its authority transaction (the row is committed ALLOCATING, then        *)
(* `git worktree add` runs, then the row is marked READY) and binds it     *)
(* inside; a continue-run command moves the lease of an ended run to a new *)
(* one; every start first sweeps the leases of other runs.                 *)
(*                                                                         *)
(* A command is named by its idempotency key.  It creates at most one run  *)
(* and at most one lease, so the key also names both.  Git is synchronous  *)
(* in the program; the writes that follow an observation are not guarded   *)
(* by the state that was observed.                                         *)
(***************************************************************************)
EXTENDS Naturals, FiniteSets

CONSTANTS
    Starts,      \* start-team-run commands
    Isolated,    \* those that ask for an isolated git worktree
    Continues,   \* continue-run commands
    Source,      \* the start whose run a continue-run command continues
    Deliveries,  \* deliveries of commands (an operator's client may repeat)
    Overlap      \* TRUE: other sessions commit between an observation and
                 \* the unguarded write it leads to

ASSUME WorkspaceAssumption ==
    /\ Isolated \subseteq Starts
    /\ Starts \cap Continues = {}
    /\ Source \in [Continues -> Starts]
    /\ Overlap \in BOOLEAN

Leases == Starts \cup Continues

LeaseStates == {"NONE", "ALLOCATING", "READY", "IN_USE", "PRESERVED",
                "TRANSFERRED", "REMOVED", "FAILED"}

NoPayload == "no payload"

VARIABLES
    lease,    \* workspace_executions: state, ownerRunId set, failureCode set
    tree,     \* the worktree git created for an isolated start
    source,   \* the source workspace has uncommitted changes
    aged,     \* the row is older than allocationInterruptMs
    teamRun,  \* the run a command created
    audit,    \* payload of the command's operator_actions row
    delivery  \* deliveries in progress

leaseVars == <<lease, tree, source, aged, teamRun, audit, delivery>>

LeaseInit ==
    /\ lease = [l \in Leases |-> [state |-> "NONE", bound |-> FALSE, code |-> FALSE]]
    /\ tree = [s \in Isolated |-> "none"]
    /\ source = FALSE
    /\ aged = [l \in Leases |-> FALSE]
    /\ teamRun = [l \in Leases |-> "none"]
    /\ audit = [l \in Leases |-> NoPayload]
    /\ delivery = [d \in Deliveries |->
                     [pc |-> "idle", cmd |-> CHOOSE l \in Leases : TRUE,
                      payload |-> NoPayload, rows |-> {}]]

-----------------------------------------------------------------------------
\* The start whose worktree (or source workspace) lease l stands for.
RootOf(l) == IF l \in Continues THEN Source[l] ELSE l

IsIsolated(l) == RootOf(l) \in Isolated

\* worktreeIsRegistered, and HEAD still at the frozen commit.
Registered(l) == IsIsolated(l) /\ tree[RootOf(l)] # "none"
AtBaseHead(l) == tree[RootOf(l)] \in {"clean", "dirty"}

SetLease(l, state) == lease' = [lease EXCEPT ![l].state = state]

Goto(d, pc) == delivery' = [delivery EXCEPT ![d].pc = pc]

\* Points of a delivery at which it is about to write what it has observed.
InHand == {"sweep", "adopt", "added", "not added", "runs"}

Quiet == Overlap \/ \A d \in Deliveries : delivery[d].pc \notin InHand

At(d, pc) == delivery[d].pc = pc

-----------------------------------------------------------------------------
\* reconcileWorkspaceExecutions, first step of an allocation: three lists,
\* read one after the other; each row of a list is then written by id alone.

\* The list the next scan reads: ALLOCATING rows, unbound READY rows, and
\* IN_USE rows.
ListOf(pc) ==
    CASE pc = "scan allocating" -> {l \in Leases : lease[l].state = "ALLOCATING"}
      [] pc = "scan ready" -> {l \in Leases : lease[l].state = "READY" /\ ~lease[l].bound}
      [] pc = "scan in use" -> {l \in Leases : lease[l].state = "IN_USE"}

Scans == {"scan allocating", "scan ready", "scan in use"}

AfterScan(list) ==
    CASE list = "scan allocating" -> "scan ready"
      [] list = "scan ready" -> "scan in use"
      [] OTHER -> "lookup"

ReadList(d) ==
    /\ delivery[d].pc \in Scans
    /\ LET rows == ListOf(delivery[d].pc)
           list == delivery[d].pc
       IN delivery' = [delivery EXCEPT
            ![d].rows = {<<list, l>> : l \in rows},
            ![d].pc = IF rows = {} THEN AfterScan(list)
                      ELSE IF list = "scan in use" THEN "runs" ELSE "sweep"]
    /\ UNCHANGED <<lease, tree, source, aged, teamRun, audit>>

\* Mutant: a lease in use is swept without asking for its run.
ReadRunsUnasked(d) ==
    /\ At(d, "runs")
    /\ Goto(d, "sweep")
    /\ UNCHANGED <<lease, tree, source, aged, teamRun, audit>>

\* The owners of the IN_USE rows are read after the rows: only rows of ended
\* runs stay.
ReadRuns(d) ==
    /\ At(d, "runs")
    /\ LET rows == {r \in delivery[d].rows : teamRun[r[2]] = "ended"}
       IN delivery' = [delivery EXCEPT ![d].rows = rows,
                                       ![d].pc = IF rows = {} THEN "lookup" ELSE "sweep"]
    /\ UNCHANGED <<lease, tree, source, aged, teamRun, audit>>

\* What the sweep writes to a row of a list.
SweptState(list, l) ==
    CASE list = "scan allocating" /\ Registered(l) ->
           IF AtBaseHead(l) THEN "READY" ELSE "FAILED"
      [] list = "scan allocating" /\ ~Registered(l) /\ aged[l] -> "FAILED"
      [] list = "scan ready" /\ aged[l] -> "FAILED"
      [] list = "scan in use" -> "PRESERVED"
      [] OTHER -> lease[l].state

SweepRow(d) ==
    /\ At(d, "sweep")
    /\ \E r \in delivery[d].rows :
         /\ lease' = [lease EXCEPT
                ![r[2]].state = SweptState(r[1], r[2]),
                ![r[2]].code = @ \/ SweptState(r[1], r[2]) = "FAILED"]
         /\ delivery' = [delivery EXCEPT
                ![d].rows = @ \ {r},
                ![d].pc = IF delivery[d].rows = {r} THEN AfterScan(r[1]) ELSE @]
    /\ UNCHANGED <<tree, source, aged, teamRun, audit>>

-----------------------------------------------------------------------------
\* startTeamRun: the source is frozen into the request payload; an isolated
\* run is refused on a dirty source.
DeliverStart(d, s) ==
    /\ At(d, "idle")
    /\ delivery' = [delivery EXCEPT
          ![d].cmd = s,
          ![d].payload = IF source THEN "dirty source" ELSE "clean source",
          ![d].pc = IF source /\ s \in Isolated THEN "refused" ELSE "scan allocating"]
    /\ UNCHANGED <<lease, tree, source, aged, teamRun, audit>>

\* allocateExecutionWorkspace: an existing allocation of the same key.
LookupDelivery(d) ==
    /\ At(d, "lookup")
    /\ LET l == delivery[d].cmd
       IN Goto(d, CASE lease[l].state \in {"READY", "IN_USE"} -> "commit"
                    [] lease[l].state = "ALLOCATING" /\ Registered(l) /\ AtBaseHead(l) -> "adopt"
                    [] OTHER -> "insert")
    /\ UNCHANGED <<lease, tree, source, aged, teamRun, audit>>

\* An interrupted allocation whose worktree exists is taken over.
Adopt(d) ==
    /\ At(d, "adopt")
    /\ SetLease(delivery[d].cmd, "READY")
    /\ Goto(d, "commit")
    /\ UNCHANGED <<tree, source, aged, teamRun, audit>>

\* The row is inserted, ALLOCATING before git runs; the allocation key is
\* unique, so a second insert waits for the first allocator.
InsertLease(d) ==
    /\ At(d, "insert")
    /\ LET l == delivery[d].cmd
       IN IF lease[l].state = "NONE"
          THEN /\ SetLease(l, IF IsIsolated(l) THEN "ALLOCATING" ELSE "READY")
               /\ Goto(d, IF IsIsolated(l) THEN "git" ELSE "commit")
          ELSE /\ Goto(d, IF lease[l].state \in {"READY", "IN_USE"} \/ ~IsIsolated(l)
                          THEN "commit" ELSE "wait")
               /\ UNCHANGED lease
    /\ UNCHANGED <<tree, source, aged, teamRun, audit>>

\* The loser of the insert polls; it gives up when the allocation failed or
\* its fifty attempts are over.
AwaitAllocation(d) ==
    /\ At(d, "wait")
    /\ Goto(d, IF lease[delivery[d].cmd].state \in {"READY", "IN_USE"} THEN "commit" ELSE "refused")
    /\ UNCHANGED <<lease, tree, source, aged, teamRun, audit>>

\* addGitWorktree: the worktree exists after it, unless git failed.
GitAdd(d) ==
    /\ At(d, "git")
    /\ \/ /\ tree' = [tree EXCEPT ![delivery[d].cmd] = "clean"]
          /\ Goto(d, "added")
       \/ /\ Goto(d, "not added")
          /\ UNCHANGED tree
    /\ UNCHANGED <<lease, source, aged, teamRun, audit>>

\* The unguarded transition that ends an allocation.
EndAllocation(d) ==
    /\ delivery[d].pc \in {"added", "not added"}
    /\ LET l == delivery[d].cmd
           ok == At(d, "added")
       IN /\ lease' = [lease EXCEPT ![l].state = IF ok THEN "READY" ELSE "FAILED",
                                    ![l].code = @ \/ ~ok]
          /\ Goto(d, IF ok THEN "commit" ELSE "refused")
    /\ UNCHANGED <<tree, source, aged, teamRun, audit>>

\* runCommand: the answer to a command whose audit row exists.
Repeated(d) ==
    IF audit[delivery[d].cmd] = delivery[d].payload THEN "duplicate" ELSE "conflict"

\* bindExecutionWorkspace's guard.
Bindable(l) == lease[l].state = "READY" /\ ~lease[l].bound

\* The start's authority transaction: audit row, run and binding together.
CommitStart(d) ==
    /\ At(d, "commit")
    /\ LET l == delivery[d].cmd
       IN \/ /\ audit[l] # NoPayload
             /\ Goto(d, Repeated(d))
             /\ UNCHANGED <<lease, teamRun, audit>>
          \/ /\ audit[l] = NoPayload
             /\ Bindable(l)
             /\ lease' = [lease EXCEPT ![l].state = "IN_USE", ![l].bound = TRUE]
             /\ teamRun' = [teamRun EXCEPT ![l] = "live"]
             /\ audit' = [audit EXCEPT ![l] = delivery[d].payload]
             /\ Goto(d, "executed")
          \/ /\ audit[l] = NoPayload
             /\ ~Bindable(l)
             /\ Goto(d, "refused")
             /\ UNCHANGED <<lease, teamRun, audit>>
    /\ UNCHANGED <<tree, source, aged>>

-----------------------------------------------------------------------------
\* continueRun: the handoff bundle, built before the transaction, carries the
\* state of the source's lease; its hash is part of the request payload.
DeliverContinue(d, c) ==
    /\ At(d, "idle")
    /\ delivery' = [delivery EXCEPT
          ![d].cmd = c,
          ![d].payload = lease[Source[c]].state,
          ![d].pc = IF teamRun[Source[c]] = "ended" THEN "continue" ELSE "refused"]
    /\ UNCHANGED <<lease, tree, source, aged, teamRun, audit>>

\* transferExecutionWorkspaceWithManager's guard, or a fresh shared lease.
Transferable(s) == s \in Isolated => lease[s].state = "PRESERVED" /\ lease[s].bound

\* A continuation of the same source with the same bundle, already executed.
SameHandoff(d) ==
    \E c \in Continues : /\ Source[c] = Source[delivery[d].cmd]
                         /\ audit[c] = delivery[d].payload

CommitContinue(d) ==
    /\ At(d, "continue")
    /\ LET c == delivery[d].cmd
           s == Source[c]
       IN \/ /\ audit[c] # NoPayload
             /\ Goto(d, Repeated(d))
             /\ UNCHANGED <<lease, teamRun, audit>>
          \/ /\ audit[c] = NoPayload
             /\ SameHandoff(d)
             /\ audit' = [audit EXCEPT ![c] = delivery[d].payload]
             /\ Goto(d, "executed")
             /\ UNCHANGED <<lease, teamRun>>
          \/ /\ audit[c] = NoPayload
             /\ ~SameHandoff(d)
             /\ Transferable(s)
             /\ lease' = [lease EXCEPT
                   ![s].state = IF s \in Isolated THEN "TRANSFERRED" ELSE @,
                   ![c] = [state |-> "IN_USE", bound |-> TRUE, code |-> FALSE]]
             /\ teamRun' = [teamRun EXCEPT ![c] = "live"]
             /\ audit' = [audit EXCEPT ![c] = delivery[d].payload]
             /\ Goto(d, "executed")
          \/ /\ audit[c] = NoPayload
             /\ ~SameHandoff(d)
             /\ ~Transferable(s)
             /\ Goto(d, "refused")
             /\ UNCHANGED <<lease, teamRun, audit>>
    /\ UNCHANGED <<tree, source, aged>>

-----------------------------------------------------------------------------
\* The process serving a delivery dies.
CrashDelivery(d) ==
    /\ delivery[d].pc \notin {"idle", "dead", "executed", "duplicate", "conflict", "refused"}
    /\ Goto(d, "dead")
    /\ UNCHANGED <<lease, tree, source, aged, teamRun, audit>>

\* A live run's agents edit, or commit in, the directory of its lease.
AgentWork(l) ==
    /\ teamRun[l] = "live"
    /\ \/ /\ IsIsolated(l)
          /\ tree[RootOf(l)] # "none"
          /\ \E w \in {"dirty", "committed"} : tree' = [tree EXCEPT ![RootOf(l)] = w]
          /\ UNCHANGED source
       \/ /\ ~IsIsolated(l)
          /\ source' = TRUE
          /\ UNCHANGED tree
    /\ UNCHANGED <<lease, aged, teamRun, audit, delivery>>

\* preserveExecutionWorkspaceForRun, in the transaction that ends the run; an
\* iteration limit found at admission ends the run without it.
EndTeamRun(l, preserved) ==
    /\ teamRun[l] = "live"
    /\ teamRun' = [teamRun EXCEPT ![l] = "ended"]
    /\ IF preserved /\ lease[l].state = "IN_USE"
       THEN SetLease(l, "PRESERVED") ELSE UNCHANGED lease
    /\ UNCHANGED <<tree, source, aged, audit, delivery>>

\* Five minutes pass over a row.  Git is bounded to two, so the allocator of
\* an ageing row has finished or died.
AgeLease(l) ==
    /\ lease[l].state \in {"ALLOCATING", "READY"}
    /\ ~aged[l]
    /\ \A d \in Deliveries : delivery[d].cmd = l => delivery[d].pc \notin {"git", "added", "not added"}
    /\ aged' = [aged EXCEPT ![l] = TRUE]
    /\ UNCHANGED <<lease, tree, source, teamRun, audit, delivery>>

\* The whole release saga of WorkspaceRelease as one step: `git worktree
\* remove` without --force refuses a tree with uncommitted changes.
ReleaseLease(l) ==
    /\ IsIsolated(l)
    /\ lease[l].state \in {"PRESERVED", "FAILED"}
    /\ LET s == RootOf(l)
       IN IF tree[s] = "dirty"
          THEN /\ lease' = [lease EXCEPT ![l].state = "PRESERVED", ![l].code = TRUE]
               /\ UNCHANGED tree
          ELSE /\ lease' = [lease EXCEPT ![l].state = "REMOVED", ![l].code = FALSE]
               /\ tree' = [tree EXCEPT ![s] = "none"]
    /\ UNCHANGED <<source, aged, teamRun, audit, delivery>>

\* Steps that write what was observed before.
LeaseWrites(d) == SweepRow(d) \/ ReadRuns(d) \/ Adopt(d) \/ EndAllocation(d)

LeaseNext ==
    \/ \E d \in Deliveries : LeaseWrites(d) \/ CrashDelivery(d)
    \/ /\ Quiet
       /\ \/ \E d \in Deliveries :
               \/ ReadList(d) \/ LookupDelivery(d) \/ InsertLease(d) \/ AwaitAllocation(d)
               \/ GitAdd(d) \/ CommitStart(d) \/ CommitContinue(d)
               \/ \E s \in Starts : DeliverStart(d, s)
               \/ \E c \in Continues : DeliverContinue(d, c)
          \/ \E l \in Leases :
               \/ AgentWork(l) \/ AgeLease(l) \/ ReleaseLease(l)
               \/ \E p \in BOOLEAN : EndTeamRun(l, p)

LeaseSpec == LeaseInit /\ [][LeaseNext]_leaseVars

-----------------------------------------------------------------------------
LeaseTypeOK ==
    /\ lease \in [Leases -> [state : LeaseStates, bound : BOOLEAN, code : BOOLEAN]]
    /\ tree \in [Isolated -> {"none", "clean", "dirty", "committed"}]
    /\ teamRun \in [Leases -> {"none", "live", "ended"}]

\* Two runs never work in the same isolated worktree: of the leases on one
\* worktree at most one is held by a run that is still going.  Transfers and
\* bindings are guarded; the sweep's writes are not.
OneRunPerTree ==
    \A l, m \in Leases :
        /\ l # m /\ RootOf(l) = RootOf(m) /\ IsIsolated(l)
        /\ teamRun[l] = "live" /\ teamRun[m] = "live"
        => FALSE

\* The directory of a run that is still going is there, and its lease says
\* so: no sweep, release, transfer or repeated delivery takes it away.
LiveRunKeepsItsLease ==
    \A l \in Leases :
        teamRun[l] = "live" =>
            /\ lease[l].bound /\ lease[l].state = "IN_USE"
            /\ IsIsolated(l) => tree[RootOf(l)] # "none"

\* A lease that is READY has its worktree ("never falsely READY"), and the
\* worktree of a removed lease is gone, whatever order allocator, sweep,
\* release and crashes come in.
LeaseTellsTheTruth ==
    \A l \in Leases : IsIsolated(l) =>
        /\ lease[l].state = "READY" => tree[RootOf(l)] # "none"
        /\ lease[l].state = "REMOVED" => tree[RootOf(l)] = "none"

\* A tree with uncommitted work never disappears.
WorkIsPreserved ==
    [][\A s \in Isolated : tree[s] = "dirty" => tree'[s] # "none"]_leaseVars

\* Every delivery of a command is the same request, and after the first one
\* executed the others get its stored outcome.
RetryGetsStoredOutcome ==
    \A d \in Deliveries : delivery[d].pc # "conflict"
=============================================================================
