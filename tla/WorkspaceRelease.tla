-------------------------- MODULE WorkspaceRelease --------------------------
(***************************************************************************)
(* The audited release of one execution workspace: an operator command     *)
(* that removes the worktree of a preserved lease with git, without        *)
(* --force.  Intent is committed first (operator_actions, REQUESTED), then *)
(* claimed (EXECUTING with an owner token and the process's identity),     *)
(* then the target is taken (RELEASE_REQUESTED plus a lock row), then git  *)
(* runs, then one transaction ends lease, lock and intent together.        *)
(*                                                                         *)
(* An operation is an idempotency key; a call is one delivery of a release *)
(* command.  A call that meets another pending operation does not replace  *)
(* it: it takes over the claim of that operation when its owner is gone,   *)
(* drives it, and reports what became of it.  The owner of a claim is gone *)
(* when the claim names another process, or no call of this process holds  *)
(* the token.  A crash ends every call of a process; the process comes     *)
(* back with a new identity.                                               *)
(***************************************************************************)
EXTENDS Naturals, FiniteSets

CONSTANTS
    Ops,          \* release operations: idempotency keys
    Calls,        \* deliveries of release commands
    Processes,    \* orchestrator processes
    MaxRestarts,  \* bound: no process restarts once one has so often
    NoToken       \* no operation, no call

ASSUME ReleaseAssumption ==
    /\ MaxRestarts \in Nat
    /\ NoToken \notin Ops \cup Calls

VARIABLES
    ws,        \* the lease row: state, releaseOperationId, failureCode set
    worktree,  \* what git finds in the execution path
    lock,      \* workspace_release_locks: the operation that holds the target
    intent,    \* operator_actions rows of the release operations
    epoch,     \* restarts of each process
    call,      \* calls in progress
    sweeper    \* the sweep's observation of the lease, or idle

releaseVars == <<ws, worktree, lock, intent, epoch, call, sweeper>>

Pending == {"REQUESTED", "EXECUTING"}
ReleasePhases == Pending \cup {"none", "REMOVED", "REFUSED", "IN_PROGRESS", "INTERRUPTED", "OTHER"}

\* The identity of a process: a random id drawn when it starts.
Pid(p) == <<p, epoch[p]>>

NoRelease == [phase |-> "none", pid |-> <<>>, token |-> NoToken, marked |-> FALSE]

ReleaseInit ==
    /\ ws \in [state : {"PRESERVED", "FAILED"}, op : {NoToken}, code : {FALSE}]
    /\ worktree \in {"clean", "dirty"}
    /\ lock = NoToken
    /\ intent = [o \in Ops |-> NoRelease]
    /\ epoch = [p \in Processes |-> 0]
    /\ call = [c \in Calls |-> [pc |-> "idle", own |-> NoToken, op |-> NoToken, p |-> NoToken,
                                pid |-> <<>>, seen |-> NoRelease, result |-> "none"]]
    /\ sweeper = [pc |-> "idle", op |-> NoToken, acts |-> {}]

-----------------------------------------------------------------------------
IsPending(o) == o # NoToken /\ intent[o].phase \in Pending

Final(phase) == [NoRelease EXCEPT !.phase = phase]

SetIntent(o, row) == intent' = [intent EXCEPT ![o] = row]

Step(c, pc) == call' = [call EXCEPT ![c].pc = pc]

\* Points at which the token of a call is registered as active.
Holding == {"enter", "acquire", "authorise", "git", "persist", "reobserve",
            "failed", "lost", "not releasable"}

\* isActiveToken: the registry is memory of the process of the claim.
ActiveToken(o, row) ==
    /\ row.token # NoToken
    /\ call[row.token].op = o
    /\ call[row.token].pc \in Holding
    /\ call[row.token].pid = row.pid

\* The operation belongs to the caller itself, not to one it recovers.
Drives(c) == call[c].op = call[c].own

\* hasReleaseClaim.
HasClaim(c) ==
    LET row == intent[call[c].op]
    IN row.phase = "EXECUTING" /\ row.pid = call[c].pid /\ row.token = c

Others(c) == {o \in Ops \ {call[c].own} : IsPending(o)}

-----------------------------------------------------------------------------
\* releaseExecutionWorkspace, step 1: the intent is committed, or the outcome
\* stored under the key is answered.
Request(c, o, p) ==
    /\ call[c].pc = "idle"
    /\ LET row == IF intent[o].phase = "none" THEN Final("REQUESTED") ELSE intent[o]
       IN /\ SetIntent(o, row)
          /\ call' = [call EXCEPT ![c] =
                [pc |-> CASE row.phase \in Pending -> "observe"
                          [] row.phase = "INTERRUPTED" -> "resume"
                          [] OTHER -> "done",
                 own |-> o, op |-> o, p |-> p, pid |-> Pid(p), seen |-> row,
                 result |-> IF row.phase = "REMOVED" THEN "removed" ELSE "none"]]
    /\ UNCHANGED <<ws, worktree, lock, epoch, sweeper>>

\* An interrupted operation is reset under its key, by compare and set.
Resume(c) ==
    /\ call[c].pc = "resume"
    /\ LET o == call[c].own
       IN IF intent[o].phase = "INTERRUPTED"
          THEN /\ SetIntent(o, Final("REQUESTED"))
               /\ call' = [call EXCEPT ![c].pc = "observe", ![c].seen = Final("REQUESTED")]
          ELSE /\ Step(c, "done")
               /\ UNCHANGED intent
    /\ UNCHANGED <<ws, worktree, lock, epoch, sweeper>>

\* The owner of a pending operation is gone: another process, or a token no
\* call of this process holds.
OwnerGone(c, o) ==
    /\ intent[o].phase = "EXECUTING"
    /\ intent[o].pid # call[c].pid \/ ~ActiveToken(o, intent[o])

\* The call observes the lease first.  A removed worktree ends every pending
\* operation; a release owned by another operation is recovered or reported.
ObserveLease(c) ==
    /\ call[c].pc = "observe"
    /\ LET o == call[c].own
       IN \/ /\ ws.state = "REMOVED"
             /\ intent' = [x \in Ops |-> IF x = o \/ x \in Others(c)
                                         THEN Final("REMOVED") ELSE intent[x]]
             /\ call' = [call EXCEPT ![c].pc = "done", ![c].result = "removed"]
          \/ /\ ws.state = "RELEASE_REQUESTED" /\ ws.op # o
             /\ \/ OwnerGone(c, ws.op)
                \/ intent[ws.op].phase = "REQUESTED" /\ intent[ws.op].marked
             /\ call' = [call EXCEPT ![c].pc = "recover", ![c].op = ws.op]
             /\ UNCHANGED intent
          \/ /\ ws.state = "RELEASE_REQUESTED" /\ ws.op # o
             /\ ~OwnerGone(c, ws.op)
             /\ ~(intent[ws.op].phase = "REQUESTED" /\ intent[ws.op].marked)
             /\ SetIntent(o, Final("IN_PROGRESS"))
             /\ Step(c, "done")
          \/ /\ ~(ws.state = "REMOVED" \/ (ws.state = "RELEASE_REQUESTED" /\ ws.op # o))
             /\ Step(c, "others")
             /\ UNCHANGED intent
    /\ UNCHANGED <<ws, worktree, lock, epoch, sweeper>>

\* Then the other pending operations on the lease: a live one is reported, an
\* abandoned one is recovered, and only then is the call's own claimed.
ObserveOthers(c) ==
    /\ call[c].pc = "others"
    /\ LET o == call[c].own
           live == {x \in Others(c) : /\ intent[x].phase = "EXECUTING"
                                      /\ intent[x].pid = call[c].pid
                                      /\ ActiveToken(x, intent[x])}
           stale == {x \in Others(c) : intent[x].phase = "EXECUTING"
                                         /\ intent[x].pid # call[c].pid}
           asked == {x \in Others(c) : intent[x].phase = "REQUESTED"
                        /\ ws.state \in {"PRESERVED", "FAILED", "RELEASE_REQUESTED"}}
       IN \/ /\ live # {}
             /\ SetIntent(o, Final("IN_PROGRESS"))
             /\ Step(c, "done")
          \/ /\ live = {}
             /\ \E x \in IF stale # {} THEN stale ELSE asked :
                  call' = [call EXCEPT ![c].pc = "recover", ![c].op = x]
             /\ UNCHANGED intent
          \/ /\ live = {} /\ stale = {} /\ asked = {}
             /\ Step(c, "claim")
             /\ UNCHANGED intent
    /\ UNCHANGED <<ws, worktree, lock, epoch, sweeper>>

-----------------------------------------------------------------------------
\* A release ends: the lease lets its operation go and the lock is deleted.
EndLease(state, code) ==
    /\ ws' = [state |-> state, op |-> NoToken, code |-> code]
    /\ lock' = NoToken

\* tryRecoverStaleOperation reads the operation; one this process marked as
\* recoverable and whose worktree is gone ends at once, by the transaction
\* that ends a release (a REQUESTED row is not asked for its token).
Recover(c) ==
    /\ call[c].pc = "recover"
    /\ LET o == call[c].op
           row == intent[o]
           finished == /\ row.marked /\ row.phase = "REQUESTED" /\ row.pid = call[c].pid
                       /\ ws.state = "RELEASE_REQUESTED" /\ ws.op = o
                       /\ worktree = "absent" /\ lock \in {NoToken, o}
       IN \/ /\ ~IsPending(o)
             /\ Step(c, "report")
             /\ UNCHANGED <<ws, lock, intent>>
          \/ /\ IsPending(o) /\ finished
             /\ EndLease("REMOVED", FALSE)
             /\ SetIntent(o, Final("REMOVED"))
             /\ Step(c, "report")
          \/ /\ IsPending(o) /\ ~finished
             /\ call' = [call EXCEPT ![c].pc = "claim", ![c].seen = row]
             /\ UNCHANGED <<ws, lock, intent>>
    /\ UNCHANGED <<worktree, epoch, sweeper>>

\* claimReleaseOwnership: what was read decides, a compare and set on phase,
\* process and token commits it.
ReleaseClaimable(c, row) ==
    /\ row.phase = call[c].seen.phase
    /\ \/ row.phase = "REQUESTED"
       \/ /\ row.phase = "EXECUTING"
          /\ row.pid = call[c].seen.pid /\ row.token = call[c].seen.token
          /\ row.pid = call[c].pid => ~ActiveToken(call[c].op, call[c].seen)

Claim(c) ==
    /\ call[c].pc = "claim"
    /\ LET o == call[c].op
       IN IF ReleaseClaimable(c, intent[o])
          THEN /\ SetIntent(o, [phase |-> "EXECUTING", pid |-> call[c].pid, token |-> c,
                                marked |-> FALSE])
               /\ Step(c, IF Drives(c) THEN "enter" ELSE "reobserve")
          ELSE /\ Step(c, IF Drives(c) THEN "done" ELSE "report")
               /\ UNCHANGED intent
    /\ UNCHANGED <<ws, worktree, lock, epoch, sweeper>>

\* A recovery looks at the worktree again before it drives git; git may fail
\* to say.
Reobserve(c) ==
    /\ call[c].pc = "reobserve"
    /\ \/ /\ worktree = "absent" \/ ws.state = "REMOVED"
          /\ call' = [call EXCEPT ![c].pc = "persist", ![c].result = "REMOVED"]
       \/ /\ ws.state # "REMOVED"
          /\ Step(c, "enter")
    /\ UNCHANGED <<ws, worktree, lock, intent, epoch, sweeper>>

-----------------------------------------------------------------------------
\* WorkspaceExecutionService.releaseExecutionWorkspace.

Enter(c) ==
    /\ call[c].pc = "enter"
    /\ Step(c, CASE ~HasClaim(c) \/ ws.state = "REMOVED" -> "lost"
                 [] ws.state = "RELEASE_REQUESTED" /\ ws.op = call[c].op -> "authorise"
                 [] ws.state = "RELEASE_REQUESTED" /\ ws.op # call[c].op -> "lost"
                 [] ws.state \in {"PRESERVED", "FAILED"} -> "acquire"
                 [] OTHER -> "not releasable")
    /\ UNCHANGED <<ws, worktree, lock, intent, epoch, sweeper>>

\* tryAcquireTarget: one transaction under an advisory lock; an operation
\* that is still pending keeps the target even when the lease says otherwise.
TargetFree(o) == ~IsPending(ws.op) /\ ~IsPending(lock)

Acquire(c) ==
    /\ call[c].pc = "acquire"
    /\ LET o == call[c].op
       IN \/ /\ ws.state \in {"PRESERVED", "FAILED"} /\ TargetFree(o)
             /\ ws' = [state |-> "RELEASE_REQUESTED", op |-> o, code |-> FALSE]
             /\ lock' = o
             /\ Step(c, "authorise")
          \/ /\ ws.state \in {"PRESERVED", "FAILED"} /\ ~TargetFree(o)
             /\ Step(c, IF IsPending(lock) THEN "lost" ELSE "not releasable")
             /\ UNCHANGED <<ws, lock>>
          \/ /\ ws.state \notin {"PRESERVED", "FAILED"}
             /\ call' = [call EXCEPT
                  ![c].pc = CASE ws.state = "RELEASE_REQUESTED" /\ ws.op = o -> "authorise"
                              [] ws.state = "RELEASE_REQUESTED" /\ ws.op # o -> "lost"
                              [] ws.state = "REMOVED" /\ Drives(c) -> "done"
                              [] ws.state = "REMOVED" /\ ~Drives(c) -> "report"
                              [] OTHER -> "not releasable",
                  ![c].result = IF ws.state = "REMOVED" THEN "removed" ELSE @]
             /\ UNCHANGED <<ws, lock>>
    /\ UNCHANGED <<worktree, intent, epoch, sweeper>>

\* The claim is read a second time at the boundary of git.
Authorised(c) == HasClaim(c)

Authorise(c) ==
    /\ call[c].pc = "authorise"
    /\ call' = [call EXCEPT ![c].pc = IF Authorised(c) THEN "git" ELSE "persist",
                            ![c].result = IF Authorised(c) THEN @ ELSE "REFUSED"]
    /\ UNCHANGED <<ws, worktree, lock, intent, epoch, sweeper>>

\* worktreeIsRegistered and removeGitWorktree, synchronously: a failed probe
\* proves nothing, git refuses a dirty tree, git may fail on a clean one.
Git(c) ==
    /\ call[c].pc = "git"
    /\ \/ /\ worktree # "dirty"
          /\ worktree' = "absent"
          /\ call' = [call EXCEPT ![c].pc = "persist", ![c].result = "REMOVED"]
       \/ /\ call' = [call EXCEPT ![c].pc = "persist", ![c].result = "REFUSED"]
          /\ UNCHANGED worktree
    /\ UNCHANGED <<ws, lock, intent, epoch, sweeper>>

\* persistTerminalRelease's guards.
MayPersist(c) ==
    LET o == call[c].op
        row == intent[o]
    IN /\ ws.op = o
       /\ lock \in {NoToken, o}
       /\ row.phase \in Pending
       /\ row.phase = "EXECUTING" => row.token = c /\ row.pid = call[c].pid

\* One transaction ends lease, lock and operation; it may fail as a whole.
Persist(c) ==
    /\ call[c].pc = "persist"
    /\ LET o == call[c].op
       IN \/ /\ MayPersist(c)
             /\ EndLease(IF call[c].result = "REMOVED" THEN "REMOVED" ELSE "PRESERVED",
                         call[c].result = "REFUSED")
             /\ SetIntent(o, Final(call[c].result))
             /\ call' = [call EXCEPT
                  ![c].pc = IF Drives(c) THEN "done" ELSE "report",
                  ![c].result = IF @ = "REMOVED" THEN "removed" ELSE "none"]
          \/ /\ call' = [call EXCEPT ![c].pc = IF MayPersist(c) THEN "failed" ELSE "lost",
                                     ![c].result = "none"]
             /\ UNCHANGED <<ws, lock, intent>>
    /\ UNCHANGED <<worktree, epoch, sweeper>>

\* readRecoveredReleaseTruth: what the rows say became of an operation.
Truth(o) ==
    CASE ws.state = "REMOVED" -> "REMOVED"
      [] ws.state = "PRESERVED" /\ ws.code -> "REFUSED"
      [] intent[o].phase \in {"REMOVED", "REFUSED", "INTERRUPTED"} -> intent[o].phase
      [] OTHER -> "IN_PROGRESS"

\* The rows of an operation that still owns its target.
StillOwns(o) == ws.op = o /\ lock = o /\ IsPending(o)

Marked(c) == [phase |-> "REQUESTED", pid |-> call[c].pid,
              token |-> intent[call[c].op].token, marked |-> TRUE]

\* The call leaves: its token is unregistered, and an operation that still
\* owns the target is marked as recoverable (an own operation that a database
\* error ended without owning it is reported interrupted; a refused one that
\* never reached git keeps the refusal).
Leave(c) ==
    /\ call[c].pc \in {"failed", "lost", "not releasable"}
    /\ LET o == call[c].op
           mine == Drives(c) \/ (intent[o].token = c /\ intent[o].pid = call[c].pid)
       IN \/ /\ call[c].pc = "not releasable" /\ Drives(c)
             /\ SetIntent(o, Final("REFUSED"))
          \/ /\ ~(call[c].pc = "not releasable" /\ Drives(c))
             /\ StillOwns(o) /\ intent[o].phase = "EXECUTING" /\ mine
             /\ SetIntent(o, Marked(c))
          \/ /\ call[c].pc = "failed" /\ Drives(c) /\ ~StillOwns(o)
             /\ SetIntent(o, Final(IF ws.state \in {"REMOVED", "PRESERVED"} /\ Truth(o) # "IN_PROGRESS"
                                   THEN Truth(o) ELSE "INTERRUPTED"))
          \/ /\ ~(call[c].pc = "not releasable" /\ Drives(c))
             /\ ~(StillOwns(o) /\ intent[o].phase = "EXECUTING" /\ mine)
             /\ ~(call[c].pc = "failed" /\ Drives(c) /\ ~StillOwns(o))
             /\ UNCHANGED intent
    /\ Step(c, IF Drives(c) THEN "done" ELSE "report")
    /\ UNCHANGED <<ws, worktree, lock, epoch, sweeper>>

\* observeRecoveredRelease: what became of the recovered operation is written
\* to the call's own one.
Report(c) ==
    /\ call[c].pc = "report"
    /\ SetIntent(call[c].own, Final(Truth(call[c].op)))
    /\ call' = [call EXCEPT ![c].pc = "done",
                            ![c].result = IF Truth(call[c].op) = "REMOVED" THEN "removed" ELSE "none"]
    /\ UNCHANGED <<ws, worktree, lock, epoch, sweeper>>

-----------------------------------------------------------------------------
\* The sweep of reconcileWorkspaceExecutions over a release.  It never runs
\* git: it drops a lock no pending operation holds, gives up a release whose
\* operation is gone, and finishes one whose worktree is gone.

SweepLocks ==
    /\ sweeper.pc = "idle"
    /\ lock' = IF /\ lock # NoToken /\ ws.state \in {"PRESERVED", "FAILED"}
                  /\ ws.op = NoToken /\ ~IsPending(lock)
               THEN NoToken ELSE lock
    /\ sweeper' = [pc |-> IF ws.state = "RELEASE_REQUESTED" THEN "lease" ELSE "actions",
                   op |-> ws.op, acts |-> {}]
    /\ UNCHANGED <<ws, worktree, intent, epoch, call>>

\* finalizeRelease: guarded by the operation the sweep saw on the lease.
SweepLease ==
    /\ sweeper.pc = "lease"
    /\ LET o == sweeper.op
           end == CASE ~IsPending(o) -> "PRESERVED"
                    [] IsPending(o) /\ worktree = "absent" -> "REMOVED"
                    [] OTHER -> "keep"
       IN IF end # "keep" /\ ws.op = o /\ lock \in {NoToken, o}
          THEN /\ EndLease(end, end = "PRESERVED")
          ELSE UNCHANGED <<ws, lock>>
    /\ sweeper' = [sweeper EXCEPT !.pc = "actions"]
    /\ UNCHANGED <<worktree, intent, epoch, call>>

\* The pending operations are listed, then settled one by one against the
\* lease as it is then, each written by id alone.
SweepList ==
    /\ sweeper.pc = "actions"
    /\ sweeper' = [sweeper EXCEPT !.pc = "settle",
                                  !.acts = {<<o, intent[o].phase>> : o \in {x \in Ops : IsPending(x)}}]
    /\ UNCHANGED <<ws, worktree, lock, intent, epoch, call>>

SettledPhase(o, phase) ==
    CASE ws.state = "REMOVED" -> "REMOVED"
      [] ws.state = "TRANSFERRED" -> "OTHER"
      [] ws.state = "FAILED" -> "REFUSED"
      [] ws.state = "RELEASE_REQUESTED" -> IF ws.op = o THEN "keep" ELSE "INTERRUPTED"
      [] ws.state = "PRESERVED" -> IF phase = "REQUESTED" THEN "keep" ELSE "INTERRUPTED"

SweepAction ==
    /\ sweeper.pc = "settle"
    /\ \/ \E a \in sweeper.acts :
            /\ LET end == SettledPhase(a[1], a[2])
               IN IF end = "keep" THEN UNCHANGED intent ELSE SetIntent(a[1], Final(end))
            /\ sweeper' = [sweeper EXCEPT !.acts = @ \ {a}]
       \/ /\ sweeper.acts = {}
          /\ sweeper' = [pc |-> "idle", op |-> NoToken, acts |-> {}]
          /\ UNCHANGED intent
    /\ UNCHANGED <<ws, worktree, lock, epoch, call>>

-----------------------------------------------------------------------------
\* A continuation takes the lease over (WorkspaceLease!CommitContinue).
Transfer ==
    /\ ws.state = "PRESERVED"
    /\ ws' = [ws EXCEPT !.state = "TRANSFERRED"]
    /\ UNCHANGED <<worktree, lock, intent, epoch, call, sweeper>>

\* Whoever inspects the preserved worktree leaves changes in it.
Inspect ==
    /\ worktree = "clean"
    /\ worktree' = "dirty"
    /\ UNCHANGED <<ws, lock, intent, epoch, call, sweeper>>

RestartProcess(p) ==
    /\ \A q \in Processes : epoch[q] < MaxRestarts
    /\ epoch' = [epoch EXCEPT ![p] = @ + 1]
    /\ call' = [c \in Calls |-> IF call[c].p = p /\ call[c].pc # "done"
                                THEN [call[c] EXCEPT !.pc = "dead"] ELSE call[c]]
    /\ UNCHANGED <<ws, worktree, lock, intent, sweeper>>

CallStep(c) ==
    \/ Resume(c) \/ ObserveLease(c) \/ ObserveOthers(c) \/ Recover(c) \/ Claim(c)
    \/ Reobserve(c) \/ Enter(c) \/ Acquire(c) \/ Authorise(c) \/ Git(c) \/ Persist(c)
    \/ Leave(c) \/ Report(c)

SweepStep == SweepLocks \/ SweepLease \/ SweepList \/ SweepAction

ReleaseNext ==
    \/ \E c \in Calls : CallStep(c)
    \/ \E c \in Calls, o \in Ops, p \in Processes : Request(c, o, p)
    \/ SweepStep
    \/ Transfer \/ Inspect
    \/ \E p \in Processes : RestartProcess(p)

ReleaseSpec == ReleaseInit /\ [][ReleaseNext]_releaseVars

-----------------------------------------------------------------------------
ReleaseTypeOK ==
    /\ ws \in [state : {"PRESERVED", "FAILED", "RELEASE_REQUESTED", "REMOVED", "TRANSFERRED"},
               op : Ops \cup {NoToken}, code : BOOLEAN]
    /\ worktree \in {"clean", "dirty", "absent"}
    /\ lock \in Ops \cup {NoToken}
    /\ \A o \in Ops : intent[o].phase \in ReleasePhases /\ intent[o].token \in Calls \cup {NoToken}

\* A release is never reported that did not happen: an operation that says
\* REMOVED, or a call answered so, means the lease is REMOVED and the
\* worktree is gone.
RemovedIsTrue ==
    /\ ws.state = "REMOVED" => worktree = "absent"
    /\ \A o \in Ops : intent[o].phase = "REMOVED" => ws.state = "REMOVED"
    /\ \A c \in Calls : call[c].result = "removed" => ws.state = "REMOVED"

\* A lease that is being released, its lock and its operation agree: the lock
\* names the lease's operation, and no other lease state carries one.
TargetHasOneOwner ==
    /\ ws.state = "RELEASE_REQUESTED" <=> ws.op # NoToken
    /\ lock = ws.op

\* At most one call at a time is past the last check before git.
OneGitDriver ==
    Cardinality({c \in Calls : call[c].pc = "git"}) <= 1

\* A lease another run took over is not released under it.
TransferredIsLeftAlone ==
    [][ws.state = "TRANSFERRED" => ws' = ws /\ (worktree' = "absent" => worktree = "absent")]_releaseVars
=============================================================================
