------------------------------ MODULE Runtime ------------------------------
(***************************************************************************)
(* The orchestrator core: every transaction of Scheduling, DispatchOutbox, *)
(* ResultInbox and Approvals over the shared tables, in any                *)
(* interleaving of replicas, dispatchers, sweeps, operators and workers.   *)
(***************************************************************************)
EXTENDS Scheduling, DispatchOutbox, ResultInbox, Approvals

PassStep(r) ==
  \/ BeginPass(r) \/ Advance(r) \/ ReadPlan(r) \/ ReadSteps(r)
  \/ FailExecution(r) \/ CompleteExecution(r) \/ ReconcileCancel(r)

Reconcile == Promote \/ \E r \in Reconcilers : PassStep(r)

ClaimStep(s) == ClaimRefused(s) \/ ClaimNeedsApproval(s) \/ Claim(s)

Schedule ==
  \E s \in Steps : AuthorityExpires(s) \/ ClaimSkips(s) \/ ClaimStep(s)

Cancel == RequestCancel \/ CancelCommit

Dispatch ==
  \/ \E d \in Dispatchers :
       \/ \E a \in Attempts : Lease(d, a)
       \/ Invoke(d) \/ MarkDispatched(d) \/ ReturnToPending(d)
       \/ FailNonRetryable(d) \/ CrashDispatcher(d)
  \/ \E a \in Attempts : NotifyCancel(a)

Report ==
  \E a \in Attempts :
    \/ WorkerResult(a) \/ DeadlineResult(a) \/ SupervisionResult(a)
    \/ AgentEvent(a)

Decision ==
  \/ \E a \in Attempts :
       Approve(a) \/ ApproveRefused(a) \/ Deny(a) \/ ExpireApproval(a)
  \/ \E p \in Proposals :
       Propose(p) \/ Activate(p) \/ ApprovePatch(p) \/ RefusePatch(p)

Next == Reconcile \/ Schedule \/ Cancel \/ Dispatch \/ Report \/ Decision

Spec == Init /\ [][Next]_vars

(***************************************************************************)
(* Fairness: only the recovery cycle of RuntimeRecoveryService is fair.    *)
(* Every tick it promotes and reconciles candidate executions, claims what *)
(* is due, and applies overdue deadlines and approval expiries; an open    *)
(* cancel transaction ends.  Dispatchers, workers and operators may stop   *)
(* at any point.                                                           *)
(***************************************************************************)
Fairness ==
  /\ WF_vars(Promote)
  /\ \A r \in Reconcilers : WF_vars(PassStep(r))
  /\ \A s \in Steps : WF_vars(ClaimStep(s))
  /\ WF_vars(CancelCommit)
  /\ \A a \in Attempts : WF_vars(DeadlineResult(a)) /\ WF_vars(ExpireApproval(a))

FairSpec == Spec /\ Fairness

(***************************************************************************)
(* Properties that hold whatever the transport does                        *)
(***************************************************************************)

\* No two attempts of one step are ever in progress together: a retry, a
\* resumed approval and a late result can meet in any order.
OneActiveAttempt ==
  \A s \in Steps : \A a, b \in AttemptsOf(s) :
    att[a] \in ActiveAttempt /\ att[b] \in ActiveAttempt => a = b

\* The outbox row tells where its attempt is: an attempt that may still be
\* sent has a row a dispatcher can find, an accepted one has its receipt,
\* and no row of a settled attempt can be sent again.
OutboxFollowsAttempt ==
  \A a \in Attempts :
    /\ att[a] \in {"NONE", "WAITING"} => outbox[a] = "NONE"
    /\ att[a] = "CREATED" => outbox[a] \in {"PENDING", "LEASED"}
    /\ att[a] \in {"DISPATCHED", "RUNNING"} => outbox[a] = "DISPATCHED" /\ a \in receipts
    /\ att[a] \in TerminalAttempt => outbox[a] \notin DispatchableRow

\* An applied result is the attempt's outcome (a success may have failed its
\* postcondition), whoever else tried to settle the attempt.
AppliedResultIsOutcome ==
  \A a \in Attempts :
    inbox[a] = "APPLIED" =>
      \/ att[a] = TerminalStatus(canonical[a])
      \/ canonical[a].status = "succeeded" /\ att[a] = "FAILED"

\* A dispatcher whose lease was taken over changes nothing when it reports
\* late: neither the row nor the attempt the newer claim owns.
SupersededDispatcherIsHarmless ==
  [][\A d \in Dispatchers, a \in Attempts :
       /\ disp[d].pc # "idle"
       /\ disp[d].inv = a
       /\ disp[d].token < leases[a]
       /\ disp'[d] # disp[d]
       => outbox'[a] = outbox[a] /\ att'[a] = att[a]]_vars

\* Neither a settled attempt nor a terminal execution is ever rewritten.
OutcomesAreFinal ==
  [][/\ exec \in TerminalExecution => exec' = exec
     /\ \A a \in Attempts : att[a] \in TerminalAttempt => att'[a] = att[a]]_vars

\* Once the execution is terminal no step is claimed and no row is leased.
TerminalRunStartsNothing ==
  [][(exec \in TerminalExecution) => tries' = tries /\ leases' = leases]_vars

\* What an observer of WorkAuthority sees of an attempt row.
WorkOf(status) ==
  CASE status = "NONE" -> "none"
    [] status = "WAITING" -> "waiting"
    [] status \in ActiveAttempt -> "active"
    [] OTHER -> status

Authority == INSTANCE WorkAuthority WITH
  Limit <- AttemptLimit,
  run <- exec,
  work <- [a \in Attempts |-> WorkOf(att[a])]

\* Every step of the orchestrator is a step of WorkAuthority or invisible
\* there: work is granted in sequence under a RUNNING execution, one attempt
\* at a time, and settled once.
ImplementsWorkAuthority == Authority!Spec

(***************************************************************************)
(* Properties of a transport whose permanent rejection is final, that is   *)
(* under ~RejectedWorkMayRun                                               *)
(***************************************************************************)
Latest(s) == <<s, tries[s]>>

\* The status a step shows is the status of its latest attempt, every
\* earlier attempt is settled and no later one exists: no result, refusal,
\* approval or sweep settles the step on behalf of another attempt.
StepShowsLatestAttempt ==
  \A s \in Steps :
    /\ step[s] \in {"NONE", "PENDING", "READY"} => tries[s] = 0
    /\ step[s] \in {"RUNNING", "RETRYING", "WAITING", "COMPLETED", "FAILED"} =>
         /\ tries[s] > 0
         /\ step[s] = "RUNNING" => att[Latest(s)] \in ActiveAttempt
         /\ step[s] = "WAITING" => att[Latest(s)] = "WAITING"
         /\ step[s] = "COMPLETED" => att[Latest(s)] = "SUCCESS"
         /\ step[s] \in {"RETRYING", "FAILED"} => att[Latest(s)] \in {"FAILED", "TIMED_OUT"}
    /\ \A a \in AttemptsOf(s) :
         /\ a[2] < tries[s] => att[a] \in {"FAILED", "TIMED_OUT"}
         /\ a[2] > tries[s] => att[a] = "NONE"

\* A step consumes at most the attempts its retries allow.
AttemptsAreBounded == \A s \in Steps : tries[s] <= MaxAttempts[s]

\* A step is only ever tried or skipped over dependencies that are resolved,
\* and that stay resolved.
DependenciesCameFirst ==
  \A s \in Steps : tries[s] > 0 \/ step[s] = "SKIPPED" =>
    \A d \in DependsOn[s] :
      /\ step[d] \in {"COMPLETED", "SKIPPED", "FAILED"}
      /\ step[d] = "FAILED" => OnFailure[d] = "continue"

\* A completed execution has no step left to run.
CompletedMeansAllTerminal ==
  exec = "COMPLETED" => \A s \in Plan : step[s] \in TerminalStep

\* An execution fails only for a cause its pipeline declares: a step whose
\* policy is not continue has failed, an input could not be resolved, or
\* the authority deadline passed.
FailureHasCause ==
  exec = "FAILED" =>
    \/ \E s \in Steps : step[s] = "FAILED" /\ OnFailure[s] # "continue"
    \/ BadInput # {}
    \/ AuthorityBound /\ \E s \in Steps : step[s] = "CANCELLED"

\* A step that has ended keeps its outcome.
StepOutcomesAreFinal ==
  [][\A s \in Steps : step[s] \in TerminalStep => step'[s] = step[s]]_vars

(***************************************************************************)
(* Plan revisions                                                          *)
(***************************************************************************)
Accepted == {p \in Proposals : proposal[p] = "ACCEPTED"}

\* Every revision after the first was activated by exactly one proposal that
\* named its predecessor as base, however activations race.
RevisionsAreSerial ==
  /\ {base[p] : p \in Accepted} = 1 .. (rev - 1)
  /\ \A p, q \in Accepted : base[p] = base[q] => p = q

\* A patch the policy gates is active only with a grant; a denied or expired
\* request never leaves an active plan behind.
GrantBeforeActivation ==
  \A p \in Accepted : PatchPolicy[p] = "REQUIRE_APPROVAL" => grant[p] = "APPROVED"

\* The spec of a step that owns an attempt is the one the attempt froze.
AttemptedSpecIsKept ==
  \A s \in Steps : tries[s] > 0 => s \in Plan /\ frozen[s] = spec[s]

(***************************************************************************)
(* Liveness                                                                *)
(***************************************************************************)

\* An execution whose steps all carry a timeout ends, though dispatchers
\* crash, workers stay silent and nobody answers an approval request.
RunEnds == <>(exec \in TerminalExecution)

(***************************************************************************)
(* What comments and documents of the repository say and the code does not *)
(* keep; each is refuted by a run of its own.                              *)
(***************************************************************************)

\* Cancelling retires every live attempt and pending dispatch of the run.
CancelledRunIsQuiet ==
  exec = "CANCELLED" =>
    \A a \in Attempts : att[a] \notin LiveAttempt /\ outbox[a] \notin DispatchableRow

\* An outcome that arrives under a terminal execution never makes its step
\* RETRYING.
TerminalRunSchedulesNoRetry ==
  [][(exec \in TerminalExecution) =>
       \A s \in Steps : step[s] # "RETRYING" => step'[s] # "RETRYING"]_vars

\* Remaining nonterminal steps of a terminal execution cannot advance.
TerminalRunResumesNothing ==
  [][(exec \in TerminalExecution) =>
       \A a \in Attempts : outbox[a] = "NONE" => outbox'[a] = "NONE"]_vars
=============================================================================
