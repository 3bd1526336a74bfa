---------------------------- MODULE ControlPlane ----------------------------
(***************************************************************************)
(* The durable tables of one Tenvyr execution, the constants that describe *)
(* its pipeline, and the predicates every transaction of the orchestrator  *)
(* shares.  The other modules of the orchestrator core (Scheduling,        *)
(* DispatchOutbox, ResultInbox, Approvals) extend this one with their      *)
(* transactions; Runtime composes them.                                    *)
(*                                                                         *)
(* One row per identity: an attempt is <<step, attemptNumber>>, which is   *)
(* the invocationId `${logicalStep.id}:${attemptNumber}` of the code.      *)
(* Payloads, timestamps, error texts and evidence rows that no guard reads *)
(* are left out; a time that has passed (a due row, an expired lease, an   *)
(* overdue deadline) is a nondeterministic choice.                         *)
(***************************************************************************)
EXTENDS Integers, FiniteSets

CONSTANTS
  Steps,               \* step ids a plan revision may define
  InitialPlan,         \* steps of plan revision 1
  DependsOn,           \* step -> the steps its dependsOn names
  OnFailure,           \* step -> "stop" | "continue" | "retry"
  MaxAttempts,         \* step -> 1 + retries (EngineService.getMaxAttempts)
  Conditional,         \* steps with a condition (it may evaluate to false)
  Refusable,           \* steps whose claim or resume may be refused before
                       \* dispatch: projection, capability, DENY, budget
  Gated,               \* steps the policy answers REQUIRE_APPROVAL for
  Checked,             \* steps whose success must pass a postcondition
  Planners,            \* steps with planner: true
  Timed,               \* steps with a timeout (attempts carry deadlineAt)
  Supervised,          \* steps of agents with a heartbeat expectation
  BadInput,            \* steps whose input template may fail to resolve
  AuthorityBound,      \* the execution carries an authorityDeadlineAt, which
                       \* also bounds every attempt's deadlineAt
  Proposals,           \* PlanPatch proposals that may be made
  PatchAdds,           \* proposal -> steps its addStep operations append
  PatchReplaces,       \* proposal -> steps it replaces
  PatchPolicy,         \* proposal -> "ALLOW" | "DENY" | "REQUIRE_APPROVAL"
  Dispatchers,         \* processes that drain the outbox
  Reconcilers,         \* processes that run reconcilePass
  RejectedWorkMayRun,  \* may an invocation one dispatcher saw rejected for
                       \* good still run, from another delivery of it?
  AttemptLimit,        \* bound: attempt rows per step
  LeaseLimit           \* bound: leases per outbox row (dispatchCount)

ASSUME PlanAssumption ==
  /\ InitialPlan \subseteq Steps
  /\ DependsOn \in [Steps -> SUBSET Steps]
  /\ OnFailure \in [Steps -> {"stop", "continue", "retry"}]
  /\ MaxAttempts \in [Steps -> Nat \ {0}]
  /\ PatchAdds \in [Proposals -> SUBSET Steps]
  /\ PatchReplaces \in [Proposals -> SUBSET Steps]
  /\ PatchPolicy \in [Proposals -> {"ALLOW", "DENY", "REQUIRE_APPROVAL"}]

ASSUME SwitchAssumption ==
  /\ AuthorityBound \in BOOLEAN
  /\ RejectedWorkMayRun \in BOOLEAN

ASSUME BoundAssumption ==
  /\ AttemptLimit \in Nat \ {0}
  /\ LeaseLimit \in Nat \ {0}

Attempts == Steps \X (1 .. AttemptLimit)

(***************************************************************************)
(* Status vocabularies.  "NONE" is a row that does not exist.              *)
(***************************************************************************)
ExecutionStatus == {"PENDING", "RUNNING", "COMPLETED", "FAILED", "CANCELLED"}
TerminalExecution == {"COMPLETED", "FAILED", "CANCELLED"}

StepStatus == {"NONE", "PENDING", "READY", "RUNNING", "RETRYING", "WAITING",
               "COMPLETED", "FAILED", "SKIPPED", "CANCELLED"}
TerminalStep == {"COMPLETED", "FAILED", "SKIPPED", "CANCELLED"}
CancellableStep == {"PENDING", "READY", "RUNNING", "RETRYING", "WAITING"}

AttemptStatus == {"NONE", "CREATED", "DISPATCHED", "RUNNING", "WAITING",
                  "SUCCESS", "FAILED", "TIMED_OUT", "CANCELLED"}
TerminalAttempt == {"SUCCESS", "FAILED", "TIMED_OUT", "CANCELLED"}
\* UQ_step_attempt_active and the claim's own check
ActiveAttempt == {"CREATED", "DISPATCHED", "RUNNING"}
\* ACTIVE_ATTEMPT_STATUSES of the execution service
LiveAttempt == ActiveAttempt \cup {"WAITING"}

OutboxStatus == {"NONE", "PENDING", "LEASED", "DISPATCHED", "COMPLETED", "FAILED"}
DispatchableRow == {"PENDING", "LEASED", "DISPATCHED"}

InboxStatus == {"NONE", "APPLIED", "REJECTED"}
RequestStatus == {"NONE", "PENDING", "APPROVED", "DENIED", "EXPIRED"}
ProposalStatus == {"NONE", "PENDING", "ACCEPTED", "REJECTED", "STALE"}

\* What a result says and who wrote it; equal records are equal payload hashes.
Outcome == {"succeeded", "failed", "cancelled", "timed_out"}
Payload == [status : Outcome, source : {"worker", "deadline", "supervision"}]
NoPayload == [status |-> "none", source |-> "none"]

VARIABLES
  exec,       \* executions.status
  step,       \* step -> step_executions.status
  tries,      \* step -> step_executions.attempt
  frozen,     \* step -> step_executions.frozenSpecHash (0: not frozen)
  att,        \* attempt -> step_attempts.status
  outbox,     \* attempt -> dispatch_outbox.status
  leases,     \* attempt -> dispatchCount; the current lease token, as a
              \* fresh token is drawn exactly when the count is incremented
  receipts,   \* attempts whose outbox row carries a receipt
  notified,   \* attempts whose row carries a cancel-notification outcome
  inbox,      \* attempt -> result_inbox.status
  canonical,  \* attempt -> payload of the canonical inbox row
  approval,   \* attempt -> approval_requests.status of its dispatch request
  disp,       \* dispatcher -> what it is doing, with which lease
  delivered,  \* attempts whose invocation a worker has accepted
  recon,      \* reconciler -> where its pass is, and the plan it read
  cancelTx,   \* TRUE while a cancel transaction is open ...
  locked,     \* ... and the attempt rows it has locked
  rev,        \* number of the active plan revision
  spec,       \* step -> revision that defined its current spec (0: none)
  proposal,   \* proposal -> plan_proposals.status
  base,       \* proposal -> baseRevision
  grant       \* proposal -> approval_requests.status of its plan request

stepVars == <<step, tries, frozen>>
outboxVars == <<outbox, leases, receipts, notified>>
inboxVars == <<inbox, canonical>>
processVars == <<disp, delivered, recon>>
cancelVars == <<cancelTx, locked>>
planVars == <<rev, spec, proposal, base, grant>>
vars == <<exec, stepVars, att, outboxVars, inboxVars, approval, processVars,
          cancelVars, planVars>>

IdleDispatcher == [pc |-> "idle"]
\* A dispatcher between claimNext and the commit that ends dispatchClaimed.
BusyDispatcher == [pc : {"leased", "accepted", "rejected", "errored"},
                   inv : Attempts, token : 1 .. LeaseLimit]
ReconcilerState == [pc : {"idle", "advance", "readPlan", "readSteps", "fail",
                          "cancel", "complete"},
                    plan : SUBSET Steps]
IdleReconciler == [pc |-> "idle", plan |-> {}]

TypeOK ==
  /\ exec \in ExecutionStatus
  /\ step \in [Steps -> StepStatus]
  /\ tries \in [Steps -> 0 .. AttemptLimit]
  /\ frozen \in [Steps -> Nat]
  /\ att \in [Attempts -> AttemptStatus]
  /\ outbox \in [Attempts -> OutboxStatus]
  /\ leases \in [Attempts -> 0 .. LeaseLimit]
  /\ receipts \subseteq Attempts
  /\ notified \subseteq Attempts
  /\ inbox \in [Attempts -> InboxStatus]
  /\ canonical \in [Attempts -> Payload \cup {NoPayload}]
  /\ approval \in [Attempts -> RequestStatus]
  /\ disp \in [Dispatchers -> BusyDispatcher \cup {IdleDispatcher}]
  /\ delivered \subseteq Attempts
  /\ recon \in [Reconcilers -> ReconcilerState]
  /\ cancelTx \in BOOLEAN
  /\ locked \subseteq Attempts
  /\ rev \in Nat \ {0}
  /\ spec \in [Steps -> Nat]
  /\ proposal \in [Proposals -> ProposalStatus]
  /\ base \in [Proposals -> Nat]
  /\ grant \in [Proposals -> RequestStatus]

\* materializeExecutionWithManager: execution, revision 1 and every step row
\* commit together; nothing else exists yet.
Init ==
  /\ exec = "PENDING"
  /\ step = [s \in Steps |-> IF s \in InitialPlan THEN "PENDING" ELSE "NONE"]
  /\ tries = [s \in Steps |-> 0]
  /\ frozen = [s \in Steps |-> 0]
  /\ att = [a \in Attempts |-> "NONE"]
  /\ outbox = [a \in Attempts |-> "NONE"]
  /\ leases = [a \in Attempts |-> 0]
  /\ receipts = {}
  /\ notified = {}
  /\ inbox = [a \in Attempts |-> "NONE"]
  /\ canonical = [a \in Attempts |-> NoPayload]
  /\ approval = [a \in Attempts |-> "NONE"]
  /\ disp = [d \in Dispatchers |-> IdleDispatcher]
  /\ delivered = {}
  /\ recon = [r \in Reconcilers |-> IdleReconciler]
  /\ cancelTx = FALSE
  /\ locked = {}
  /\ rev = 1
  /\ spec = [s \in Steps |-> IF s \in InitialPlan THEN 1 ELSE 0]
  /\ proposal = [p \in Proposals |-> "NONE"]
  /\ base = [p \in Proposals |-> 0]
  /\ grant = [p \in Proposals |-> "NONE"]

(***************************************************************************)
(* Shared predicates                                                       *)
(***************************************************************************)
Plan == {s \in Steps : spec[s] # 0}

AttemptsOf(s) == {a \in Attempts : a[1] = s}

HasActiveAttempt(s) == \E a \in AttemptsOf(s) : att[a] \in ActiveAttempt

\* Mutant: looks at the dependency's attempts instead of its outcome.
DependencyAttemptsEnded(s) ==
  \A d \in DependsOn[s] : tries[d] > 0 /\ ~HasActiveAttempt(d)

\* A dependency is resolved when it completed, was skipped, or failed under
\* onFailure: continue.
DependenciesResolved(s) ==
  \A d \in DependsOn[s] :
    \/ step[d] \in {"COMPLETED", "SKIPPED"}
    \/ step[d] = "FAILED" /\ OnFailure[d] = "continue"

\* Mutant: counts retries where the limit counts attempts.
RetryAllowedOnceMore(s, n) == OnFailure[s] = "retry" /\ n <= MaxAttempts[s]

\* The step's failure policy grants attempt n a successor.
RetryAllowed(s, n) == OnFailure[s] = "retry" /\ n < MaxAttempts[s]

\* Mutant: onFailure: continue is forgotten.
ExecAfterAnyFailure(s) == IF exec \notin TerminalExecution THEN "FAILED" ELSE exec

\* A step that fails for good takes the execution with it unless the policy
\* says continue; a terminal execution is never rewritten.
ExecAfterStepFailure(s) ==
  IF OnFailure[s] # "continue" /\ exec \notin TerminalExecution
    THEN "FAILED" ELSE exec
=============================================================================
