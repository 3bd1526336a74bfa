----------------------------- MODULE Scheduling -----------------------------
(***************************************************************************)
(* ExecutionService, execution-claim.ts and EngineService.reconcilePass:   *)
(* promotion, dependency advancement, the scheduling claim, the decisions  *)
(* a reconciliation pass takes from what it read without locks, and        *)
(* cancellation.                                                           *)
(***************************************************************************)
EXTENDS ControlPlane

(***************************************************************************)
(* Reconciliation pass.  Each of the promotion, the advancement, the read  *)
(* of execution and plan, the read of the step rows and the guarded write  *)
(* is a database round trip of its own, so anything may commit in between. *)
(* The scheduling claims of a pass re-read everything under row locks;     *)
(* they are the Claim actions below, and need no state of the pass.        *)
(***************************************************************************)
Promote ==
  /\ exec = "PENDING"
  /\ exec' = "RUNNING"
  /\ UNCHANGED <<stepVars, att, outboxVars, inboxVars, approval, processVars,
                 cancelVars, planVars>>

BeginPass(r) ==
  /\ recon[r].pc = "idle"
  /\ exec = "RUNNING"
  /\ recon' = [recon EXCEPT ![r].pc = "advance"]
  /\ UNCHANGED <<exec, stepVars, att, outboxVars, inboxVars, approval, disp,
                 delivered, cancelVars, planVars>>

\* The advancement transaction read a RUNNING execution without locking it;
\* each PENDING row is re-checked under its own lock.
Advance(r) ==
  /\ recon[r].pc = "advance"
  /\ step' = [s \in Steps |->
                IF /\ step[s] = "PENDING"
                   /\ s \in Plan
                   /\ DependenciesResolved(s)
                   /\ \A a \in AttemptsOf(s) : att[a] \notin LiveAttempt
                  THEN "READY" ELSE step[s]]
  /\ recon' = [recon EXCEPT ![r].pc = "readPlan"]
  /\ UNCHANGED <<exec, tries, frozen, att, outboxVars, inboxVars, approval,
                 disp, delivered, cancelVars, planVars>>

ReadPlan(r) ==
  /\ recon[r].pc = "readPlan"
  /\ recon' = [recon EXCEPT ![r] = IF exec = "RUNNING"
                                     THEN [pc |-> "readSteps", plan |-> Plan]
                                     ELSE IdleReconciler]
  /\ UNCHANGED <<exec, stepVars, att, outboxVars, inboxVars, approval, disp,
                 delivered, cancelVars, planVars>>

\* A FAILED row counts as fatal unless the plan that was read says continue;
\* a row that plan does not define has no policy at all.
FatalStep(plan) ==
  \E s \in Steps : step[s] = "FAILED" /\ ~(s \in plan /\ OnFailure[s] = "continue")

\* Mutant: a step nobody has started yet does not hold completion back.
NoneInProgress(plan) ==
  plan # {} /\ \A s \in plan : step[s] \notin {"READY", "RUNNING", "RETRYING", "WAITING"}

AllTerminal(plan) == plan # {} /\ \A s \in plan : step[s] \in TerminalStep

\* What reconcilePass decides from the step rows it reads and the plan it
\* read before; "idle" is the claim loop.
PassVerdicts(plan) ==
  IF FatalStep(plan) THEN {"fail"}
  ELSE IF \E s \in Steps : step[s] = "CANCELLED" THEN {"cancel"}
  ELSE IF AllTerminal(plan) THEN {"complete"}
  ELSE IF \E s \in plan \cap BadInput : step[s] \in {"READY", "RETRYING"}
    THEN {"idle", "fail"}
  ELSE {"idle"}

ReadSteps(r) ==
  /\ recon[r].pc = "readSteps"
  /\ \E v \in PassVerdicts(recon[r].plan) :
       recon' = [recon EXCEPT ![r] = [pc |-> v, plan |-> {}]]
  /\ UNCHANGED <<exec, stepVars, att, outboxVars, inboxVars, approval, disp,
                 delivered, cancelVars, planVars>>

\* Mutant: the status is written without re-reading it under the lock.
TerminateUnguarded(status) == exec' = status

\* updateExecutionStatus: the write is guarded only by "not terminal".
TerminateExecution(status) ==
  exec' = IF exec \in TerminalExecution THEN exec ELSE status

FailExecution(r) ==
  /\ recon[r].pc = "fail"
  /\ TerminateExecution("FAILED")
  /\ recon' = [recon EXCEPT ![r] = IdleReconciler]
  /\ UNCHANGED <<stepVars, att, outboxVars, inboxVars, approval, disp,
                 delivered, cancelVars, planVars>>

CompleteExecution(r) ==
  /\ recon[r].pc = "complete"
  /\ TerminateExecution("COMPLETED")
  /\ recon' = [recon EXCEPT ![r] = IdleReconciler]
  /\ UNCHANGED <<stepVars, att, outboxVars, inboxVars, approval, disp,
                 delivered, cancelVars, planVars>>

(***************************************************************************)
(* claimRunnableStep: one transaction under the step and execution locks.  *)
(***************************************************************************)
\* Mutant: the claim does not lock and re-read the execution.
DueInAnyRun(s) == step[s] \in {"READY", "RETRYING"}

Due(s) == step[s] \in {"READY", "RETRYING"} /\ exec = "RUNNING"

AuthorityExpires(s) ==
  /\ AuthorityBound
  /\ Due(s)
  /\ step' = [step EXCEPT ![s] = "CANCELLED"]
  /\ exec' = "FAILED"
  /\ UNCHANGED <<tries, frozen, att, outboxVars, inboxVars, approval,
                 processVars, cancelVars, planVars>>

\* Mutant: only a step that was never claimed may be claimed.
ClaimableOnce(s) ==
  Due(s) /\ s \in Plan /\ frozen[s] = 0 /\ DependenciesResolved(s)

\* The active revision defines the step, with the spec the step froze on.
Claimable(s) ==
  /\ Due(s)
  /\ s \in Plan
  /\ frozen[s] \in {0, spec[s]}
  /\ DependenciesResolved(s)

ClaimSkips(s) ==
  /\ s \in Conditional
  /\ Claimable(s)
  /\ step' = [step EXCEPT ![s] = "SKIPPED"]
  /\ frozen' = [frozen EXCEPT ![s] = spec[s]]
  /\ UNCHANGED <<exec, tries, att, outboxVars, inboxVars, approval,
                 processVars, cancelVars, planVars>>

\* The claim grants the next attempt number; UQ_step_attempt_number and the
\* check for an active attempt make the new row the step's only active one.
NextAttempt(s) == <<s, tries[s] + 1>>

Grantable(s) ==
  /\ Claimable(s)
  /\ ~HasActiveAttempt(s)
  /\ tries[s] < AttemptLimit

TakeAttempt(s, attemptStatus, stepStatus) ==
  /\ tries' = [tries EXCEPT ![s] = @ + 1]
  /\ frozen' = [frozen EXCEPT ![s] = spec[s]]
  /\ att' = [att EXCEPT ![NextAttempt(s)] = attemptStatus]
  /\ step' = [step EXCEPT ![s] = stepStatus]

\* Projection failure, capability mismatch, policy DENY and insufficient
\* budget record a FAILED attempt without any work authority.
ClaimRefused(s) ==
  /\ s \in Refusable
  /\ Grantable(s)
  /\ IF RetryAllowed(s, tries[s] + 1)
       THEN /\ TakeAttempt(s, "FAILED", "RETRYING")
            /\ UNCHANGED exec
       ELSE /\ TakeAttempt(s, "FAILED", "FAILED")
            /\ exec' = ExecAfterStepFailure(s)
  /\ UNCHANGED <<outboxVars, inboxVars, approval, processVars, cancelVars,
                 planVars>>

ClaimNeedsApproval(s) ==
  /\ s \in Gated
  /\ Grantable(s)
  /\ TakeAttempt(s, "WAITING", "WAITING")
  /\ approval' = [approval EXCEPT ![NextAttempt(s)] = "PENDING"]
  /\ UNCHANGED <<exec, outboxVars, inboxVars, processVars, cancelVars, planVars>>

Claim(s) ==
  /\ s \notin Gated
  /\ Grantable(s)
  /\ TakeAttempt(s, "CREATED", "RUNNING")
  /\ outbox' = [outbox EXCEPT ![NextAttempt(s)] = "PENDING"]
  /\ UNCHANGED <<exec, leases, receipts, notified, inboxVars, approval,
                 processVars, cancelVars, planVars>>

(***************************************************************************)
(* cancelExecutionWithManager.  The transaction first locks the attempts   *)
(* that are live at that moment and only later the step rows and the       *)
(* execution; a claim needs none of the attempt locks and can commit in    *)
(* between.  One cancel transaction is open at a time.                     *)
(***************************************************************************)
CancelBegin ==
  /\ ~cancelTx
  /\ cancelTx' = TRUE
  /\ locked' = {a \in Attempts : att[a] \in LiveAttempt}

RequestCancel ==
  /\ exec \notin TerminalExecution
  /\ CancelBegin
  /\ UNCHANGED <<exec, stepVars, att, outboxVars, inboxVars, approval,
                 processVars, planVars>>

ReconcileCancel(r) ==
  /\ recon[r].pc = "cancel"
  /\ CancelBegin
  /\ recon' = [recon EXCEPT ![r] = IdleReconciler]
  /\ UNCHANGED <<exec, stepVars, att, outboxVars, inboxVars, approval, disp,
                 delivered, planVars>>

CancelCommit ==
  /\ cancelTx
  /\ IF exec \in TerminalExecution
       THEN UNCHANGED <<exec, step, att, outbox>>
       ELSE /\ exec' = "CANCELLED"
            /\ att' = [a \in Attempts |-> IF a \in locked THEN "CANCELLED" ELSE att[a]]
            /\ step' = [s \in Steps |->
                          IF step[s] \in CancellableStep THEN "CANCELLED" ELSE step[s]]
            /\ outbox' = [a \in Attempts |->
                            IF a \in locked /\ outbox[a] \in DispatchableRow
                              THEN "COMPLETED" ELSE outbox[a]]
  /\ cancelTx' = FALSE
  /\ locked' = {}
  /\ UNCHANGED <<tries, frozen, leases, receipts, notified, inboxVars,
                 approval, processVars, planVars>>
=============================================================================
