--------------------------- MODULE DispatchOutbox ---------------------------
(***************************************************************************)
(* DispatchOutboxService: leasing an outbox row, invoking the executor     *)
(* outside any transaction, and the guarded commit of what it answered.    *)
(* The executor behind the adapter is external: it may accept, refuse, or  *)
(* leave the dispatcher without an answer although it accepted.            *)
(***************************************************************************)
EXTENDS ControlPlane

\* Mutant: the join that excludes terminal executions is missing.
LeasableInAnyRun(a) ==
  /\ outbox[a] \in {"PENDING", "LEASED"}
  /\ att[a] \notin TerminalAttempt
  /\ a \notin locked
  /\ leases[a] < LeaseLimit

\* PENDING and due, or LEASED and expired (both are matters of time), of an
\* attempt and an execution that are not terminal.  The row lock also covers
\* the joined attempt row and skips what another transaction holds.
Leasable(a) ==
  /\ outbox[a] \in {"PENDING", "LEASED"}
  /\ att[a] \notin TerminalAttempt
  /\ exec \notin TerminalExecution
  /\ a \notin locked
  /\ leases[a] < LeaseLimit

Lease(d, a) ==
  /\ disp[d].pc = "idle"
  /\ Leasable(a)
  /\ outbox' = [outbox EXCEPT ![a] = "LEASED"]
  /\ leases' = [leases EXCEPT ![a] = @ + 1]
  /\ disp' = [disp EXCEPT ![d] = [pc |-> "leased", inv |-> a, token |-> leases[a] + 1]]
  /\ UNCHANGED <<exec, stepVars, att, receipts, notified, inboxVars, approval,
                 delivered, recon, cancelVars, planVars>>

\* External: an invocation one dispatcher saw rejected for good.
RejectionSeen(a) ==
  \/ outbox[a] = "FAILED"
  \/ \E d \in Dispatchers : disp[d].pc = "rejected" /\ disp[d].inv = a

\* External: what adapter.invoke does and reports.  A revoked connection and
\* a permanent refusal both end in "rejected"; a timeout in "errored", with
\* or without the worker having accepted the invocation.
MayRun(a) == RejectedWorkMayRun \/ ~RejectionSeen(a)
MayReject(a) == RejectedWorkMayRun \/ a \notin delivered

Invoke(d) ==
  LET a == disp[d].inv IN
  /\ disp[d].pc = "leased"
  /\ \/ /\ MayRun(a)
        /\ delivered' = delivered \cup {a}
        /\ \E answer \in {"accepted", "errored"} :
             disp' = [disp EXCEPT ![d].pc = answer]
     \/ /\ disp' = [disp EXCEPT ![d].pc = "errored"]
        /\ UNCHANGED delivered
     \/ /\ MayReject(a)
        /\ disp' = [disp EXCEPT ![d].pc = "rejected"]
        /\ UNCHANGED delivered
  /\ UNCHANGED <<exec, stepVars, att, outboxVars, inboxVars, approval, recon,
                 cancelVars, planVars>>

\* Mutants: the guarded update compares only the token, or only the status.
HoldsLeaseByToken(d) == leases[disp[d].inv] = disp[d].token
HoldsLeaseByStatus(d) == outbox[disp[d].inv] = "LEASED"

\* UPDATE ... WHERE status = LEASED AND leaseToken = <the claimed token>
HoldsLease(d) ==
  LET a == disp[d].inv IN outbox[a] = "LEASED" /\ leases[a] = disp[d].token

\* Mutant: the dispatcher keeps the claim it has finished with.
EndDispatchKeepsClaim(d) == disp' = [disp EXCEPT ![d].pc = "idle"]

EndDispatch(d) == disp' = [disp EXCEPT ![d] = IdleDispatcher]

MarkDispatched(d) ==
  LET a == disp[d].inv IN
  /\ disp[d].pc = "accepted"
  /\ a \notin locked
  /\ IF att[a] \notin TerminalAttempt /\ HoldsLease(d)
       THEN /\ outbox' = [outbox EXCEPT ![a] = "DISPATCHED"]
            /\ receipts' = receipts \cup {a}
            /\ att' = [att EXCEPT ![a] = IF @ = "CREATED" THEN "DISPATCHED" ELSE @]
       ELSE UNCHANGED <<outbox, receipts, att>>
  /\ EndDispatch(d)
  /\ UNCHANGED <<exec, stepVars, leases, notified, inboxVars, approval,
                 delivered, recon, cancelVars, planVars>>

ReturnToPending(d) ==
  LET a == disp[d].inv IN
  /\ disp[d].pc = "errored"
  /\ outbox' = [outbox EXCEPT ![a] = IF HoldsLease(d) THEN "PENDING" ELSE @]
  /\ EndDispatch(d)
  /\ UNCHANGED <<exec, stepVars, att, leases, receipts, notified, inboxVars,
                 approval, delivered, recon, cancelVars, planVars>>

\* Mutant: the status of the step is not re-read under the lock.
SettleRejectedStepAlways(a) ==
  /\ step' = [step EXCEPT ![a[1]] = IF RetryAllowed(a[1], a[2]) THEN "RETRYING" ELSE "FAILED"]
  /\ exec' = IF RetryAllowed(a[1], a[2]) THEN exec ELSE ExecAfterStepFailure(a[1])

\* The failure of attempt a settles its step: nothing once the step is
\* terminal, RETRYING while the policy grants a successor, else FAILED.
SettleRejectedStep(a) ==
  IF step[a[1]] \in TerminalStep THEN UNCHANGED <<step, exec>>
  ELSE IF RetryAllowed(a[1], a[2])
    THEN /\ step' = [step EXCEPT ![a[1]] = "RETRYING"]
         /\ UNCHANGED exec
    ELSE /\ step' = [step EXCEPT ![a[1]] = "FAILED"]
         /\ exec' = ExecAfterStepFailure(a[1])

FailNonRetryable(d) ==
  LET a == disp[d].inv IN
  /\ disp[d].pc = "rejected"
  /\ a \notin locked
  /\ IF ~HoldsLease(d)
       THEN UNCHANGED <<exec, step, att, outbox>>
       ELSE /\ outbox' = [outbox EXCEPT ![a] = "FAILED"]
            /\ IF att[a] \in TerminalAttempt
                 THEN UNCHANGED <<exec, step, att>>
                 ELSE /\ att' = [att EXCEPT ![a] = "FAILED"]
                      /\ SettleRejectedStep(a)
  /\ EndDispatch(d)
  /\ UNCHANGED <<tries, frozen, leases, receipts, notified, inboxVars,
                 approval, delivered, recon, cancelVars, planVars>>

\* The process dies between leasing and committing; the row stays LEASED.
CrashDispatcher(d) ==
  /\ disp[d].pc # "idle"
  /\ EndDispatch(d)
  /\ UNCHANGED <<exec, stepVars, att, outboxVars, inboxVars, approval,
                 delivered, recon, cancelVars, planVars>>

\* Best-effort executor notification after a cancellation request returned
\* (committed, or refused because the execution had ended); the recorded
\* outcome makes it at most once per row.
NotifyCancel(a) ==
  /\ exec \in TerminalExecution
  /\ att[a] = "CANCELLED"
  /\ outbox[a] = "COMPLETED"
  /\ a \in receipts \ notified
  /\ notified' = notified \cup {a}
  /\ UNCHANGED <<exec, stepVars, att, outbox, leases, receipts, inboxVars,
                 approval, processVars, cancelVars, planVars>>
=============================================================================
