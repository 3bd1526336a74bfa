---------------------------- MODULE ResultInbox ----------------------------
(***************************************************************************)
(* ResultInboxService.apply and its callers: worker callbacks, the         *)
(* deadline sweep and the supervision sweep; and the liveness projection   *)
(* of AgentEventService.  Conflict, artifact, state-write and observation  *)
(* rows are append-only evidence that no guard reads and are left out.     *)
(***************************************************************************)
EXTENDS ControlPlane

TerminalStatus(p) ==
  CASE p.status = "succeeded" -> "SUCCESS"
    [] p.status = "failed"    -> "FAILED"
    [] p.status = "timed_out" -> "TIMED_OUT"
    [] p.status = "cancelled" -> "CANCELLED"

\* A success under a RUNNING execution may still fail its postcondition: a
\* rejected state write, or a planner output that is no valid PlanPatch.
EffectiveStatuses(a, p) ==
  {TerminalStatus(p)} \cup
    (IF /\ p.status = "succeeded"
        /\ exec = "RUNNING"
        /\ a[1] \in Checked \/ (a[1] \in Planners /\ att[a] \notin TerminalAttempt)
       THEN {"FAILED"} ELSE {})

StepOutcome(a, effective) ==
  CASE effective = "SUCCESS"   -> "COMPLETED"
    [] effective = "CANCELLED" -> "CANCELLED"
    [] OTHER -> IF exec = "RUNNING" /\ RetryAllowed(a[1], a[2])
                  THEN "RETRYING" ELSE "FAILED"

ExecOutcome(a, stepStatus) ==
  CASE stepStatus = "FAILED" -> ExecAfterStepFailure(a[1])
    [] stepStatus = "CANCELLED" /\ exec \notin TerminalExecution -> "CANCELLED"
    [] OTHER -> exec

Reject(a, p) ==
  /\ inbox' = [inbox EXCEPT ![a] = "REJECTED"]
  /\ canonical' = [canonical EXCEPT ![a] = p]
  /\ UNCHANGED <<exec, step, att, outbox, proposal, base>>

\* A planner's accepted output becomes a PENDING proposal whose base is
\* pinned to the active revision.
ProposePatch(a, effective) ==
  IF /\ a[1] \in Planners
     /\ effective = "SUCCESS"
     /\ exec = "RUNNING"
     /\ att[a] \notin TerminalAttempt
     /\ \E q \in Proposals : proposal[q] = "NONE"
    THEN \E q \in Proposals :
           /\ proposal[q] = "NONE"
           /\ proposal' = [proposal EXCEPT ![q] = "PENDING"]
           /\ base' = [base EXCEPT ![q] = rev]
    ELSE UNCHANGED <<proposal, base>>

Accept(a, p) ==
  \E effective \in EffectiveStatuses(a, p) :
    LET stepStatus == StepOutcome(a, effective) IN
    /\ att' = [att EXCEPT ![a] = IF @ \in TerminalAttempt THEN @ ELSE effective]
    /\ outbox' = [outbox EXCEPT ![a] = IF @ \in DispatchableRow THEN "COMPLETED" ELSE @]
    /\ step' = [step EXCEPT ![a[1]] = stepStatus]
    /\ exec' = ExecOutcome(a, stepStatus)
    /\ inbox' = [inbox EXCEPT ![a] = "APPLIED"]
    /\ canonical' = [canonical EXCEPT ![a] = p]
    /\ ProposePatch(a, effective)

\* Mutant: an attempt that a dispatcher, approval or cancel settled accepts
\* whatever result comes later.
OverruledNever(a, p) == FALSE

\* A different terminal outcome of the attempt is already authoritative.
Overruled(a, p) == att[a] \in TerminalAttempt /\ att[a] # TerminalStatus(p)

\* The first payload to arrive owns the inbox row.  A different payload is
\* filed as a conflict and an applied one is a duplicate (no change here);
\* only a rejected one is judged again.
Apply(a, p) ==
  /\ att[a] # "NONE"
  /\ a \notin locked
  /\ \/ inbox[a] = "NONE"
     \/ inbox[a] = "REJECTED" /\ canonical[a] = p
  /\ IF exec = "CANCELLED" \/ Overruled(a, p) THEN Reject(a, p) ELSE Accept(a, p)
  /\ UNCHANGED <<tries, frozen, leases, receipts, notified, approval,
                 processVars, cancelVars, rev, spec, grant>>

\* A worker that accepted the invocation may report any outcome, at any time
\* and more than once.
WorkerResult(a) ==
  /\ a \in delivered
  /\ \E o \in Outcome : Apply(a, [status |-> o, source |-> "worker"])

\* The sweeps select active attempts without a lock and apply one synthetic
\* result after the other: by then the attempt may have ended.
DeadlineResult(a) ==
  /\ a[1] \in Timed \/ AuthorityBound
  /\ outbox[a] # "NONE"
  /\ Apply(a, [status |-> "timed_out", source |-> "deadline"])

SupervisionResult(a) ==
  /\ a[1] \in Supervised
  /\ a \in receipts
  /\ Apply(a, [status |-> "timed_out", source |-> "supervision"])

\* Mutant: activity is projected without reading the attempt's status.
ShowsActivityAlways(a) == att[a] # "NONE"

\* projectLiveness: execution activity moves a DISPATCHED attempt to RUNNING.
ShowsActivity(a) == att[a] = "DISPATCHED"

AgentEvent(a) ==
  /\ a \in delivered
  /\ a \notin locked
  /\ ShowsActivity(a)
  /\ att' = [att EXCEPT ![a] = "RUNNING"]
  /\ UNCHANGED <<exec, stepVars, outboxVars, inboxVars, approval, processVars,
                 cancelVars, planVars>>
=============================================================================
