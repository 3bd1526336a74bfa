----------------------------- MODULE Approvals -----------------------------
(***************************************************************************)
(* ApprovalService and PlanProposalService.  A dispatch request is filed   *)
(* by the claim (Scheduling!ClaimNeedsApproval): approving resumes the     *)
(* WAITING attempt, denying and expiring fail it.  A plan proposal is      *)
(* activated under the execution lock with a compare-and-swap on the base  *)
(* revision, and a plan_patch request may gate it.                         *)
(***************************************************************************)
EXTENDS ControlPlane

\* failAttemptDurably: every write is guarded by the status it replaces.
FailWaiting(a) ==
  LET s == a[1]
      stepFails == step[s] = "WAITING" /\ ~RetryAllowed(s, a[2])
  IN IF att[a] # "WAITING" THEN UNCHANGED <<exec, step, att>>
     ELSE /\ att' = [att EXCEPT ![a] = "FAILED"]
          /\ step' = [step EXCEPT ![s] = IF @ # "WAITING" THEN @
                                         ELSE IF RetryAllowed(s, a[2]) THEN "RETRYING"
                                         ELSE "FAILED"]
          /\ exec' = IF stepFails /\ OnFailure[s] # "continue" /\ exec = "RUNNING"
                       THEN "FAILED" ELSE exec

Decided(a, status) ==
  /\ approval[a] = "PENDING"
  /\ a \notin locked
  /\ approval' = [approval EXCEPT ![a] = status]
  /\ UNCHANGED <<tries, frozen, leases, receipts, notified, inboxVars,
                 processVars, cancelVars, planVars>>

\* Resume the same attempt: UQ_step_attempt_active admits it only while the
\* step has no other active attempt, else the transaction aborts.
Resume(a) ==
  /\ ~HasActiveAttempt(a[1])
  /\ att' = [att EXCEPT ![a] = "CREATED"]
  /\ step' = [step EXCEPT ![a[1]] = "RUNNING"]
  /\ outbox' = [outbox EXCEPT ![a] = "PENDING"]
  /\ UNCHANGED exec

Approve(a) ==
  /\ Decided(a, "APPROVED")
  /\ IF att[a] # "WAITING" THEN UNCHANGED <<exec, step, att, outbox>>
                           ELSE Resume(a)

\* The capability re-check or the budget reservation fails at resume.
ApproveRefused(a) ==
  /\ a[1] \in Refusable
  /\ att[a] = "WAITING"
  /\ Decided(a, "APPROVED")
  /\ FailWaiting(a)
  /\ UNCHANGED outbox

Deny(a) ==
  /\ Decided(a, "DENIED")
  /\ FailWaiting(a)
  /\ UNCHANGED outbox

ExpireApproval(a) ==
  /\ Decided(a, "EXPIRED")
  /\ FailWaiting(a)
  /\ UNCHANGED outbox

-----------------------------------------------------------------------------
\* Plan proposals.

\* propose: the caller's declared base is kept verbatim, even if wrong.
Propose(p) ==
  /\ proposal[p] = "NONE"
  /\ \E b \in 1 .. rev + 1 : base' = [base EXCEPT ![p] = b]
  /\ proposal' = [proposal EXCEPT ![p] = "PENDING"]
  /\ UNCHANGED <<exec, stepVars, att, outboxVars, inboxVars, approval,
                 processVars, cancelVars, rev, spec, grant>>

Decide(p, status) ==
  /\ proposal' = [proposal EXCEPT ![p] = status]
  /\ UNCHANGED <<rev, spec, step>>

\* Mutant: only an attempt in progress freezes its step.
BusySteps == {s \in Steps : HasActiveAttempt(s)}

\* Steps that already own an attempt cannot be rewritten.
FrozenSteps == {s \in Steps : \E a \in AttemptsOf(s) : att[a] # "NONE"}

\* applyPlanPatch and validateSteps: replaced steps exist and are not frozen,
\* added ids are new, and every dependency is defined by the candidate.
ValidCandidate(p) ==
  /\ PatchReplaces[p] \subseteq Plan \ FrozenSteps
  /\ PatchAdds[p] \cap Plan = {}
  /\ \A s \in PatchAdds[p] : DependsOn[s] \subseteq Plan \cup PatchAdds[p]

ActivateRevision(p) ==
  /\ rev' = rev + 1
  /\ spec' = [s \in Steps |-> IF s \in PatchAdds[p] \cup PatchReplaces[p]
                                THEN rev + 1 ELSE spec[s]]
  /\ step' = [s \in Steps |-> IF s \in PatchAdds[p] THEN "PENDING" ELSE step[s]]
  /\ proposal' = [proposal EXCEPT ![p] = "ACCEPTED"]

\* Mutant: the base revision is not compared with the active one.
StaleRun(p) == exec \in TerminalExecution

Stale(p) == exec \in TerminalExecution \/ rev # base[p]

Refused(p) == ~ValidCandidate(p) \/ PatchPolicy[p] = "DENY"

\* Mutant: a request on file counts as a grant.
AwaitsRequest(p) == PatchPolicy[p] = "REQUIRE_APPROVAL" /\ grant[p] = "NONE"

AwaitsGrant(p) == PatchPolicy[p] = "REQUIRE_APPROVAL" /\ grant[p] # "APPROVED"

\* activateWithManager for a PENDING proposal.  An activation that needs an
\* approval it does not have files the request (once) and stays PENDING.
Activate(p) ==
  /\ proposal[p] = "PENDING"
  /\ IF Stale(p) THEN Decide(p, "STALE") /\ UNCHANGED grant
     ELSE IF Refused(p) THEN Decide(p, "REJECTED") /\ UNCHANGED grant
     ELSE IF AwaitsGrant(p)
       THEN /\ grant' = [grant EXCEPT ![p] = IF @ = "NONE" THEN "PENDING" ELSE @]
            /\ UNCHANGED <<proposal, rev, spec, step>>
     ELSE ActivateRevision(p) /\ UNCHANGED grant
  /\ UNCHANGED <<exec, tries, frozen, att, outboxVars, inboxVars, approval,
                 processVars, cancelVars, base>>

\* approve on a plan_patch request: the grant and the re-activation, which
\* re-checks everything, commit together.
ApprovePatch(p) ==
  /\ grant[p] = "PENDING"
  /\ grant' = [grant EXCEPT ![p] = "APPROVED"]
  /\ IF proposal[p] # "PENDING" THEN UNCHANGED <<proposal, rev, spec, step>>
     ELSE IF Stale(p) THEN Decide(p, "STALE")
     ELSE IF Refused(p) THEN Decide(p, "REJECTED")
     ELSE ActivateRevision(p)
  /\ UNCHANGED <<exec, tries, frozen, att, outboxVars, inboxVars, approval,
                 processVars, cancelVars, base>>

\* deny and expire: the request and the still undecided proposal end together.
RefusePatch(p) ==
  /\ grant[p] = "PENDING"
  /\ \E status \in {"DENIED", "EXPIRED"} : grant' = [grant EXCEPT ![p] = status]
  /\ proposal' = [proposal EXCEPT ![p] = IF @ = "PENDING" THEN "REJECTED" ELSE @]
  /\ UNCHANGED <<exec, stepVars, att, outboxVars, inboxVars, approval,
                 processVars, cancelVars, rev, spec, base>>
=============================================================================
