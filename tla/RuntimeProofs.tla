--------------------------- MODULE RuntimeProofs ---------------------------
(***************************************************************************)
(* Type correctness, the inductive invariant and the safety of attempts,   *)
(* outbox and inbox rows, for every plan, policy and number of processes.  *)
(***************************************************************************)
EXTENDS Runtime, TLAPS

\* The tables of a freshly materialized execution are well typed.
LEMMA TypeInit == Init => TypeOK
PROOF
  <1> SUFFICES ASSUME Init PROVE TypeOK
    OBVIOUS
  <1> USE BoundAssumption DEF Init
  <1>1. /\ exec \in ExecutionStatus
        /\ step \in [Steps -> StepStatus]
        /\ tries \in [Steps -> 0 .. AttemptLimit]
        /\ frozen \in [Steps -> Nat]
    BY DEF ExecutionStatus, StepStatus
  <1>2. /\ att \in [Attempts -> AttemptStatus]
        /\ outbox \in [Attempts -> OutboxStatus]
        /\ leases \in [Attempts -> 0 .. LeaseLimit]
        /\ receipts \subseteq Attempts
        /\ notified \subseteq Attempts
    BY DEF AttemptStatus, OutboxStatus
  <1>3. /\ inbox \in [Attempts -> InboxStatus]
        /\ canonical \in [Attempts -> Payload \cup {NoPayload}]
        /\ approval \in [Attempts -> RequestStatus]
    BY DEF InboxStatus, RequestStatus
  <1>4. /\ disp \in [Dispatchers -> BusyDispatcher \cup {IdleDispatcher}]
        /\ delivered \subseteq Attempts
        /\ recon \in [Reconcilers -> ReconcilerState]
        /\ cancelTx \in BOOLEAN
        /\ locked \subseteq Attempts
    BY DEF ReconcilerState, IdleReconciler
  <1>5. /\ rev \in Nat \ {0}
        /\ spec \in [Steps -> Nat]
        /\ proposal \in [Proposals -> ProposalStatus]
        /\ base \in [Proposals -> Nat]
        /\ grant \in [Proposals -> RequestStatus]
    BY DEF ProposalStatus, RequestStatus
  <1> QED BY <1>1, <1>2, <1>3, <1>4, <1>5 DEF TypeOK

\* Passes, claims and cancellation keep the tables well typed.
LEMMA TypeScheduling ==
  ASSUME TypeOK PROVE
    /\ Promote => TypeOK'
    /\ \A r \in Reconcilers : PassStep(r) => TypeOK'
    /\ \A s \in Steps : AuthorityExpires(s) \/ ClaimSkips(s) \/ ClaimStep(s) => TypeOK'
    /\ Cancel => TypeOK'
PROOF
  <1> USE BoundAssumption DEF TypeOK, stepVars, outboxVars, inboxVars, processVars,
          cancelVars, planVars
  <1>1. Promote => TypeOK'
    BY DEF Promote, ExecutionStatus
  <1>2. ASSUME NEW r \in Reconcilers, PassStep(r) PROVE TypeOK'
    <2>1. CASE BeginPass(r)
      BY <2>1 DEF BeginPass, ReconcilerState
    <2>2. CASE Advance(r)
      BY <2>2 DEF Advance, ReconcilerState, StepStatus
    <2>3. CASE ReadPlan(r)
      BY <2>3 DEF ReadPlan, ReconcilerState, IdleReconciler, Plan
    <2>4. CASE ReadSteps(r)
      BY <2>4 DEF ReadSteps, PassVerdicts, ReconcilerState
    <2>5. CASE FailExecution(r)
      BY <2>5 DEF FailExecution, TerminateExecution, ReconcilerState, IdleReconciler, ExecutionStatus
    <2>6. CASE CompleteExecution(r)
      BY <2>6 DEF CompleteExecution, TerminateExecution, ReconcilerState, IdleReconciler, ExecutionStatus
    <2>7. CASE ReconcileCancel(r)
      BY <2>7 DEF ReconcileCancel, CancelBegin, ReconcilerState, IdleReconciler
    <2> QED BY <1>2, <2>1, <2>2, <2>3, <2>4, <2>5, <2>6, <2>7 DEF PassStep
  <1>3. ASSUME NEW s \in Steps, AuthorityExpires(s) \/ ClaimSkips(s) \/ ClaimStep(s)
        PROVE  TypeOK'
    <2>0. ASSUME Grantable(s)
          PROVE  NextAttempt(s) \in Attempts /\ tries[s] + 1 \in 0 .. AttemptLimit /\ spec[s] \in Nat
      BY <2>0 DEF Grantable, NextAttempt, Attempts
    <2>1. CASE AuthorityExpires(s)
      BY <2>1 DEF AuthorityExpires, StepStatus, ExecutionStatus
    <2>2. CASE ClaimSkips(s)
      BY <2>2 DEF ClaimSkips, StepStatus
    <2>3. CASE ClaimRefused(s)
      BY <2>0, <2>3 DEF ClaimRefused, TakeAttempt, StepStatus, AttemptStatus, ExecAfterStepFailure, ExecutionStatus
    <2>4. CASE ClaimNeedsApproval(s)
      BY <2>0, <2>4 DEF ClaimNeedsApproval, TakeAttempt, StepStatus, AttemptStatus, RequestStatus
    <2>5. CASE Claim(s)
      BY <2>0, <2>5 DEF Claim, TakeAttempt, StepStatus, AttemptStatus, OutboxStatus
    <2> QED BY <1>3, <2>1, <2>2, <2>3, <2>4, <2>5 DEF ClaimStep
  <1>4. Cancel => TypeOK'
    <2>1. CASE RequestCancel
      BY <2>1 DEF RequestCancel, CancelBegin
    <2>2. CASE CancelCommit
      BY <2>2 DEF CancelCommit, ExecutionStatus, StepStatus, AttemptStatus, OutboxStatus
    <2> QED BY <2>1, <2>2 DEF Cancel
  <1> QED BY <1>1, <1>2, <1>3, <1>4

\* A dispatcher that is not idle holds a claim.
LEMMA BusyClaim ==
  ASSUME TypeOK, NEW d \in Dispatchers, disp[d].pc # "idle"
  PROVE  disp[d] \in BusyDispatcher /\ disp[d].inv \in Attempts
  BY DEF TypeOK, BusyDispatcher, IdleDispatcher

\* Leases, invocations and their commits keep the tables well typed.
LEMMA TypeDispatch ==
  ASSUME TypeOK, Dispatch PROVE TypeOK'
PROOF
  <1> USE BoundAssumption DEF TypeOK, stepVars, outboxVars, inboxVars, processVars,
          cancelVars, planVars
  <1>0. ASSUME NEW d \in Dispatchers, EndDispatch(d)
        PROVE  disp' \in [Dispatchers -> BusyDispatcher \cup {IdleDispatcher}]
    BY <1>0 DEF EndDispatch
  <1>1. ASSUME NEW d \in Dispatchers, NEW a \in Attempts, Lease(d, a) PROVE TypeOK'
    <2>1. leases[a] + 1 \in 1 .. LeaseLimit
      BY <1>1 DEF Lease, Leasable
    <2>2. disp' \in [Dispatchers -> BusyDispatcher \cup {IdleDispatcher}]
      BY <1>1, <2>1 DEF Lease, BusyDispatcher
    <2> QED BY <1>1, <2>1, <2>2 DEF Lease, OutboxStatus
  <1>2. ASSUME NEW d \in Dispatchers, Invoke(d) PROVE TypeOK'
    <2>1. disp[d] \in BusyDispatcher /\ disp[d].inv \in Attempts
      BY <1>2, BusyClaim DEF Invoke
    <2>2. disp' \in [Dispatchers -> BusyDispatcher \cup {IdleDispatcher}]
      <3>1. \A answer \in {"accepted", "errored", "rejected"} :
              [disp[d] EXCEPT !.pc = answer] \in BusyDispatcher
        BY <2>1 DEF BusyDispatcher
      <3> QED BY <1>2, <3>1 DEF Invoke
    <2> QED BY <1>2, <2>1, <2>2 DEF Invoke
  <1>3. ASSUME NEW d \in Dispatchers, MarkDispatched(d) PROVE TypeOK'
    <2>1. disp[d].inv \in Attempts
      BY <1>3, BusyClaim DEF MarkDispatched
    <2> QED BY <1>0, <1>3, <2>1 DEF MarkDispatched, OutboxStatus, AttemptStatus
  <1>4. ASSUME NEW d \in Dispatchers, ReturnToPending(d) PROVE TypeOK'
    BY <1>0, <1>4 DEF ReturnToPending, OutboxStatus
  <1>5. ASSUME NEW d \in Dispatchers, FailNonRetryable(d) PROVE TypeOK'
    BY <1>0, <1>5 DEF FailNonRetryable, SettleRejectedStep, ExecAfterStepFailure,
       OutboxStatus, AttemptStatus, StepStatus, ExecutionStatus
  <1>6. ASSUME NEW d \in Dispatchers, CrashDispatcher(d) PROVE TypeOK'
    BY <1>0, <1>6 DEF CrashDispatcher
  <1>7. ASSUME NEW a \in Attempts, NotifyCancel(a) PROVE TypeOK'
    BY <1>7 DEF NotifyCancel
  <1> QED BY <1>1, <1>2, <1>3, <1>4, <1>5, <1>6, <1>7 DEF Dispatch

\* Results and events keep the tables well typed.
LEMMA TypeReport ==
  ASSUME TypeOK, Report PROVE TypeOK'
PROOF
  <1> USE DEF TypeOK, stepVars, outboxVars, inboxVars, processVars, cancelVars, planVars
  <1>1. ASSUME NEW a \in Attempts, NEW p \in Payload, Apply(a, p) PROVE TypeOK'
    <2>1. CASE Reject(a, p)
      BY <1>1, <2>1 DEF Apply, Reject, InboxStatus
    <2>2. CASE Accept(a, p)
      <3>1. PICK e \in EffectiveStatuses(a, p) :
              /\ att' = [att EXCEPT ![a] = IF @ \in TerminalAttempt THEN @ ELSE e]
              /\ outbox' = [outbox EXCEPT ![a] = IF @ \in DispatchableRow THEN "COMPLETED" ELSE @]
              /\ step' = [step EXCEPT ![a[1]] = StepOutcome(a, e)]
              /\ exec' = ExecOutcome(a, StepOutcome(a, e))
              /\ inbox' = [inbox EXCEPT ![a] = "APPLIED"]
              /\ canonical' = [canonical EXCEPT ![a] = p]
              /\ ProposePatch(a, e)
        BY <2>2 DEF Accept
      <3>2. e \in AttemptStatus
        BY DEF EffectiveStatuses, TerminalStatus, AttemptStatus, Payload, Outcome
      <3>3. StepOutcome(a, e) \in StepStatus
        BY DEF StepOutcome, StepStatus
      <3>4. exec' \in ExecutionStatus
        BY <3>1 DEF ExecOutcome, ExecAfterStepFailure, ExecutionStatus
      <3>5. proposal' \in [Proposals -> ProposalStatus] /\ base' \in [Proposals -> Nat]
        BY <3>1 DEF ProposePatch, ProposalStatus
      <3> QED BY <1>1, <3>1, <3>2, <3>3, <3>4, <3>5 DEF Apply, OutboxStatus, InboxStatus
    <2> QED BY <1>1, <2>1, <2>2 DEF Apply
  <1>2. ASSUME NEW a \in Attempts, WorkerResult(a) PROVE TypeOK'
    BY <1>1, <1>2 DEF WorkerResult, Payload
  <1>3. ASSUME NEW a \in Attempts, DeadlineResult(a) PROVE TypeOK'
    BY <1>1, <1>3 DEF DeadlineResult, Payload, Outcome
  <1>4. ASSUME NEW a \in Attempts, SupervisionResult(a) PROVE TypeOK'
    BY <1>1, <1>4 DEF SupervisionResult, Payload, Outcome
  <1>5. ASSUME NEW a \in Attempts, AgentEvent(a) PROVE TypeOK'
    BY <1>5 DEF AgentEvent, AttemptStatus
  <1> QED BY <1>2, <1>3, <1>4, <1>5 DEF Report

\* Approval and plan decisions keep the tables well typed.
LEMMA TypeDecision ==
  ASSUME TypeOK, Decision PROVE TypeOK'
PROOF
  <1> USE DEF TypeOK, stepVars, outboxVars, inboxVars, processVars, cancelVars, planVars
  <1>0. ASSUME NEW a \in Attempts, NEW o \in {"APPROVED", "DENIED", "EXPIRED"},
               Decided(a, o), FailWaiting(a), UNCHANGED outbox
        PROVE  TypeOK'
    BY <1>0 DEF Decided, FailWaiting, RequestStatus, AttemptStatus, StepStatus, ExecutionStatus
  <1>1. ASSUME NEW a \in Attempts, Approve(a) PROVE TypeOK'
    BY <1>1 DEF Approve, Decided, Resume, RequestStatus, AttemptStatus, StepStatus, OutboxStatus
  <1>2. ASSUME NEW a \in Attempts, ApproveRefused(a) PROVE TypeOK'
    BY <1>0, <1>2 DEF ApproveRefused
  <1>3. ASSUME NEW a \in Attempts, Deny(a) PROVE TypeOK'
    BY <1>0, <1>3 DEF Deny
  <1>4. ASSUME NEW a \in Attempts, ExpireApproval(a) PROVE TypeOK'
    BY <1>0, <1>4 DEF ExpireApproval
  <1>5. ASSUME NEW p \in Proposals, Propose(p) PROVE TypeOK'
    BY <1>5 DEF Propose, ProposalStatus
  <1>6. ASSUME NEW p \in Proposals, Activate(p) PROVE TypeOK'
    BY <1>6 DEF Activate, Decide, ActivateRevision, ProposalStatus, RequestStatus, StepStatus
  <1>7. ASSUME NEW p \in Proposals, ApprovePatch(p) PROVE TypeOK'
    BY <1>7 DEF ApprovePatch, Decide, ActivateRevision, ProposalStatus, RequestStatus, StepStatus
  <1>8. ASSUME NEW p \in Proposals, RefusePatch(p) PROVE TypeOK'
    BY <1>8 DEF RefusePatch, ProposalStatus, RequestStatus
  <1> QED BY <1>1, <1>2, <1>3, <1>4, <1>5, <1>6, <1>7, <1>8 DEF Decision

\* Every transaction keeps the tables well typed.
LEMMA TypeNext ==
  ASSUME TypeOK, Next PROVE TypeOK'
  BY TypeScheduling, TypeDispatch, TypeReport, TypeDecision DEF Next, Reconcile, Schedule

\* Every table, process and lease stays within its declared domain.
THEOREM TypeCorrect == Spec => []TypeOK
PROOF
  <1>1. TypeOK /\ [Next]_vars => TypeOK'
    <2> SUFFICES ASSUME TypeOK, [Next]_vars PROVE TypeOK'
      OBVIOUS
    <2>1. CASE Next
      BY <2>1, TypeNext
    <2>2. CASE UNCHANGED vars
      BY <2>2 DEF TypeOK, vars, stepVars, outboxVars, inboxVars, processVars, cancelVars, planVars
    <2> QED BY <2>1, <2>2
  <1> QED BY <1>1, TypeInit, PTL DEF Spec

(***************************************************************************)
(* The inductive invariant                                                 *)
(***************************************************************************)

\* The rows a cancel transaction has locked stay live until it commits.
LockedAreLive == \A a \in locked : att[a] \in LiveAttempt

\* Attempt rows are numbered 1 .. tries[s] without a gap.
AttemptsAreNumbered ==
  \A a \in Attempts : att[a] = "NONE" <=> a[2] > tries[a[1]]

\* OutboxFollowsAttempt and AppliedResultIsOutcome for one attempt, and that
\* only a settled attempt has an applied result.
RowsAgree(a) ==
  /\ att[a] \in {"NONE", "WAITING"} => outbox[a] = "NONE"
  /\ att[a] = "CREATED" => outbox[a] \in {"PENDING", "LEASED"}
  /\ att[a] \in {"DISPATCHED", "RUNNING"} => outbox[a] = "DISPATCHED" /\ a \in receipts
  /\ att[a] \in TerminalAttempt => outbox[a] \notin DispatchableRow
  /\ inbox[a] = "APPLIED" =>
       /\ att[a] \in TerminalAttempt
       /\ \/ att[a] = TerminalStatus(canonical[a])
          \/ canonical[a].status = "succeeded" /\ att[a] = "FAILED"

IInv ==
  /\ TypeOK
  /\ LockedAreLive
  /\ AttemptsAreNumbered
  /\ \A a \in Attempts : RowsAgree(a)
  /\ OneActiveAttempt

\* Initially no attempt exists.
LEMMA InvInit == Init => IInv
PROOF
  <1> SUFFICES ASSUME Init PROVE IInv
    OBVIOUS
  <1>1. TypeOK
    BY TypeInit
  <1>2. \A a \in Attempts : a[1] \in Steps /\ a[2] \in Nat /\ a[2] > 0
    BY BoundAssumption DEF Attempts
  <1> QED
    BY <1>1, <1>2 DEF Init, IInv, LockedAreLive, AttemptsAreNumbered, RowsAgree,
       OneActiveAttempt, ActiveAttempt, TerminalAttempt, AttemptsOf

\* Transactions that leave attempts, their outbox and inbox rows and the
\* cancel locks alone preserve the invariant.
LEMMA Frame ==
  ASSUME IInv, TypeOK', UNCHANGED <<tries, att, outbox, receipts, inbox, canonical, locked>>
  PROVE  IInv'
  BY DEF IInv, LockedAreLive, AttemptsAreNumbered, RowsAgree, OneActiveAttempt, AttemptsOf

\* A transaction that moves one unlocked attempt and its rows preserves the
\* invariant if the rows agree afterwards, the numbering is kept, and an
\* attempt that becomes active is the only one of its step.
LEMMA MoveOne ==
  ASSUME IInv, TypeOK', AttemptsAreNumbered', locked' = locked,
         NEW a \in Attempts, a \notin locked,
         \A b \in Attempts : b # a =>
           /\ att'[b] = att[b]
           /\ outbox'[b] = outbox[b]
           /\ inbox'[b] = inbox[b]
           /\ canonical'[b] = canonical[b]
           /\ b \in receipts => b \in receipts',
         att'[a] \in ActiveAttempt => att[a] \in ActiveAttempt \/ ~HasActiveAttempt(a[1]),
         RowsAgree(a)'
  PROVE  IInv'
PROOF
  <1>1. LockedAreLive'
    BY DEF IInv, TypeOK, LockedAreLive
  <1>2. ASSUME NEW b \in Attempts PROVE RowsAgree(b)'
    BY <1>2 DEF IInv, RowsAgree
  <1>3. OneActiveAttempt'
    <2> SUFFICES ASSUME NEW s \in Steps, NEW b \in AttemptsOf(s), NEW c \in AttemptsOf(s),
                        att'[b] \in ActiveAttempt, att'[c] \in ActiveAttempt
                 PROVE  b = c
      BY DEF OneActiveAttempt, AttemptsOf
    <2>1. b \in Attempts /\ c \in Attempts /\ b[1] = s /\ c[1] = s
      BY DEF AttemptsOf
    <2>2. att[b] \in ActiveAttempt /\ att[c] \in ActiveAttempt => b = c
      BY DEF IInv, OneActiveAttempt
    <2> QED BY <2>1, <2>2 DEF HasActiveAttempt, AttemptsOf
  <1> QED BY <1>1, <1>2, <1>3 DEF IInv

\* The attempt a claim takes does not exist yet, in any table.
LEMMA FreshAttempt ==
  ASSUME IInv, NEW s \in Steps, Grantable(s)
  PROVE  /\ NextAttempt(s) \in Attempts
         /\ NextAttempt(s)[1] = s
         /\ NextAttempt(s)[2] = tries[s] + 1
         /\ att[NextAttempt(s)] = "NONE"
         /\ NextAttempt(s) \notin locked
         /\ outbox[NextAttempt(s)] = "NONE"
         /\ inbox[NextAttempt(s)] # "APPLIED"
PROOF
  <1> DEFINE n == NextAttempt(s)
  <1>1. n \in Attempts /\ n[1] = s /\ n[2] = tries[s] + 1 /\ tries[s] \in Nat
    BY BoundAssumption DEF Grantable, NextAttempt, Attempts, IInv, TypeOK
  <1>2. att[n] = "NONE"
    BY <1>1 DEF IInv, AttemptsAreNumbered
  <1>3. n \notin locked
    BY <1>2 DEF IInv, LockedAreLive, LiveAttempt, ActiveAttempt
  <1>4. outbox[n] = "NONE" /\ inbox[n] # "APPLIED"
    BY <1>1, <1>2 DEF IInv, RowsAgree, TerminalAttempt
  <1> QED BY <1>1, <1>2, <1>3, <1>4

\* Taking the next attempt keeps the numbering.
LEMMA TakeKeepsNumbers ==
  ASSUME IInv, NEW s \in Steps, Grantable(s), NEW v \in AttemptStatus \ {"NONE"},
         att' = [att EXCEPT ![NextAttempt(s)] = v],
         tries' = [tries EXCEPT ![s] = @ + 1]
  PROVE  AttemptsAreNumbered'
PROOF
  <1> SUFFICES ASSUME NEW a \in Attempts
               PROVE  att'[a] = "NONE" <=> a[2] > tries'[a[1]]
    BY DEF AttemptsAreNumbered
  <1>1. a[1] \in Steps /\ a[2] \in Nat /\ a = <<a[1], a[2]>>
    BY BoundAssumption DEF Attempts
  <1>2. att[a] = "NONE" <=> a[2] > tries[a[1]]
    BY DEF IInv, AttemptsAreNumbered
  <1>3. tries[a[1]] \in Nat /\ tries[s] \in Nat
    BY <1>1, BoundAssumption DEF IInv, TypeOK
  <1>4. CASE a = NextAttempt(s)
    BY <1>1, <1>3, <1>4 DEF NextAttempt, IInv, TypeOK
  <1>5. CASE a # NextAttempt(s) /\ a[1] = s
    <2>1. a[2] # tries[s] + 1
      BY <1>1, <1>5 DEF NextAttempt
    <2> QED BY <1>1, <1>2, <1>3, <1>5, <2>1 DEF IInv, TypeOK
  <1>6. CASE a[1] # s
    BY <1>1, <1>2, <1>6 DEF NextAttempt, IInv, TypeOK
  <1> QED BY <1>4, <1>5, <1>6

\* Promotion, reconciliation passes, claims and cancellation preserve the
\* invariant.
LEMMA InvScheduling ==
  ASSUME IInv, TypeOK' PROVE
    /\ Promote => IInv'
    /\ \A r \in Reconcilers : PassStep(r) => IInv'
    /\ \A s \in Steps : AuthorityExpires(s) \/ ClaimSkips(s) \/ ClaimStep(s) => IInv'
    /\ Cancel => IInv'
PROOF
  <1> USE DEF stepVars, outboxVars, inboxVars, processVars, cancelVars, planVars
  <1>1. Promote => IInv'
    BY Frame DEF Promote
  <1>0. ASSUME CancelBegin, UNCHANGED <<tries, att, outbox, receipts, inbox, canonical>>
        PROVE  IInv'
    BY <1>0 DEF CancelBegin, IInv, LockedAreLive, AttemptsAreNumbered, RowsAgree,
       OneActiveAttempt, AttemptsOf
  <1>2. ASSUME NEW r \in Reconcilers, PassStep(r) PROVE IInv'
    <2>1. CASE ReconcileCancel(r)
      BY <1>0, <2>1 DEF ReconcileCancel
    <2>2. CASE ~ReconcileCancel(r)
      BY <1>2, <2>2, Frame DEF PassStep, BeginPass, Advance, ReadPlan, ReadSteps,
         FailExecution, CompleteExecution
    <2> QED BY <2>1, <2>2
  <1>3. ASSUME NEW s \in Steps, AuthorityExpires(s) \/ ClaimSkips(s) \/ ClaimStep(s)
        PROVE  IInv'
    <2>0. ASSUME Grantable(s), NEW v \in {"FAILED", "WAITING", "CREATED"},
                 att' = [att EXCEPT ![NextAttempt(s)] = v],
                 tries' = [tries EXCEPT ![s] = @ + 1],
                 \/ v # "CREATED" /\ outbox' = outbox
                 \/ v = "CREATED" /\ outbox' = [outbox EXCEPT ![NextAttempt(s)] = "PENDING"],
                 UNCHANGED <<receipts, inbox, canonical, locked>>
          PROVE  IInv'
      <3>1. PICK n \in Attempts :
              /\ n = NextAttempt(s) /\ n[1] = s /\ att[n] = "NONE" /\ n \notin locked
              /\ outbox[n] = "NONE" /\ inbox[n] # "APPLIED"
        BY <2>0, FreshAttempt
      <3>2. AttemptsAreNumbered'
        BY <2>0, TakeKeepsNumbers DEF AttemptStatus
      <3>3. att'[n] = v /\ \A b \in Attempts : b # n => att'[b] = att[b] /\ outbox'[b] = outbox[b]
        BY <2>0, <3>1 DEF IInv, TypeOK
      <3>4. RowsAgree(n)'
        BY <2>0, <3>1, <3>3 DEF RowsAgree, IInv, TypeOK, TerminalAttempt, DispatchableRow
      <3>5. ~HasActiveAttempt(n[1])
        BY <2>0, <3>1 DEF Grantable
      <3> QED BY <2>0, <3>1, <3>2, <3>3, <3>4, <3>5, MoveOne
    <2>1. CASE AuthorityExpires(s) \/ ClaimSkips(s)
      BY <2>1, Frame DEF AuthorityExpires, ClaimSkips
    <2>2. CASE ClaimRefused(s)
      BY <2>0, <2>2 DEF ClaimRefused, TakeAttempt
    <2>3. CASE ClaimNeedsApproval(s)
      BY <2>0, <2>3 DEF ClaimNeedsApproval, TakeAttempt
    <2>4. CASE Claim(s)
      BY <2>0, <2>4 DEF Claim, TakeAttempt
    <2> QED BY <1>3, <2>1, <2>2, <2>3, <2>4 DEF ClaimStep
  <1>4. Cancel => IInv'
    <2>1. CASE RequestCancel
      BY <1>0, <2>1 DEF RequestCancel
    <2>2. CASE CancelCommit
      <3>0. locked' = {} /\ UNCHANGED <<tries, receipts, inbox, canonical>>
        BY <2>2 DEF CancelCommit
      <3>1. CASE UNCHANGED <<att, outbox>>
        BY <3>0, <3>1 DEF IInv, LockedAreLive, AttemptsAreNumbered, RowsAgree,
           OneActiveAttempt, AttemptsOf
      <3>2. CASE ~UNCHANGED <<att, outbox>>
        <4>1. /\ att' = [a \in Attempts |-> IF a \in locked THEN "CANCELLED" ELSE att[a]]
              /\ outbox' = [a \in Attempts |->
                              IF a \in locked /\ outbox[a] \in DispatchableRow
                                THEN "COMPLETED" ELSE outbox[a]]
          BY <2>2, <3>2 DEF CancelCommit
        <4>2. \A a \in locked : att[a] \in {"CREATED", "DISPATCHED", "RUNNING", "WAITING"}
          BY DEF IInv, LockedAreLive, LiveAttempt, ActiveAttempt
        <4>3. AttemptsAreNumbered'
          BY <3>0, <4>1, <4>2 DEF IInv, AttemptsAreNumbered
        <4>4. ASSUME NEW a \in Attempts PROVE RowsAgree(a)'
          <5>1. CASE a \in locked
            BY <3>0, <4>1, <4>2, <5>1 DEF IInv, RowsAgree, TerminalAttempt, DispatchableRow
          <5>2. CASE a \notin locked
            BY <3>0, <4>1, <5>2 DEF IInv, RowsAgree
          <5> QED BY <5>1, <5>2
        <4>5. OneActiveAttempt'
          BY <4>1 DEF IInv, OneActiveAttempt, AttemptsOf, ActiveAttempt
        <4> QED BY <3>0, <4>3, <4>4, <4>5 DEF IInv, LockedAreLive
      <3> QED BY <3>1, <3>2
    <2> QED BY <2>1, <2>2 DEF Cancel
  <1> QED BY <1>1, <1>2, <1>3, <1>4

\* An attempt that keeps existing keeps the numbering.
LEMMA MoveKeepsNumbers ==
  ASSUME IInv, NEW a \in Attempts, att[a] # "NONE", NEW v, v # "NONE",
         att' = [att EXCEPT ![a] = v], tries' = tries
  PROVE  AttemptsAreNumbered'
  BY DEF IInv, TypeOK, AttemptsAreNumbered

\* The dispatcher's transactions preserve the invariant: a lease that is
\* still held belongs to an attempt that was never sent.
LEMMA InvDispatch ==
  ASSUME IInv, TypeOK', Dispatch PROVE IInv'
PROOF
  <1> USE DEF stepVars, outboxVars, inboxVars, processVars, cancelVars, planVars
  <1>0. ASSUME NEW a \in Attempts, outbox[a] \in {"PENDING", "LEASED"}
        PROVE  att[a] = "CREATED" /\ inbox[a] # "APPLIED"
    BY <1>0 DEF IInv, TypeOK, AttemptStatus, RowsAgree, TerminalAttempt, DispatchableRow
  <1>9. ASSUME NEW a \in Attempts, NEW w \in {"PENDING", "LEASED"},
               outbox[a] \in {"PENDING", "LEASED"}, outbox' = [outbox EXCEPT ![a] = w],
               UNCHANGED <<tries, att, receipts, inbox, canonical, locked>>
        PROVE  IInv'
    <2>1. ASSUME NEW b \in Attempts PROVE RowsAgree(b)'
      BY <1>0, <1>9 DEF IInv, TypeOK, RowsAgree, TerminalAttempt
    <2> QED
      BY <1>9, <2>1 DEF IInv, LockedAreLive, AttemptsAreNumbered, OneActiveAttempt, AttemptsOf
  <1>1. ASSUME NEW d \in Dispatchers, NEW a \in Attempts, Lease(d, a) PROVE IInv'
    BY <1>1, <1>9 DEF Lease, Leasable
  <1>2. ASSUME NEW d \in Dispatchers, Invoke(d) \/ CrashDispatcher(d) PROVE IInv'
    BY <1>2, Frame DEF Invoke, CrashDispatcher
  <1>3. ASSUME NEW d \in Dispatchers, MarkDispatched(d) PROVE IInv'
    <2>1. PICK a \in Attempts : a = disp[d].inv
      BY <1>3, BusyClaim DEF MarkDispatched, IInv
    <2>2. CASE att[a] \notin TerminalAttempt /\ HoldsLease(d)
      <3>1. att[a] = "CREATED" /\ inbox[a] # "APPLIED"
        BY <2>1, <2>2, <1>0 DEF HoldsLease
      <3>2. /\ outbox' = [outbox EXCEPT ![a] = "DISPATCHED"] /\ receipts' = receipts \cup {a}
            /\ att' = [att EXCEPT ![a] = "DISPATCHED"] /\ a \notin locked
            /\ UNCHANGED <<tries, inbox, canonical, locked>>
        BY <1>3, <2>1, <2>2, <3>1 DEF MarkDispatched
      <3>3. AttemptsAreNumbered'
        BY <2>1, <3>1, <3>2, MoveKeepsNumbers
      <3>4. RowsAgree(a)'
        BY <2>1, <3>1, <3>2 DEF RowsAgree, IInv, TypeOK, TerminalAttempt
      <3>5. /\ att'[a] = "DISPATCHED" /\ att[a] \in ActiveAttempt
            /\ \A b \in Attempts : b # a => att'[b] = att[b] /\ outbox'[b] = outbox[b]
        BY <2>1, <3>1, <3>2 DEF IInv, TypeOK, ActiveAttempt
      <3> QED BY <2>1, <3>2, <3>3, <3>4, <3>5, MoveOne
    <2>3. CASE ~(att[a] \notin TerminalAttempt /\ HoldsLease(d))
      BY <1>3, <2>1, <2>3, Frame DEF MarkDispatched
    <2> QED BY <2>2, <2>3
  <1>4. ASSUME NEW d \in Dispatchers, ReturnToPending(d) PROVE IInv'
    <2>1. PICK a \in Attempts : a = disp[d].inv
      BY <1>4, BusyClaim DEF ReturnToPending, IInv
    <2>2. CASE HoldsLease(d)
      <3>1. /\ outbox[a] = "LEASED" /\ outbox' = [outbox EXCEPT ![a] = "PENDING"]
            /\ UNCHANGED <<tries, att, receipts, inbox, canonical, locked>>
        BY <1>4, <2>1, <2>2 DEF ReturnToPending, HoldsLease
      <3> QED BY <2>1, <3>1, <1>9
    <2>3. CASE ~HoldsLease(d)
      <3>1. outbox' = outbox
        BY <1>4, <2>1, <2>3 DEF ReturnToPending, IInv, TypeOK
      <3> QED BY <1>4, <3>1, Frame DEF ReturnToPending
    <2> QED BY <2>2, <2>3
  <1>5. ASSUME NEW d \in Dispatchers, FailNonRetryable(d) PROVE IInv'
    <2>1. PICK a \in Attempts : a = disp[d].inv
      BY <1>5, BusyClaim DEF FailNonRetryable, IInv
    <2>2. CASE HoldsLease(d)
      <3>1. att[a] = "CREATED" /\ inbox[a] # "APPLIED"
        BY <2>1, <2>2, <1>0 DEF HoldsLease
      <3>2. /\ outbox' = [outbox EXCEPT ![a] = "FAILED"]
            /\ att' = [att EXCEPT ![a] = "FAILED"] /\ a \notin locked
            /\ UNCHANGED <<tries, receipts, inbox, canonical, locked>>
        BY <1>5, <2>1, <2>2, <3>1 DEF FailNonRetryable, TerminalAttempt
      <3>3. AttemptsAreNumbered'
        BY <2>1, <3>1, <3>2, MoveKeepsNumbers
      <3>4. RowsAgree(a)'
        BY <2>1, <3>1, <3>2 DEF RowsAgree, IInv, TypeOK, TerminalAttempt, DispatchableRow
      <3>5. /\ att'[a] \notin ActiveAttempt
            /\ \A b \in Attempts : b # a => att'[b] = att[b] /\ outbox'[b] = outbox[b]
        BY <2>1, <3>1, <3>2 DEF IInv, TypeOK, ActiveAttempt
      <3> QED BY <2>1, <3>2, <3>3, <3>4, <3>5, MoveOne
    <2>3. CASE ~HoldsLease(d)
      BY <1>5, <2>3, Frame DEF FailNonRetryable
    <2> QED BY <2>2, <2>3
  <1>6. ASSUME NEW a \in Attempts, NotifyCancel(a) PROVE IInv'
    BY <1>6, Frame DEF NotifyCancel
  <1> QED BY <1>1, <1>2, <1>3, <1>4, <1>5, <1>6 DEF Dispatch

\* A payload settles an attempt, with its own status or, for a success that
\* failed its postcondition, with FAILED.
LEMMA EffectiveIsTerminal ==
  ASSUME NEW a, NEW p \in Payload, NEW e \in EffectiveStatuses(a, p)
  PROVE  /\ e \in TerminalAttempt
         /\ e = TerminalStatus(p) \/ (p.status = "succeeded" /\ e = "FAILED")
  BY DEF EffectiveStatuses, TerminalStatus, TerminalAttempt, Payload, Outcome

\* Results and events preserve the invariant, whatever state they meet.
LEMMA InvReport ==
  ASSUME IInv, TypeOK', Report PROVE IInv'
PROOF
  <1> USE DEF stepVars, outboxVars, inboxVars, processVars, cancelVars, planVars
  <1>1. ASSUME NEW a \in Attempts, NEW p \in Payload, Apply(a, p) PROVE IInv'
    <2>0. /\ att[a] # "NONE" /\ a \notin locked /\ inbox[a] # "APPLIED"
          /\ UNCHANGED <<tries, receipts, locked>>
      BY <1>1 DEF Apply
    <2>1. CASE Reject(a, p)
      <3>1. /\ inbox' = [inbox EXCEPT ![a] = "REJECTED"]
            /\ canonical' = [canonical EXCEPT ![a] = p]
            /\ UNCHANGED <<att, outbox>>
        BY <2>1 DEF Reject
      <3>2. ASSUME NEW b \in Attempts PROVE RowsAgree(b)'
        BY <2>0, <3>1 DEF IInv, TypeOK, RowsAgree
      <3> QED
        BY <2>0, <3>1, <3>2 DEF IInv, LockedAreLive, AttemptsAreNumbered, OneActiveAttempt, AttemptsOf
    <2>2. CASE ~Overruled(a, p) /\ Accept(a, p)
      <3>1. PICK e \in EffectiveStatuses(a, p) :
              /\ att' = [att EXCEPT ![a] = IF @ \in TerminalAttempt THEN @ ELSE e]
              /\ outbox' = [outbox EXCEPT ![a] = IF @ \in DispatchableRow THEN "COMPLETED" ELSE @]
              /\ inbox' = [inbox EXCEPT ![a] = "APPLIED"]
              /\ canonical' = [canonical EXCEPT ![a] = p]
        BY <2>2 DEF Accept
      <3>2. PICK v \in TerminalAttempt :
              /\ att' = [att EXCEPT ![a] = v]
              /\ v = TerminalStatus(p) \/ (p.status = "succeeded" /\ v = "FAILED")
        <4>1. CASE att[a] \in TerminalAttempt
          BY <2>2, <3>1, <4>1 DEF Overruled, IInv, TypeOK
        <4>2. CASE att[a] \notin TerminalAttempt
          <5>1. att' = [att EXCEPT ![a] = e]
            BY <3>1, <4>2 DEF IInv, TypeOK
          <5> QED BY <5>1, EffectiveIsTerminal
        <4> QED BY <4>1, <4>2
      <3>3. /\ att'[a] = v /\ inbox'[a] = "APPLIED" /\ canonical'[a] = p
            /\ outbox'[a] \notin DispatchableRow
            /\ \A b \in Attempts : b # a =>
                 att'[b] = att[b] /\ outbox'[b] = outbox[b] /\ inbox'[b] = inbox[b]
                 /\ canonical'[b] = canonical[b]
        BY <3>1, <3>2 DEF IInv, TypeOK, DispatchableRow
      <3>4. AttemptsAreNumbered'
        BY <2>0, <3>2, MoveKeepsNumbers DEF TerminalAttempt
      <3>5. RowsAgree(a)'
        BY <3>2, <3>3 DEF RowsAgree, TerminalAttempt
      <3>6. att'[a] \notin ActiveAttempt
        BY <3>3 DEF ActiveAttempt, TerminalAttempt
      <3> QED BY <2>0, <3>3, <3>4, <3>5, <3>6, MoveOne
    <2> QED BY <1>1, <2>1, <2>2 DEF Apply
  <1>2. ASSUME NEW a \in Attempts, WorkerResult(a) PROVE IInv'
    BY <1>1, <1>2 DEF WorkerResult, Payload
  <1>3. ASSUME NEW a \in Attempts, DeadlineResult(a) PROVE IInv'
    BY <1>1, <1>3 DEF DeadlineResult, Payload, Outcome
  <1>4. ASSUME NEW a \in Attempts, SupervisionResult(a) PROVE IInv'
    BY <1>1, <1>4 DEF SupervisionResult, Payload, Outcome
  <1>5. ASSUME NEW a \in Attempts, AgentEvent(a) PROVE IInv'
    <2>1. /\ att[a] = "DISPATCHED" /\ a \notin locked /\ att' = [att EXCEPT ![a] = "RUNNING"]
          /\ UNCHANGED <<tries, outbox, receipts, inbox, canonical, locked>>
      BY <1>5 DEF AgentEvent, ShowsActivity
    <2>2. AttemptsAreNumbered'
      BY <2>1, MoveKeepsNumbers
    <2>3. RowsAgree(a)'
      BY <2>1 DEF RowsAgree, IInv, TypeOK, TerminalAttempt
    <2>4. att[a] \in ActiveAttempt /\ \A b \in Attempts : b # a => att'[b] = att[b]
      BY <2>1 DEF ActiveAttempt, IInv, TypeOK
    <2> QED BY <2>1, <2>2, <2>3, <2>4, MoveOne
  <1> QED BY <1>2, <1>3, <1>4, <1>5 DEF Report

\* Approval decisions and plan transactions preserve the invariant.
LEMMA InvDecision ==
  ASSUME IInv, TypeOK', Decision PROVE IInv'
PROOF
  <1> USE DEF stepVars, outboxVars, inboxVars, processVars, cancelVars, planVars
  <1>0. ASSUME NEW a \in Attempts, att[a] = "WAITING", a \notin locked,
               NEW v \in {"FAILED", "CREATED"}, att' = [att EXCEPT ![a] = v],
               \/ v = "FAILED" /\ outbox' = outbox
               \/ /\ v = "CREATED" /\ outbox' = [outbox EXCEPT ![a] = "PENDING"]
                  /\ ~HasActiveAttempt(a[1]),
               UNCHANGED <<tries, receipts, inbox, canonical, locked>>
        PROVE  IInv'
    <2>1. AttemptsAreNumbered'
      BY <1>0, MoveKeepsNumbers
    <2>2. RowsAgree(a)'
      BY <1>0 DEF RowsAgree, IInv, TypeOK, TerminalAttempt, DispatchableRow
    <2>3. /\ att'[a] \in ActiveAttempt => ~HasActiveAttempt(a[1])
          /\ \A b \in Attempts : b # a => att'[b] = att[b] /\ outbox'[b] = outbox[b]
      BY <1>0 DEF ActiveAttempt, IInv, TypeOK
    <2> QED BY <1>0, <2>1, <2>2, <2>3, MoveOne
  <1>1. ASSUME NEW a \in Attempts, NEW o, Decided(a, o), FailWaiting(a), UNCHANGED outbox
        PROVE  IInv'
    <2>1. CASE att[a] = "WAITING"
      BY <1>0, <1>1, <2>1 DEF Decided, FailWaiting
    <2>2. CASE att[a] # "WAITING"
      BY <1>1, <2>2, Frame DEF Decided, FailWaiting
    <2> QED BY <2>1, <2>2
  <1>2. ASSUME NEW a \in Attempts, Approve(a) PROVE IInv'
    <2>1. CASE att[a] = "WAITING"
      BY <1>0, <1>2, <2>1 DEF Approve, Decided, Resume
    <2>2. CASE att[a] # "WAITING"
      BY <1>2, <2>2, Frame DEF Approve, Decided
    <2> QED BY <2>1, <2>2
  <1>3. ASSUME NEW a \in Attempts, ApproveRefused(a) \/ Deny(a) \/ ExpireApproval(a)
        PROVE  IInv'
    BY <1>1, <1>3 DEF ApproveRefused, Deny, ExpireApproval
  <1>4. ASSUME NEW p \in Proposals, Propose(p) \/ RefusePatch(p) PROVE IInv'
    BY <1>4, Frame DEF Propose, RefusePatch
  <1>5. ASSUME NEW p \in Proposals, Activate(p) \/ ApprovePatch(p) PROVE IInv'
    BY <1>5, Frame DEF Activate, ApprovePatch
  <1> QED BY <1>2, <1>3, <1>4, <1>5 DEF Decision

\* The invariant holds in every reachable state.
THEOREM Invariance == Spec => []IInv
PROOF
  <1>1. IInv /\ [Next]_vars => IInv'
    <2> SUFFICES ASSUME IInv, [Next]_vars PROVE IInv'
      OBVIOUS
    <2>1. CASE Next
      <3>1. TypeOK'
        BY <2>1, TypeNext DEF IInv
      <3> QED
        BY <2>1, <3>1, InvScheduling, InvDispatch, InvReport, InvDecision
        DEF Next, Reconcile, Schedule
    <2>2. CASE UNCHANGED vars
      BY <2>2 DEF IInv, TypeOK, LockedAreLive, AttemptsAreNumbered, RowsAgree,
         OneActiveAttempt, AttemptsOf, vars, stepVars, outboxVars, inboxVars,
         processVars, cancelVars, planVars
    <2> QED BY <2>1, <2>2
  <1> QED BY <1>1, InvInit, PTL DEF Spec

\* No two attempts of a step are ever active together, for any plan, any
\* number of replicas and any behaviour of workers.
THEOREM OneActiveAttemptHolds == Spec => []OneActiveAttempt
PROOF
  <1>1. IInv => OneActiveAttempt
    BY DEF IInv
  <1> QED BY <1>1, Invariance, PTL

\* The outbox row always tells where its attempt is.
THEOREM OutboxFollowsAttemptHolds == Spec => []OutboxFollowsAttempt
PROOF
  <1>1. IInv => OutboxFollowsAttempt
    BY DEF IInv, RowsAgree, OutboxFollowsAttempt
  <1> QED BY <1>1, Invariance, PTL

\* An applied result is the outcome of its attempt.
THEOREM AppliedResultIsOutcomeHolds == Spec => []AppliedResultIsOutcome
PROOF
  <1>1. IInv => AppliedResultIsOutcome
    BY DEF IInv, RowsAgree, AppliedResultIsOutcome
  <1> QED BY <1>1, Invariance, PTL

(***************************************************************************)
(* Action properties                                                       *)
(***************************************************************************)

\* Under a terminal execution no claim takes an attempt and no dispatcher
\* takes a lease, whatever was read before it ended.
THEOREM TerminalRunStartsNothingHolds == Spec => TerminalRunStartsNothing
PROOF
  <1> USE DEF stepVars, outboxVars, inboxVars, processVars, cancelVars, planVars
  <1>1. ASSUME [Next]_vars, exec \in TerminalExecution
        PROVE  tries' = tries /\ leases' = leases
    <2> USE <1>1
    <2>0. \A s \in Steps : ~Due(s)
      BY DEF Due, TerminalExecution
    <2>1. CASE Reconcile
      BY <2>1 DEF Reconcile, Promote, PassStep, BeginPass, Advance, ReadPlan, ReadSteps,
         FailExecution, CompleteExecution, ReconcileCancel
    <2>2. CASE Schedule
      BY <2>0, <2>2 DEF Schedule, ClaimStep, AuthorityExpires, ClaimSkips, ClaimRefused,
         ClaimNeedsApproval, Claim, Grantable, Claimable
    <2>3. CASE Cancel
      BY <2>3 DEF Cancel, RequestCancel, CancelCommit
    <2>4. CASE Dispatch
      BY <2>4 DEF Dispatch, Lease, Leasable, Invoke, MarkDispatched, ReturnToPending,
         FailNonRetryable, CrashDispatcher, NotifyCancel
    <2>5. CASE Report
      BY <2>5 DEF Report, WorkerResult, DeadlineResult, SupervisionResult, Apply, AgentEvent
    <2>6. CASE Decision
      BY <2>6 DEF Decision, Approve, ApproveRefused, Deny, ExpireApproval, Decided,
         Propose, Activate, ApprovePatch, RefusePatch
    <2>7. CASE UNCHANGED vars
      BY <2>7 DEF vars
    <2> QED BY <2>1, <2>2, <2>3, <2>4, <2>5, <2>6, <2>7 DEF Next
  <1>2. [Next]_vars => [(exec \in TerminalExecution) => tries' = tries /\ leases' = leases]_vars
    BY <1>1
  <1> QED BY <1>2, PTL DEF Spec, TerminalRunStartsNothing

\* A dispatcher whose lease was taken over, by expiry or after a crash,
\* leaves the row and the attempt of the newer claim alone.
THEOREM SupersededDispatcherIsHarmlessHolds == Spec => SupersededDispatcherIsHarmless
PROOF
  <1> USE DEF stepVars, outboxVars, inboxVars, processVars, cancelVars, planVars
  <1> DEFINE Harmless ==
        \A d \in Dispatchers, a \in Attempts :
          /\ disp[d].pc # "idle"
          /\ disp[d].inv = a
          /\ disp[d].token < leases[a]
          /\ disp'[d] # disp[d]
          => outbox'[a] = outbox[a] /\ att'[a] = att[a]
  <1>1. ASSUME TypeOK, [Next]_vars PROVE Harmless
    <2> SUFFICES ASSUME NEW d \in Dispatchers, NEW a \in Attempts,
                        disp[d].pc # "idle", disp[d].inv = a,
                        disp[d].token < leases[a], disp'[d] # disp[d]
                 PROVE  outbox'[a] = outbox[a] /\ att'[a] = att[a]
      OBVIOUS
    <2>0. disp[d].token \in Nat /\ leases[a] \in Nat /\ ~HoldsLease(d)
      <3>1. disp[d].token \in Nat /\ leases[a] \in Nat
        BY <1>1, BusyClaim, BoundAssumption DEF TypeOK, BusyDispatcher
      <3> QED BY <3>1 DEF HoldsLease
    <2>1. PICK e \in Dispatchers :
            \/ \E b \in Attempts : Lease(e, b)
            \/ Invoke(e) \/ MarkDispatched(e) \/ ReturnToPending(e)
            \/ FailNonRetryable(e) \/ CrashDispatcher(e)
      <3>1. CASE Reconcile
        BY <3>1 DEF Reconcile, Promote, PassStep, BeginPass, Advance, ReadPlan, ReadSteps,
           FailExecution, CompleteExecution, ReconcileCancel
      <3>2. CASE Schedule
        BY <3>2 DEF Schedule, ClaimStep, AuthorityExpires, ClaimSkips, ClaimRefused,
           ClaimNeedsApproval, Claim
      <3>3. CASE Cancel
        BY <3>3 DEF Cancel, RequestCancel, CancelCommit
      <3>4. CASE Dispatch
        BY <3>4 DEF Dispatch, NotifyCancel
      <3>5. CASE Report
        BY <3>5 DEF Report, WorkerResult, DeadlineResult, SupervisionResult, Apply, AgentEvent
      <3>6. CASE Decision
        BY <3>6 DEF Decision, Approve, ApproveRefused, Deny, ExpireApproval, Decided,
           Propose, Activate, ApprovePatch, RefusePatch
      <3>7. CASE UNCHANGED vars
        BY <3>7 DEF vars
      <3> QED BY <1>1, <3>1, <3>2, <3>3, <3>4, <3>5, <3>6, <3>7 DEF Next
    <2>2. e = d
      BY <1>1, <2>1 DEF TypeOK, Lease, Invoke, MarkDispatched, ReturnToPending,
         FailNonRetryable, CrashDispatcher, EndDispatch
    <2>3. CASE \E b \in Attempts : Lease(d, b)
      BY <2>3 DEF Lease
    <2>4. CASE MarkDispatched(d) \/ FailNonRetryable(d) \/ Invoke(d) \/ CrashDispatcher(d)
      BY <2>0, <2>4 DEF MarkDispatched, FailNonRetryable, Invoke, CrashDispatcher
    <2>5. CASE ReturnToPending(d)
      BY <1>1, <2>0, <2>5 DEF ReturnToPending, TypeOK
    <2> QED BY <2>1, <2>2, <2>3, <2>4, <2>5
  <1>2. TypeOK /\ [Next]_vars => [Harmless]_vars
    BY <1>1
  <1> QED BY <1>2, TypeCorrect, PTL DEF Spec, SupersededDispatcherIsHarmless

-----------------------------------------------------------------------------
(***************************************************************************)
(* Runtime implements WorkAuthority, for every plan, policy, number of     *)
(* processes and bound: the invariant makes every transaction a grant, a   *)
(* resumption or a settlement of work, or invisible to WorkAuthority.      *)
(* That outcomes are final follows from the abstract specification, and so *)
(* is proved once for all transactions.                                    *)
(***************************************************************************)

\* The abstract view of the attempt table.
Work == [a \in Attempts |-> WorkOf(att[a])]

\* What a transaction may do to the execution beside settling work.
ExecMayEnd ==
  exec' = exec \/ (exec \notin TerminalExecution /\ exec' \in TerminalExecution)

\* WorkOf keeps apart the statuses WorkAuthority keeps apart.
LEMMA WorkOfStatus ==
  /\ WorkOf("NONE") = "none"
  /\ WorkOf("WAITING") = "waiting"
  /\ \A v \in ActiveAttempt : WorkOf(v) = "active"
  /\ \A v \in TerminalAttempt : WorkOf(v) = v
  BY DEF WorkOf, ActiveAttempt, TerminalAttempt

\* What the abstract value of an attempt says about its row.
LEMMA WorkMeans ==
  ASSUME TypeOK, NEW a \in Attempts
  PROVE  /\ Work[a] = WorkOf(att[a])
         /\ Work[a] = "none" <=> att[a] = "NONE"
         /\ Work[a] = "waiting" <=> att[a] = "WAITING"
         /\ Work[a] = "active" <=> att[a] \in ActiveAttempt
         /\ Work[a] \in Authority!Settled <=> att[a] \in TerminalAttempt
PROOF
  <1>1. att[a] \in AttemptStatus
    BY DEF TypeOK
  <1>2. Work[a] = WorkOf(att[a])
    BY DEF Work
  <1> QED
    BY <1>1, <1>2, WorkOfStatus DEF AttemptStatus, ActiveAttempt, TerminalAttempt, Authority!Settled

\* A step that shows no change of work and at most ends the run.
LEMMA Invisible ==
  ASSUME \A a \in Attempts : WorkOf(att'[a]) = WorkOf(att[a]), ExecMayEnd
  PROVE  Authority!Settle
PROOF
  <1>1. Work' = Work
    BY DEF Work
  <1>2. Authority!MayEnd
    BY DEF ExecMayEnd, Authority!MayEnd, Authority!Ended, TerminalExecution
  <1>3. Work' = [i \in Authority!Items |-> IF i \in {} THEN "FAILED" ELSE Work[i]]
    BY <1>1 DEF Work, Authority!Items, Attempts
  <1>4. /\ {} \in SUBSET {i \in Authority!Items : Work[i] \in {"waiting", "active"}}
        /\ "FAILED" \in Authority!Settled
    BY DEF Authority!Settled
  <1> QED BY <1>2, <1>3, <1>4 DEF Authority!Settle, Work

\* A step that gives some live attempts one terminal outcome.
LEMMA Settles ==
  ASSUME TypeOK, NEW done \in SUBSET Attempts, NEW v \in TerminalAttempt,
         \A a \in done : att[a] \in LiveAttempt,
         att' = [a \in Attempts |-> IF a \in done THEN v ELSE att[a]],
         ExecMayEnd
  PROVE  Authority!Settle
PROOF
  <1>1. Authority!MayEnd
    BY DEF ExecMayEnd, Authority!MayEnd, Authority!Ended, TerminalExecution
  <1>2. done \in SUBSET {i \in Authority!Items : Work[i] \in {"waiting", "active"}}
    BY WorkMeans DEF LiveAttempt, Authority!Items, Attempts
  <1>3. Work' = [i \in Authority!Items |-> IF i \in done THEN v ELSE Work[i]]
    BY WorkOfStatus DEF Work, Authority!Items, Attempts
  <1>4. v \in Authority!Settled
    BY DEF Authority!Settled, TerminalAttempt
  <1> QED BY <1>1, <1>2, <1>3, <1>4 DEF Authority!Settle, Work

\* The same for a single attempt.
LEMMA SettlesOne ==
  ASSUME TypeOK, NEW a \in Attempts, NEW v \in TerminalAttempt, att[a] \in LiveAttempt,
         att' = [att EXCEPT ![a] = v], ExecMayEnd
  PROVE  Authority!Settle
PROOF
  <1>1. att' = [b \in Attempts |-> IF b \in {a} THEN v ELSE att[b]]
    BY DEF TypeOK
  <1> QED BY <1>1, Settles

\* An execution that a failed step takes with it ends.
LEMMA StepFailureEnds ==
  ASSUME NEW s, exec' = ExecAfterStepFailure(s) PROVE ExecMayEnd
  BY DEF ExecAfterStepFailure, ExecMayEnd, TerminalExecution

\* A claim that takes an attempt is a grant.
LEMMA ClaimGrants ==
  ASSUME IInv, NEW s \in Steps, Grantable(s), NEW v \in {"FAILED", "WAITING", "CREATED"},
         att' = [att EXCEPT ![NextAttempt(s)] = v], ExecMayEnd,
         v # "FAILED" => exec' = exec
  PROVE  \E i \in Authority!Items : Authority!Grant(i)
PROOF
  <1>1. PICK n \in Attempts : n = NextAttempt(s) /\ n[1] = s /\ n[2] = tries[s] + 1
    BY FreshAttempt
  <1>2. exec = "RUNNING"
    BY DEF Grantable, Claimable, Due
  <1>3. Authority!Idle(n[1])
    BY <1>1, WorkMeans DEF IInv, Grantable, HasActiveAttempt, AttemptsOf, Authority!Idle,
       Authority!Items, Attempts, Work
  <1>4. ASSUME NEW j \in Attempts, j[1] = n[1] PROVE Work[j] = "none" <=> j[2] >= n[2]
    <2>1. j[2] \in Nat /\ tries[s] \in Nat
      BY BoundAssumption DEF IInv, TypeOK, Attempts
    <2>2. att[j] = "NONE" <=> j[2] > tries[s]
      BY <1>1, <1>4 DEF IInv, AttemptsAreNumbered
    <2> QED BY <1>1, <2>1, <2>2, WorkMeans DEF IInv
  <1>5. WorkOf(v) \in {"active", "waiting", "FAILED"} /\ (WorkOf(v) # "FAILED" => v # "FAILED")
    BY WorkOfStatus DEF ActiveAttempt, TerminalAttempt
  <1>6. Work' = [Work EXCEPT ![n] = WorkOf(v)]
    BY <1>1 DEF Work, IInv, TypeOK
  <1>7. Authority!MayEnd
    BY DEF ExecMayEnd, Authority!MayEnd, Authority!Ended, TerminalExecution
  <1>8. Authority!Grant(n)
    BY <1>2, <1>3, <1>4, <1>5, <1>6, <1>7 DEF Authority!Grant, Authority!Items, Attempts, Work
  <1> QED BY <1>8 DEF Authority!Items, Attempts

\* Reconciliation, scheduling and cancellation.
LEMMA SchedulingImplements ==
  ASSUME IInv, Reconcile \/ Schedule \/ Cancel
  PROVE  Authority!Next
PROOF
  <1> USE DEF stepVars, outboxVars, inboxVars, processVars, cancelVars, planVars
  <1>1. CASE Promote
    BY <1>1 DEF Promote, Authority!Next, Authority!Start
  <1>2. ASSUME NEW r \in Reconcilers, PassStep(r) PROVE Authority!Next
    <2>1. att' = att /\ ExecMayEnd
      BY <1>2 DEF PassStep, BeginPass, Advance, ReadPlan, ReadSteps, FailExecution,
         CompleteExecution, ReconcileCancel, TerminateExecution, ExecMayEnd, TerminalExecution
    <2> QED BY <2>1, Invisible DEF Authority!Next
  <1>3. ASSUME NEW s \in Steps, AuthorityExpires(s) \/ ClaimSkips(s) PROVE Authority!Next
    <2>1. att' = att /\ ExecMayEnd
      BY <1>3 DEF AuthorityExpires, ClaimSkips, Due, ExecMayEnd, TerminalExecution
    <2> QED BY <2>1, Invisible DEF Authority!Next
  <1>4. ASSUME NEW s \in Steps, ClaimStep(s) PROVE Authority!Next
    <2>1. CASE ClaimRefused(s)
      <3>1. Grantable(s) /\ att' = [att EXCEPT ![NextAttempt(s)] = "FAILED"]
        BY <2>1 DEF ClaimRefused, TakeAttempt
      <3>2. ExecMayEnd
        BY <2>1, StepFailureEnds DEF ClaimRefused, ExecMayEnd
      <3> QED BY <3>1, <3>2, ClaimGrants DEF Authority!Next
    <2>2. CASE ClaimNeedsApproval(s)
      BY <2>2, ClaimGrants DEF ClaimNeedsApproval, TakeAttempt, ExecMayEnd, Authority!Next
    <2>3. CASE Claim(s)
      BY <2>3, ClaimGrants DEF Claim, TakeAttempt, ExecMayEnd, Authority!Next
    <2> QED BY <1>4, <2>1, <2>2, <2>3 DEF ClaimStep
  <1>5. CASE RequestCancel
    BY <1>5, Invisible DEF RequestCancel, ExecMayEnd, Authority!Next
  <1>6. CASE CancelCommit
    <2>1. CASE exec \in TerminalExecution
      BY <1>6, <2>1, Invisible DEF CancelCommit, ExecMayEnd, Authority!Next
    <2>2. CASE exec \notin TerminalExecution
      <3>1. /\ att' = [a \in Attempts |-> IF a \in locked THEN "CANCELLED" ELSE att[a]]
            /\ ExecMayEnd
        BY <1>6, <2>2 DEF CancelCommit, ExecMayEnd, TerminalExecution
      <3>2. TypeOK /\ locked \in SUBSET Attempts /\ \A a \in locked : att[a] \in LiveAttempt
        BY DEF IInv, TypeOK, LockedAreLive
      <3>3. PICK done \in SUBSET Attempts : done = locked
        BY <3>2
      <3> QED BY <3>1, <3>2, <3>3, Settles DEF TerminalAttempt, Authority!Next
    <2> QED BY <2>1, <2>2
  <1> QED BY <1>1, <1>2, <1>3, <1>4, <1>5, <1>6 DEF Reconcile, Schedule, Cancel

\* Dispatching is invisible, except that a permanent rejection settles the
\* attempt it was for.
LEMMA DispatchImplements ==
  ASSUME IInv, Dispatch PROVE Authority!Next
PROOF
  <1> USE DEF stepVars, outboxVars, inboxVars, processVars, cancelVars, planVars
  <1>1. ASSUME att' = att, exec' = exec PROVE Authority!Next
    BY <1>1, Invisible DEF ExecMayEnd, Authority!Next
  <1>2. ASSUME NEW d \in Dispatchers, MarkDispatched(d) PROVE Authority!Next
    <2>1. PICK a \in Attempts : a = disp[d].inv
      BY <1>2, BusyClaim DEF MarkDispatched, IInv
    <2>2. /\ exec' = exec
          /\ att' = att \/ att' = [att EXCEPT ![a] = IF @ = "CREATED" THEN "DISPATCHED" ELSE @]
      BY <1>2, <2>1 DEF MarkDispatched
    <2>3. \A b \in Attempts : att'[b] = att[b] \/ (att[b] = "CREATED" /\ att'[b] = "DISPATCHED")
      BY <2>1, <2>2 DEF IInv, TypeOK
    <2>4. \A b \in Attempts : WorkOf(att'[b]) = WorkOf(att[b])
      BY <2>3, WorkOfStatus DEF ActiveAttempt
    <2> QED BY <2>2, <2>4, Invisible DEF ExecMayEnd, Authority!Next
  <1>3. ASSUME NEW d \in Dispatchers, FailNonRetryable(d) PROVE Authority!Next
    <2>1. PICK a \in Attempts : a = disp[d].inv
      BY <1>3, BusyClaim DEF FailNonRetryable, IInv
    <2>2. CASE HoldsLease(d) /\ att[a] \notin TerminalAttempt
      <3>1. att' = [att EXCEPT ![a] = "FAILED"] /\ SettleRejectedStep(a)
        BY <1>3, <2>1, <2>2 DEF FailNonRetryable
      <3>2. att[a] \in LiveAttempt
        BY <2>1, <2>2 DEF IInv, TypeOK, AttemptStatus, RowsAgree, HoldsLease, TerminalAttempt,
           LiveAttempt, ActiveAttempt
      <3>3. ExecMayEnd
        BY <3>1, StepFailureEnds DEF SettleRejectedStep, ExecMayEnd
      <3> QED BY <3>1, <3>2, <3>3, SettlesOne DEF IInv, TerminalAttempt, Authority!Next
    <2>3. CASE ~(HoldsLease(d) /\ att[a] \notin TerminalAttempt)
      BY <1>1, <1>3, <2>1, <2>3 DEF FailNonRetryable
    <2> QED BY <2>2, <2>3
  <1>4. ASSUME NEW d \in Dispatchers,
               (\E a \in Attempts : Lease(d, a)) \/ Invoke(d) \/ ReturnToPending(d) \/ CrashDispatcher(d)
        PROVE  Authority!Next
    BY <1>1, <1>4 DEF Lease, Invoke, ReturnToPending, CrashDispatcher
  <1>5. ASSUME NEW a \in Attempts, NotifyCancel(a) PROVE Authority!Next
    BY <1>1, <1>5 DEF NotifyCancel
  <1> QED BY <1>2, <1>3, <1>4, <1>5 DEF Dispatch

\* A result settles an attempt that is still live, and is invisible for one
\* that already has that outcome.
LEMMA ReportImplements ==
  ASSUME IInv, Report PROVE Authority!Next
PROOF
  <1> USE DEF stepVars, outboxVars, inboxVars, processVars, cancelVars, planVars
  <1>1. ASSUME NEW a \in Attempts, NEW p \in Payload, Apply(a, p) PROVE Authority!Next
    <2>1. CASE Reject(a, p)
      BY <2>1, Invisible DEF Reject, ExecMayEnd, Authority!Next
    <2>2. CASE Accept(a, p)
      <3>1. PICK e \in EffectiveStatuses(a, p) :
              /\ att' = [att EXCEPT ![a] = IF @ \in TerminalAttempt THEN @ ELSE e]
              /\ exec' = ExecOutcome(a, StepOutcome(a, e))
        BY <2>2 DEF Accept
      <3>2. ExecMayEnd
        <4>1. CASE exec' = ExecAfterStepFailure(a[1])
          BY <4>1, StepFailureEnds
        <4>2. CASE exec' # ExecAfterStepFailure(a[1])
          BY <3>1, <4>2 DEF ExecOutcome, ExecMayEnd, TerminalExecution
        <4> QED BY <4>1, <4>2
      <3>3. CASE att[a] \in TerminalAttempt
        <4>1. att' = att
          BY <3>1, <3>3 DEF IInv, TypeOK
        <4> QED BY <3>2, <4>1, Invisible DEF Authority!Next
      <3>4. CASE att[a] \notin TerminalAttempt
        <4>1. att' = [att EXCEPT ![a] = e]
          BY <3>1, <3>4 DEF IInv, TypeOK
        <4>2. att[a] \in LiveAttempt
          BY <1>1, <3>4 DEF Apply, IInv, TypeOK, AttemptStatus, TerminalAttempt, LiveAttempt, ActiveAttempt
        <4> QED BY <3>2, <4>1, <4>2, EffectiveIsTerminal, SettlesOne DEF IInv, Authority!Next
      <3> QED BY <3>3, <3>4
    <2> QED BY <1>1, <2>1, <2>2 DEF Apply
  <1>2. ASSUME NEW a \in Attempts, WorkerResult(a) PROVE Authority!Next
    BY <1>1, <1>2 DEF WorkerResult, Payload
  <1>3. ASSUME NEW a \in Attempts, DeadlineResult(a) PROVE Authority!Next
    BY <1>1, <1>3 DEF DeadlineResult, Payload, Outcome
  <1>4. ASSUME NEW a \in Attempts, SupervisionResult(a) PROVE Authority!Next
    BY <1>1, <1>4 DEF SupervisionResult, Payload, Outcome
  <1>5. ASSUME NEW a \in Attempts, AgentEvent(a) PROVE Authority!Next
    <2>1. /\ exec' = exec
          /\ \A b \in Attempts : att'[b] = att[b] \/ (att[b] = "DISPATCHED" /\ att'[b] = "RUNNING")
      BY <1>5 DEF AgentEvent, ShowsActivity, IInv, TypeOK
    <2>2. \A b \in Attempts : WorkOf(att'[b]) = WorkOf(att[b])
      BY <2>1, WorkOfStatus DEF ActiveAttempt
    <2> QED BY <2>1, <2>2, Invisible DEF ExecMayEnd, Authority!Next
  <1> QED BY <1>2, <1>3, <1>4, <1>5 DEF Report

\* An approval resumes waiting work, a denial or expiry settles it; plan
\* transactions are invisible.
LEMMA DecisionImplements ==
  ASSUME IInv, Decision PROVE Authority!Next
PROOF
  <1> USE DEF stepVars, outboxVars, inboxVars, processVars, cancelVars, planVars
  <1>1. ASSUME att' = att, exec' = exec PROVE Authority!Next
    BY <1>1, Invisible DEF ExecMayEnd, Authority!Next
  <1>2. ASSUME NEW a \in Attempts, FailWaiting(a) PROVE Authority!Next
    <2>1. CASE att[a] = "WAITING"
      <3>1. att' = [att EXCEPT ![a] = "FAILED"] /\ ExecMayEnd
        BY <1>2, <2>1 DEF FailWaiting, ExecMayEnd, TerminalExecution
      <3> QED BY <2>1, <3>1, SettlesOne DEF IInv, TerminalAttempt, LiveAttempt, Authority!Next
    <2>2. CASE att[a] # "WAITING"
      BY <1>1, <1>2, <2>2 DEF FailWaiting
    <2> QED BY <2>1, <2>2
  <1>3. ASSUME NEW a \in Attempts, Approve(a) PROVE Authority!Next
    <2>1. CASE att[a] = "WAITING"
      <3>1. ~HasActiveAttempt(a[1]) /\ att' = [att EXCEPT ![a] = "CREATED"] /\ exec' = exec
        BY <1>3, <2>1 DEF Approve, Resume
      <3>2. Authority!Idle(a[1])
        BY <3>1, WorkMeans DEF IInv, HasActiveAttempt, AttemptsOf, Authority!Idle,
           Authority!Items, Attempts, Work
      <3>3. Work' = [Work EXCEPT ![a] = "active"]
        BY <3>1, WorkOfStatus DEF Work, IInv, TypeOK, ActiveAttempt
      <3>4. Work[a] = "waiting"
        BY <2>1, WorkMeans DEF IInv
      <3>5. Authority!Resume(a)
        BY <3>1, <3>2, <3>3, <3>4 DEF Authority!Resume, Work
      <3> QED BY <3>5 DEF Authority!Next, Authority!Items, Attempts
    <2>2. CASE att[a] # "WAITING"
      BY <1>1, <1>3, <2>2 DEF Approve
    <2> QED BY <2>1, <2>2
  <1>4. ASSUME NEW a \in Attempts, ApproveRefused(a) \/ Deny(a) \/ ExpireApproval(a)
        PROVE  Authority!Next
    BY <1>2, <1>4 DEF ApproveRefused, Deny, ExpireApproval
  <1>5. ASSUME NEW p \in Proposals, Propose(p) \/ Activate(p) \/ ApprovePatch(p) \/ RefusePatch(p)
        PROVE  Authority!Next
    BY <1>1, <1>5 DEF Propose, Activate, ApprovePatch, RefusePatch
  <1> QED BY <1>3, <1>4, <1>5 DEF Decision

\* Initially no work exists.
LEMMA InitImplements == Init => Authority!Init
  BY WorkOfStatus DEF Init, Authority!Init, Authority!Items, Attempts

\* The orchestrator implements the abstract specification of work authority:
\* every transaction is a grant, a resumption, a settlement or invisible.
THEOREM Refinement == Spec => ImplementsWorkAuthority
PROOF
  <1>1. IInv /\ [Next]_vars => [Authority!Next]_<<exec, Work>>
    <2> SUFFICES ASSUME IInv, [Next]_vars PROVE [Authority!Next]_<<exec, Work>>
      OBVIOUS
    <2>1. CASE Next
      BY <2>1, SchedulingImplements, DispatchImplements, ReportImplements, DecisionImplements DEF Next
    <2>2. CASE UNCHANGED vars
      BY <2>2 DEF vars, Work
    <2> QED BY <2>1, <2>2
  <1> QED
    BY <1>1, InitImplements, Invariance, PTL DEF Spec, ImplementsWorkAuthority, Authority!Spec, Work

\* A step of WorkAuthority rewrites neither settled work nor an ended run.
LEMMA AuthorityIsFinal ==
  ASSUME Authority!Next, NEW a \in Attempts
  PROVE  /\ exec \in TerminalExecution => exec' = exec
         /\ Work[a] \in TerminalAttempt => Work'[a] = Work[a]
PROOF
  <1> USE DEF TerminalExecution, TerminalAttempt
  <1>0. Authority!Items = Attempts /\ \A i \in Attempts : i[2] \in Nat
    BY BoundAssumption DEF Authority!Items, Attempts
  <1>1. CASE Authority!Start
    BY <1>1 DEF Authority!Start, Work
  <1>2. ASSUME NEW i \in Attempts, Authority!Grant(i)
        PROVE  /\ exec \in TerminalExecution => exec' = exec
               /\ Work[a] \in TerminalAttempt => Work'[a] = Work[a]
    <2>1. exec = "RUNNING" /\ Work[i] = "none"
      BY <1>0, <1>2 DEF Authority!Grant, Work
    <2>2. PICK w : Work' = [Work EXCEPT ![i] = w]
      BY <1>2 DEF Authority!Grant, Work
    <2> QED BY <2>1, <2>2 DEF Work
  <1>3. ASSUME NEW i \in Attempts, Authority!Resume(i)
        PROVE  /\ exec \in TerminalExecution => exec' = exec
               /\ Work[a] \in TerminalAttempt => Work'[a] = Work[a]
    <2>1. exec' = exec /\ Work[i] = "waiting" /\ Work' = [Work EXCEPT ![i] = "active"]
      BY <1>3 DEF Authority!Resume, Work
    <2> QED BY <2>1 DEF Work
  <1>4. CASE Authority!Settle
    <2>1. Authority!Settled = TerminalAttempt
      BY DEF Authority!Settled
    <2>2. PICK done \in SUBSET {i \in Attempts : Work[i] \in {"waiting", "active"}} :
            \E outcome \in TerminalAttempt :
              Work' = [i \in Attempts |-> IF i \in done THEN outcome ELSE Work[i]]
      <3> HIDE DEF TerminalAttempt
      <3> QED BY <1>0, <1>4, <2>1 DEF Authority!Settle, Work
    <2>3. PICK v \in TerminalAttempt :
            Work' = [i \in Attempts |-> IF i \in done THEN v ELSE Work[i]]
      BY <2>2
    <2>4. exec \in TerminalExecution => exec' = exec
      BY <1>4 DEF Authority!Settle, Authority!MayEnd, Authority!Ended
    <2> QED BY <2>3, <2>4
  <1> QED BY <1>0, <1>1, <1>2, <1>3, <1>4 DEF Authority!Next

\* No transaction rewrites a settled attempt or a terminal execution.
THEOREM OutcomesAreFinalHolds == Spec => OutcomesAreFinal
PROOF
  <1> DEFINE Final == /\ exec \in TerminalExecution => exec' = exec
                      /\ \A a \in Attempts : att[a] \in TerminalAttempt => att'[a] = att[a]
  <1>1. IInv /\ IInv' /\ [Next]_vars => [Final]_vars
    <2> SUFFICES ASSUME IInv, IInv', Next PROVE Final
      OBVIOUS
    <2>1. Authority!Next
      BY SchedulingImplements, DispatchImplements, ReportImplements, DecisionImplements DEF Next
    <2>2. exec \in TerminalExecution => exec' = exec
      <3>1. CASE Attempts = {}
        BY <2>1, <3>1 DEF Authority!Next, Authority!Start, Authority!Settle, Authority!MayEnd,
           Authority!Ended, Authority!Items, Attempts, TerminalExecution
      <3> QED BY <2>1, <3>1, AuthorityIsFinal
    <2>3. ASSUME NEW a \in Attempts, att[a] \in TerminalAttempt PROVE att'[a] = att[a]
      <3>1. Work[a] = att[a] /\ Work'[a] = WorkOf(att'[a])
        BY <2>3, WorkOfStatus DEF Work
      <3>2. WorkOf(att'[a]) = att[a]
        BY <2>1, <2>3, <3>1, AuthorityIsFinal
      <3>3. att'[a] \in AttemptStatus
        BY DEF IInv, TypeOK
      <3> QED
        BY <2>3, <3>2, <3>3, WorkOfStatus DEF AttemptStatus, ActiveAttempt, TerminalAttempt
    <2> QED BY <2>2, <2>3
  <1> QED BY <1>1, Invariance, PTL DEF Spec, OutcomesAreFinal

-----------------------------------------------------------------------------
(***************************************************************************)
(* Plan revisions: activations are serialized by the base-revision check,  *)
(* gated patches need their grant, and a step that owns an attempt keeps   *)
(* its spec.  The last needs the numbering in the invariant, because       *)
(* activation looks for attempt rows and the claim for an attempt count.   *)
(***************************************************************************)

\* Transactions that touch neither the plan nor the steps' attempt counts.
LEMMA PlanFrame ==
  ASSUME Next,
         ~\E s \in Steps : ClaimSkips(s) \/ ClaimStep(s),
         ~\E p \in Proposals : Propose(p) \/ Activate(p) \/ ApprovePatch(p) \/ RefusePatch(p),
         ~Report
  PROVE  UNCHANGED <<tries, frozen, planVars>>
PROOF
  <1> USE DEF stepVars, planVars
  <1>1. CASE Reconcile
    BY <1>1 DEF Reconcile, Promote, PassStep, BeginPass, Advance, ReadPlan, ReadSteps,
       FailExecution, CompleteExecution, ReconcileCancel
  <1>2. CASE Schedule
    BY <1>2 DEF Schedule, AuthorityExpires
  <1>3. CASE Cancel
    BY <1>3 DEF Cancel, RequestCancel, CancelCommit
  <1>4. CASE Dispatch
    BY <1>4 DEF Dispatch, Lease, Invoke, MarkDispatched, ReturnToPending,
       FailNonRetryable, CrashDispatcher, NotifyCancel
  <1>5. CASE Decision
    BY <1>5 DEF Decision, Approve, ApproveRefused, Deny, ExpireApproval, Decided
  <1> QED BY <1>1, <1>2, <1>3, <1>4, <1>5 DEF Next

\* A result may file a planner's proposal and changes no other plan state.
LEMMA ReportPlan ==
  ASSUME Report
  PROVE  /\ UNCHANGED <<tries, frozen, rev, spec, grant>>
         /\ \/ UNCHANGED <<proposal, base>>
            \/ \E q \in Proposals :
                 /\ proposal[q] = "NONE"
                 /\ proposal' = [proposal EXCEPT ![q] = "PENDING"]
                 /\ base' = [base EXCEPT ![q] = rev]
PROOF
  <1> USE DEF stepVars, planVars
  <1>1. ASSUME NEW a, NEW p, Apply(a, p)
        PROVE  /\ UNCHANGED <<tries, frozen, rev, spec, grant>>
               /\ \/ UNCHANGED <<proposal, base>>
                  \/ \E q \in Proposals :
                       /\ proposal[q] = "NONE"
                       /\ proposal' = [proposal EXCEPT ![q] = "PENDING"]
                       /\ base' = [base EXCEPT ![q] = rev]
    BY <1>1 DEF Apply, Reject, Accept, ProposePatch
  <1> QED BY <1>1 DEF Report, WorkerResult, DeadlineResult, SupervisionResult, AgentEvent

\* An activation changes the plan only from the base its proposal names,
\* with a valid candidate and, where the policy gates it, a grant.
LEMMA ActivationShape ==
  ASSUME TypeOK, NEW p \in Proposals, Activate(p) \/ ApprovePatch(p)
  PROVE  /\ UNCHANGED <<tries, frozen, base>>
         /\ \/ /\ ActivateRevision(p)
               /\ base[p] = rev
               /\ ValidCandidate(p)
               /\ PatchPolicy[p] = "REQUIRE_APPROVAL" => grant'[p] = "APPROVED"
            \/ /\ UNCHANGED <<rev, spec>>
               /\ \/ proposal' = proposal
                  \/ /\ proposal[p] = "PENDING"
                     /\ \E st \in {"STALE", "REJECTED"} : proposal' = [proposal EXCEPT ![p] = st]
         /\ \A q \in Proposals : grant[q] = "APPROVED" => grant'[q] = "APPROVED"
PROOF
  <1>1. CASE Activate(p)
    BY <1>1 DEF TypeOK, Activate, Stale, Refused, AwaitsGrant, Decide
  <1>2. CASE ApprovePatch(p)
    BY <1>2 DEF TypeOK, ApprovePatch, Stale, Refused, Decide
  <1> QED BY <1>1, <1>2

(***************************************************************************)
(* Gated patches                                                           *)
(***************************************************************************)

\* A patch the policy gates is active only with a grant.
THEOREM GrantBeforeActivationHolds == Spec => []GrantBeforeActivation
PROOF
  <1> USE DEF GrantBeforeActivation, Accepted
  <1>1. Init => GrantBeforeActivation
    BY DEF Init
  <1>2. TypeOK /\ GrantBeforeActivation /\ [Next]_vars => GrantBeforeActivation'
    <2> SUFFICES ASSUME TypeOK, GrantBeforeActivation, [Next]_vars
                 PROVE  GrantBeforeActivation'
      OBVIOUS
    <2>1. CASE UNCHANGED <<proposal, grant>>
      BY <2>1
    <2>2. CASE Report
      BY <2>2, ReportPlan DEF TypeOK
    <2>3. ASSUME NEW p \in Proposals, Propose(p) PROVE GrantBeforeActivation'
      BY <2>3 DEF Propose, TypeOK
    <2>4. ASSUME NEW p \in Proposals, Activate(p) \/ ApprovePatch(p)
          PROVE  GrantBeforeActivation'
      BY <2>4, ActivationShape DEF ActivateRevision, TypeOK
    <2>5. ASSUME NEW p \in Proposals, RefusePatch(p) PROVE GrantBeforeActivation'
      BY <2>5 DEF RefusePatch, TypeOK
    <2>6. CASE \E s \in Steps : ClaimSkips(s) \/ ClaimStep(s)
      BY <2>1, <2>6 DEF ClaimSkips, ClaimStep, ClaimRefused, ClaimNeedsApproval, Claim, planVars
    <2>7. CASE UNCHANGED vars
      BY <2>1, <2>7 DEF vars, planVars
    <2> QED BY <2>1, <2>2, <2>3, <2>4, <2>5, <2>6, <2>7, PlanFrame DEF planVars
  <1> QED BY <1>1, <1>2, TypeCorrect, PTL DEF Spec

(***************************************************************************)
(* Serial revisions                                                        *)
(***************************************************************************)

\* Every revision after the first was activated by exactly one proposal that
\* named its predecessor, however activations and approvals race.
THEOREM RevisionsAreSerialHolds == Spec => []RevisionsAreSerial
PROOF
  <1>1. Init => RevisionsAreSerial
    BY DEF Init, RevisionsAreSerial, Accepted
  <1>2. TypeOK /\ RevisionsAreSerial /\ [Next]_vars => RevisionsAreSerial'
    <2> SUFFICES ASSUME TypeOK, RevisionsAreSerial, [Next]_vars
                 PROVE  RevisionsAreSerial'
      OBVIOUS
    <2>1. ASSUME rev' = rev,
                 \A p \in Proposals : /\ proposal[p] = "ACCEPTED" <=> proposal'[p] = "ACCEPTED"
                                      /\ proposal[p] = "ACCEPTED" => base'[p] = base[p]
          PROVE  RevisionsAreSerial'
      BY <2>1 DEF RevisionsAreSerial, Accepted
    <2>2. CASE Report
      BY <2>1, <2>2, ReportPlan DEF TypeOK
    <2>3. ASSUME NEW p \in Proposals, Propose(p) PROVE RevisionsAreSerial'
      BY <2>1, <2>3 DEF Propose, TypeOK
    <2>4. ASSUME NEW p \in Proposals, Activate(p) \/ ApprovePatch(p)
          PROVE  RevisionsAreSerial'
      <3>1. CASE ActivateRevision(p) /\ base[p] = rev /\ base' = base
        <4>1. rev \in Nat \ {0} /\ rev' = rev + 1
          BY <3>1 DEF ActivateRevision, TypeOK
        <4>2. Accepted' = Accepted \cup {p}
          BY <3>1 DEF ActivateRevision, Accepted, TypeOK
        <4>3. {base[q] : q \in Accepted \cup {p}} = {base[q] : q \in Accepted} \cup {rev}
          BY <3>1
        <4>4. (1 .. (rev - 1)) \cup {rev} = 1 .. rev
          BY <4>1
        <4>5. {base'[q] : q \in Accepted'} = 1 .. (rev' - 1)
          BY <3>1, <4>1, <4>2, <4>3, <4>4 DEF RevisionsAreSerial
        <4>6. \A q \in Accepted : base[q] \in 1 .. (rev - 1)
          BY DEF RevisionsAreSerial
        <4>7. \A q \in Accepted : base[q] # base[p]
          BY <3>1, <4>1, <4>6
        <4>8. \A q, r \in Accepted' : base'[q] = base'[r] => q = r
          BY <3>1, <4>2, <4>7 DEF RevisionsAreSerial
        <4> QED BY <4>5, <4>8 DEF RevisionsAreSerial
      <3>2. CASE ~(ActivateRevision(p) /\ base[p] = rev /\ base' = base)
        BY <2>1, <2>4, <3>2, ActivationShape DEF TypeOK
      <3> QED BY <3>1, <3>2
    <2>5. ASSUME NEW p \in Proposals, RefusePatch(p) PROVE RevisionsAreSerial'
      BY <2>1, <2>5 DEF RefusePatch, TypeOK
    <2>6. CASE \E s \in Steps : ClaimSkips(s) \/ ClaimStep(s)
      BY <2>1, <2>6 DEF ClaimSkips, ClaimStep, ClaimRefused, ClaimNeedsApproval, Claim, planVars
    <2>7. CASE UNCHANGED vars
      BY <2>1, <2>7 DEF vars, planVars
    <2> QED BY <2>1, <2>2, <2>3, <2>4, <2>5, <2>6, <2>7, PlanFrame DEF planVars
  <1> QED BY <1>1, <1>2, TypeCorrect, PTL DEF Spec

(***************************************************************************)
(* Frozen specs                                                            *)
(***************************************************************************)

\* No activation rewrites the spec of a step that owns an attempt.
THEOREM AttemptedSpecIsKeptHolds == Spec => []AttemptedSpecIsKept
PROOF
  <1>1. Init => AttemptedSpecIsKept
    BY DEF Init, AttemptedSpecIsKept
  <1>2. IInv /\ AttemptedSpecIsKept /\ [Next]_vars => AttemptedSpecIsKept'
    <2> SUFFICES ASSUME IInv, AttemptedSpecIsKept, [Next]_vars
                 PROVE  AttemptedSpecIsKept'
      OBVIOUS
    <2>0. TypeOK
      BY DEF IInv
    <2>1. CASE UNCHANGED <<tries, frozen, spec>>
      BY <2>1 DEF AttemptedSpecIsKept, Plan
    <2>2. CASE Report
      BY <2>1, <2>2, ReportPlan
    <2>3. ASSUME NEW p \in Proposals, Propose(p) \/ RefusePatch(p) PROVE AttemptedSpecIsKept'
      BY <2>1, <2>3 DEF Propose, RefusePatch, stepVars
    <2>4. ASSUME NEW p \in Proposals, Activate(p) \/ ApprovePatch(p)
          PROVE  AttemptedSpecIsKept'
      <3>1. CASE ActivateRevision(p) /\ ValidCandidate(p) /\ UNCHANGED <<tries, frozen>>
        <4>1. ASSUME NEW s \in Steps, tries[s] > 0 PROVE s \in FrozenSteps
          <5>1. <<s, 1>> \in Attempts /\ tries[s] \in Nat
            BY <2>0, BoundAssumption DEF TypeOK, Attempts
          <5>2. att[<<s, 1>>] # "NONE"
            BY <4>1, <5>1 DEF IInv, AttemptsAreNumbered
          <5> QED BY <5>1, <5>2 DEF FrozenSteps, AttemptsOf
        <4>2. ASSUME NEW s \in Steps, tries[s] > 0
              PROVE  s \in Plan /\ spec'[s] = spec[s] /\ frozen[s] = spec[s]
          <5>1. s \in Plan /\ frozen[s] = spec[s]
            BY <4>2 DEF AttemptedSpecIsKept
          <5>2. s \notin PatchAdds[p] /\ s \notin PatchReplaces[p]
            BY <3>1, <4>1, <4>2, <5>1 DEF ValidCandidate
          <5> QED BY <3>1, <5>1, <5>2 DEF ActivateRevision
        <4> QED BY <3>1, <4>2 DEF AttemptedSpecIsKept, Plan
      <3>2. CASE UNCHANGED <<tries, frozen, spec>>
        BY <2>1, <3>2
      <3> QED BY <2>0, <2>4, <3>1, <3>2, ActivationShape
    <2>6. ASSUME NEW s \in Steps, ClaimSkips(s) \/ ClaimStep(s) PROVE AttemptedSpecIsKept'
      <3>1. /\ Claimable(s) /\ spec' = spec
            /\ tries' = tries \/ tries' = [tries EXCEPT ![s] = @ + 1]
            /\ frozen' = [frozen EXCEPT ![s] = spec[s]]
        BY <2>6 DEF ClaimSkips, ClaimStep, ClaimRefused, ClaimNeedsApproval, Claim, TakeAttempt,
           Grantable, planVars
      <3> QED BY <2>0, <3>1 DEF AttemptedSpecIsKept, Plan, Claimable, TypeOK
    <2>7. CASE UNCHANGED vars
      BY <2>1, <2>7 DEF vars, stepVars, planVars
    <2> QED BY <2>1, <2>2, <2>3, <2>4, <2>6, <2>7, PlanFrame DEF planVars
  <1> QED BY <1>1, <1>2, Invariance, PTL DEF Spec

-----------------------------------------------------------------------------
(***************************************************************************)
(* Steps, dependencies and the outcome of an execution, under a transport  *)
(* whose permanent rejection is final (~RejectedWorkMayRun): what a step   *)
(* shows is its latest attempt, retries stay within their bound, the       *)
(* dependencies of attempted work stay resolved, and an execution          *)
(* completes or fails for a reason its steps show.                         *)
(***************************************************************************)

(***************************************************************************)
(* The inductive invariant                                                 *)
(***************************************************************************)

\* What a worker accepted was sent from a row, and nobody saw it rejected.
DeliveriesAreSent ==
  /\ \A d \in Dispatchers : disp[d].pc # "idle" => outbox[disp[d].inv] # "NONE"
  /\ \A d \in Dispatchers : disp[d].pc = "accepted" => disp[d].inv \in delivered
  /\ receipts \subseteq delivered
  /\ \A a \in delivered : outbox[a] # "NONE" /\ ~RejectionSeen(a)

\* An attempt that no applied result settled was refused before it was sent,
\* rejected by its executor, or cancelled with its execution.
SettledFor(a) ==
  /\ att[a] \in {"SUCCESS", "TIMED_OUT"} => inbox[a] = "APPLIED"
  /\ att[a] = "FAILED" /\ inbox[a] # "APPLIED" => outbox[a] \in {"NONE", "FAILED"}
  /\ att[a] = "CANCELLED" /\ inbox[a] # "APPLIED" => exec = "CANCELLED"

Unsuccessful == {"FAILED", "TIMED_OUT"}

\* The status a step may show for the status v of its latest attempt.
Shows(s, v) ==
  /\ step[s] \notin {"NONE", "PENDING", "READY"}
  /\ step[s] = "RUNNING" => v \in ActiveAttempt
  /\ step[s] = "WAITING" => v = "WAITING"
  /\ step[s] = "COMPLETED" => v = "SUCCESS"
  /\ step[s] \in {"RETRYING", "FAILED", "SKIPPED"} => v \in Unsuccessful
  /\ step[s] = "CANCELLED" => exec = "CANCELLED" \/ v \in TerminalAttempt

\* A step without an attempt is waiting for one, skipped or cancelled; one
\* with attempts shows the latest, all others are unsuccessful.
StepInv(s) ==
  /\ tries[s] <= MaxAttempts[s]
  /\ step[s] = "RETRYING" => tries[s] < MaxAttempts[s]
  /\ s \notin Plan => step[s] = "NONE"
  /\ tries[s] = 0 => step[s] \in {"NONE", "PENDING", "READY", "SKIPPED", "CANCELLED"}
  /\ tries[s] > 0 => Shows(s, att[Latest(s)])
  /\ \A a \in AttemptsOf(s) : a[2] < tries[s] => att[a] \in Unsuccessful

SInv ==
  /\ IInv
  /\ DeliveriesAreSent
  /\ \A a \in Attempts : SettledFor(a)
  /\ \A s \in Steps : StepInv(s)
  /\ DependenciesCameFirst


\* A step whose outcome no transaction may change any more.
Settled(s) ==
  \/ step[s] \in {"COMPLETED", "FAILED", "SKIPPED"}
  \/ step[s] = "CANCELLED" /\ exec # "CANCELLED"

-----------------------------------------------------------------------------
(***************************************************************************)
(* Facts about single steps                                                *)
(***************************************************************************)

\* An attempt is its step and its number.
LEMMA AttemptIsPair ==
  ASSUME NEW a \in Attempts
  PROVE  a[1] \in Steps /\ a[2] \in Nat /\ a[2] > 0 /\ a = <<a[1], a[2]>> /\ a \in AttemptsOf(a[1])
  BY BoundAssumption DEF Attempts, AttemptsOf

\* The latest attempt of a step that was tried is one of its attempts.
LEMMA LatestExists ==
  ASSUME TypeOK, NEW s \in Steps, tries[s] > 0
  PROVE  Latest(s) \in Attempts /\ Latest(s) \in AttemptsOf(s)
  BY BoundAssumption DEF TypeOK, Latest, Attempts, AttemptsOf

\* A live attempt is the latest of its step, and the step shows it unless
\* the execution was cancelled.
LEMMA LiveIsLatest ==
  ASSUME IInv, \A s \in Steps : StepInv(s), NEW a \in Attempts, att[a] \in LiveAttempt
  PROVE  /\ a = Latest(a[1]) /\ tries[a[1]] = a[2] /\ a[1] \in Plan
         /\ \/ step[a[1]] = "RUNNING" /\ att[a] \in ActiveAttempt
            \/ step[a[1]] = "WAITING" /\ att[a] = "WAITING"
            \/ step[a[1]] = "CANCELLED" /\ exec = "CANCELLED"
         /\ ~Settled(a[1])
PROOF
  <1>1. /\ a[1] \in Steps /\ a[2] \in Nat /\ a[2] > 0 /\ a = <<a[1], a[2]>> /\ a \in AttemptsOf(a[1])
        /\ tries[a[1]] \in Nat /\ step[a[1]] \in StepStatus
    BY AttemptIsPair, BoundAssumption DEF IInv, TypeOK
  <1>2. att[a] \notin Unsuccessful /\ att[a] \notin TerminalAttempt /\ att[a] # "NONE"
    BY DEF LiveAttempt, ActiveAttempt, Unsuccessful, TerminalAttempt
  <1>3. ~(a[2] > tries[a[1]])
    BY <1>2 DEF IInv, AttemptsAreNumbered
  <1>4. ~(a[2] < tries[a[1]])
    BY <1>1, <1>2 DEF StepInv
  <1>5. tries[a[1]] = a[2] /\ a = Latest(a[1])
    BY <1>1, <1>3, <1>4 DEF Latest
  <1>6. Shows(a[1], att[a]) /\ a[1] \in Plan
    BY <1>1, <1>5 DEF StepInv, Shows
  <1> QED
    BY <1>1, <1>2, <1>5, <1>6 DEF Shows, StepStatus, Settled, LiveAttempt, ActiveAttempt, TerminalAttempt, Unsuccessful

\* A transaction that leaves a step, its attempts and their number alone
\* keeps what the step shows.
LEMMA StepFrame ==
  ASSUME TypeOK, NEW s \in Steps, StepInv(s),
         step'[s] = step[s], tries'[s] = tries[s],
         \A a \in AttemptsOf(s) : att'[a] = att[a],
         exec = "CANCELLED" => exec' = "CANCELLED",
         s \in Plan => s \in Plan'
  PROVE  StepInv(s)'
PROOF
  <1>1. tries[s] \in Nat
    BY BoundAssumption DEF TypeOK
  <1>2. CASE tries[s] > 0
    <2>1. Latest(s)' = Latest(s) /\ att'[Latest(s)] = att[Latest(s)]
      BY <1>2, LatestExists DEF Latest
    <2> QED BY <1>1, <1>2, <2>1 DEF StepInv, Shows, AttemptsOf
  <1>3. CASE tries[s] = 0
    BY <1>1, <1>3 DEF StepInv, AttemptsOf
  <1> QED BY <1>1, <1>2, <1>3

\* A transaction that moves a live attempt, and its step with it, keeps every
\* step showing its latest attempt.
LEMMA MoveStep ==
  ASSUME IInv, \A s \in Steps : StepInv(s), NEW a \in Attempts, att[a] \in LiveAttempt,
         \A b \in Attempts : b # a => att'[b] = att[b],
         \A s \in Steps : s # a[1] => step'[s] = step[s],
         UNCHANGED <<tries, spec>>,
         exec = "CANCELLED" => exec' = "CANCELLED",
         Shows(a[1], att[a])',
         step'[a[1]] = "RETRYING" => a[2] < MaxAttempts[a[1]]
  PROVE  \A s \in Steps : StepInv(s)'
PROOF
  <1> TAKE s \in Steps
  <1>1. TypeOK /\ Plan' = Plan
    BY DEF IInv, Plan
  <1>2. CASE s # a[1]
    <2>1. \A b \in AttemptsOf(s) : att'[b] = att[b]
      BY <1>2 DEF AttemptsOf
    <2> QED BY <1>1, <1>2, <2>1, StepFrame
  <1>3. CASE s = a[1]
    <2>1. a = Latest(s) /\ tries[s] = a[2] /\ s \in Plan /\ a[2] > 0 /\ a[2] \in Nat
      BY <1>3, LiveIsLatest, AttemptIsPair
    <2>2. Latest(s)' = a
      BY <2>1 DEF Latest
    <2>3. \A b \in AttemptsOf(s) : b[2] < tries[s] => att'[b] = att[b]
      BY <2>1 DEF AttemptsOf
    <2> QED BY <1>1, <1>3, <2>1, <2>2, <2>3 DEF StepInv, AttemptsOf
  <1> QED BY <1>2, <1>3

\* What every transaction does to every step: the step goes on showing its
\* latest attempt, a settled step keeps its outcome, and work is begun only
\* over resolved dependencies.
StepMove(s) ==
  /\ StepInv(s)'
  /\ Settled(s) => step'[s] = step[s]
  /\ tries'[s] > 0 \/ step'[s] = "SKIPPED" =>
       tries[s] > 0 \/ step[s] = "SKIPPED" \/ DependenciesResolved(s)

\* Resolved dependencies stay resolved.
LEMMA DependenciesStand ==
  ASSUME DependenciesCameFirst, \A s \in Steps : StepMove(s)
  PROVE  DependenciesCameFirst'
PROOF
  <1> SUFFICES ASSUME NEW s \in Steps, tries'[s] > 0 \/ step'[s] = "SKIPPED", NEW d \in DependsOn[s]
               PROVE  /\ step'[d] \in {"COMPLETED", "SKIPPED", "FAILED"}
                      /\ step'[d] = "FAILED" => OnFailure[d] = "continue"
    BY DEF DependenciesCameFirst
  <1>1. d \in Steps
    BY PlanAssumption
  <1>2. /\ step[d] \in {"COMPLETED", "SKIPPED", "FAILED"}
        /\ step[d] = "FAILED" => OnFailure[d] = "continue"
    BY DEF DependenciesCameFirst, DependenciesResolved, StepMove
  <1> QED BY <1>1, <1>2 DEF StepMove, Settled

-----------------------------------------------------------------------------
(***************************************************************************)
(* Deliveries                                                              *)
(***************************************************************************)

\* Transactions that only move rows on, and neither send nor reject, keep
\* deliveries sent.
LEMMA DeliveryFrame ==
  ASSUME TypeOK, DeliveriesAreSent, UNCHANGED <<disp, delivered, receipts>>,
         \A a \in Attempts : /\ outbox[a] # "NONE" => outbox'[a] # "NONE"
                             /\ a \in delivered => outbox'[a] # "FAILED"
  PROVE  DeliveriesAreSent'
PROOF
  <1>1. \A d \in Dispatchers : disp[d].pc # "idle" => disp[d].inv \in Attempts
    BY BusyClaim
  <1>2. \A a \in delivered : a \in Attempts
    BY DEF TypeOK
  <1> QED BY <1>1, <1>2 DEF DeliveriesAreSent, RejectionSeen

\* Nothing is delivered that was rejected, and nothing rejected that was
\* delivered: every transaction keeps the two apart.
LEMMA DeliveryNext ==
  ASSUME ~RejectedWorkMayRun, IInv, DeliveriesAreSent, Next
  PROVE  DeliveriesAreSent'
PROOF
  <1> USE DEF stepVars, outboxVars, inboxVars, processVars, cancelVars, planVars
  <1>0. /\ TypeOK
        /\ \A a \in delivered : a \in Attempts /\ outbox[a] # "NONE" /\ outbox[a] # "FAILED"
    BY DEF IInv, TypeOK, DeliveriesAreSent, RejectionSeen
  <1>F. ASSUME UNCHANGED <<outbox, disp, delivered, receipts>> PROVE DeliveriesAreSent'
    BY <1>0, <1>F, DeliveryFrame
  <1>S. ASSUME UNCHANGED <<disp, delivered, receipts>>, NEW a \in Attempts, NEW w \in OutboxStatus \ {"NONE"},
               outbox' = [outbox EXCEPT ![a] = w], a \in delivered => w # "FAILED"
        PROVE  DeliveriesAreSent'
    <2>1. \A b \in Attempts : /\ outbox[b] # "NONE" => outbox'[b] # "NONE"
                              /\ b \in delivered => outbox'[b] # "FAILED"
      BY <1>0, <1>S DEF TypeOK
    <2> QED BY <1>0, <1>S, <2>1, DeliveryFrame
  <1>1. CASE Reconcile
    BY <1>1, <1>F DEF Reconcile, Promote, PassStep, BeginPass, Advance, ReadPlan, ReadSteps,
       FailExecution, CompleteExecution, ReconcileCancel
  <1>2. ASSUME NEW s \in Steps, AuthorityExpires(s) \/ ClaimSkips(s) \/ ClaimRefused(s) \/ ClaimNeedsApproval(s)
        PROVE  DeliveriesAreSent'
    BY <1>2, <1>F DEF AuthorityExpires, ClaimSkips, ClaimRefused, ClaimNeedsApproval
  <1>3. ASSUME NEW s \in Steps, Claim(s) PROVE DeliveriesAreSent'
    <2>1. NextAttempt(s) \in Attempts
      BY <1>3, FreshAttempt DEF Claim
    <2> QED BY <1>3, <1>S, <2>1 DEF Claim, OutboxStatus
  <1>4. CASE Cancel
    <2>1. CASE RequestCancel
      BY <2>1, <1>F DEF RequestCancel
    <2>2. CASE CancelCommit
      <3>1. \A b \in Attempts : /\ outbox[b] # "NONE" => outbox'[b] # "NONE"
                                /\ b \in delivered => outbox'[b] # "FAILED"
        BY <1>0, <2>2 DEF CancelCommit
      <3> QED BY <1>0, <2>2, <3>1, DeliveryFrame DEF CancelCommit
    <2> QED BY <1>4, <2>1, <2>2 DEF Cancel
  <1>5. ASSUME NEW d \in Dispatchers, NEW a \in Attempts, Lease(d, a) PROVE DeliveriesAreSent'
    <2>1. /\ outbox' = [outbox EXCEPT ![a] = "LEASED"]
          /\ disp' = [disp EXCEPT ![d] = [pc |-> "leased", inv |-> a, token |-> leases[a] + 1]]
          /\ UNCHANGED <<delivered, receipts>>
      BY <1>5 DEF Lease
    <2>2. \A e \in Dispatchers : e # d => disp'[e] = disp[e]
      BY <1>0, <2>1 DEF TypeOK
    <2>3. disp'[d].pc = "leased" /\ disp'[d].inv = a
      BY <1>0, <2>1 DEF TypeOK
    <2>4. \A b \in Attempts : outbox'[b] = IF b = a THEN "LEASED" ELSE outbox[b]
      BY <1>0, <2>1 DEF TypeOK
    <2>5. \A e \in Dispatchers : disp[e].pc # "idle" => disp[e].inv \in Attempts
      BY <1>0, BusyClaim
    <2> QED BY <1>0, <2>1, <2>2, <2>3, <2>4, <2>5 DEF DeliveriesAreSent, RejectionSeen
  <1>6. ASSUME NEW d \in Dispatchers, Invoke(d) PROVE DeliveriesAreSent'
    <2>1. PICK a \in Attempts : a = disp[d].inv
      BY <1>0, <1>6, BusyClaim DEF Invoke
    <2>2. UNCHANGED <<outbox, receipts>> /\ outbox[a] # "NONE"
      BY <1>6, <2>1 DEF Invoke, DeliveriesAreSent
    <2>3. \A e \in Dispatchers : e # d => disp'[e] = disp[e]
      BY <1>0, <1>6 DEF Invoke, TypeOK
    <2>4. disp[d] \in BusyDispatcher /\ disp[d].pc = "leased"
      BY <1>0, <1>6, BusyClaim DEF Invoke
    <2>5. \A w : disp' = [disp EXCEPT ![d].pc = w] => disp'[d].pc = w /\ disp'[d].inv = a
      BY <1>0, <2>1, <2>4 DEF TypeOK, BusyDispatcher
    <2>6. \/ ~RejectionSeen(a) /\ delivered' = delivered \cup {a} /\ disp'[d].pc \in {"accepted", "errored"}
          \/ delivered' = delivered /\ disp'[d].pc = "errored"
          \/ a \notin delivered /\ delivered' = delivered /\ disp'[d].pc = "rejected"
      BY <1>6, <2>1, <2>5 DEF Invoke, MayRun, MayReject
    <2>7. disp'[d].inv = a
      BY <1>6, <2>1, <2>5 DEF Invoke
    <2> QED BY <2>1, <2>2, <2>3, <2>6, <2>7 DEF DeliveriesAreSent, RejectionSeen
  <1>E. ASSUME NEW d \in Dispatchers, EndDispatch(d)
        PROVE  disp'[d].pc = "idle" /\ \A e \in Dispatchers : e # d => disp'[e] = disp[e]
    BY <1>0, <1>E DEF EndDispatch, IdleDispatcher, TypeOK
  <1>7. ASSUME NEW d \in Dispatchers, MarkDispatched(d) PROVE DeliveriesAreSent'
    <2>1. PICK a \in Attempts : a = disp[d].inv /\ a \in delivered
      BY <1>0, <1>7, BusyClaim DEF MarkDispatched, DeliveriesAreSent
    <2>2. /\ delivered' = delivered /\ receipts' \subseteq receipts \cup {a}
          /\ \A b \in Attempts : outbox'[b] = outbox[b] \/ outbox'[b] = "DISPATCHED"
      BY <1>0, <1>7, <2>1 DEF MarkDispatched, TypeOK
    <2>3. \A e \in Dispatchers : disp[e].pc # "idle" => disp[e].inv \in Attempts
      BY <1>0, BusyClaim
    <2>4. disp'[d].pc = "idle" /\ \A e \in Dispatchers : e # d => disp'[e] = disp[e]
      BY <1>7, <1>E DEF MarkDispatched
    <2> QED BY <1>0, <2>1, <2>2, <2>3, <2>4 DEF DeliveriesAreSent, RejectionSeen
  <1>8. ASSUME NEW d \in Dispatchers, ReturnToPending(d) \/ CrashDispatcher(d) PROVE DeliveriesAreSent'
    <2>2. /\ UNCHANGED <<delivered, receipts>>
          /\ \A b \in Attempts : outbox'[b] = outbox[b] \/ outbox'[b] = "PENDING"
      BY <1>0, <1>8 DEF ReturnToPending, CrashDispatcher, TypeOK
    <2>3. \A e \in Dispatchers : disp[e].pc # "idle" => disp[e].inv \in Attempts
      BY <1>0, BusyClaim
    <2>4. disp'[d].pc = "idle" /\ \A e \in Dispatchers : e # d => disp'[e] = disp[e]
      BY <1>8, <1>E DEF ReturnToPending, CrashDispatcher
    <2> QED BY <1>0, <2>2, <2>3, <2>4 DEF DeliveriesAreSent, RejectionSeen
  <1>9. ASSUME NEW d \in Dispatchers, FailNonRetryable(d) PROVE DeliveriesAreSent'
    <2>1. PICK a \in Attempts : a = disp[d].inv /\ a \notin delivered
      BY <1>0, <1>9, BusyClaim DEF FailNonRetryable, DeliveriesAreSent, RejectionSeen
    <2>2. /\ UNCHANGED <<delivered, receipts>>
          /\ \A b \in Attempts : outbox'[b] = outbox[b] \/ (b = a /\ outbox'[b] = "FAILED")
      BY <1>0, <1>9, <2>1 DEF FailNonRetryable, TypeOK
    <2>3. \A e \in Dispatchers : disp[e].pc # "idle" => disp[e].inv \in Attempts
      BY <1>0, BusyClaim
    <2>4. disp'[d].pc = "idle" /\ \A e \in Dispatchers : e # d => disp'[e] = disp[e]
      BY <1>9, <1>E DEF FailNonRetryable
    <2> QED BY <1>0, <2>1, <2>2, <2>3, <2>4 DEF DeliveriesAreSent, RejectionSeen
  <1>10. ASSUME NEW a \in Attempts, NotifyCancel(a) PROVE DeliveriesAreSent'
    BY <1>10, <1>F DEF NotifyCancel
  <1>11. CASE Dispatch
    BY <1>5, <1>6, <1>7, <1>8, <1>9, <1>10, <1>11 DEF Dispatch
  <1>12. CASE Report
    <2>1. ASSUME NEW a \in Attempts, NEW p, Apply(a, p) PROVE DeliveriesAreSent'
      <3>1. \A b \in Attempts : outbox'[b] = outbox[b] \/ outbox'[b] = "COMPLETED"
        BY <1>0, <2>1 DEF Apply, Accept, Reject, TypeOK
      <3> QED BY <1>0, <2>1, <3>1, DeliveryFrame DEF Apply
    <2>2. ASSUME NEW a \in Attempts, AgentEvent(a) PROVE DeliveriesAreSent'
      BY <2>2, <1>F DEF AgentEvent
    <2> QED BY <1>12, <2>1, <2>2 DEF Report, WorkerResult, DeadlineResult, SupervisionResult
  <1>13. ASSUME NEW a \in Attempts, Approve(a) PROVE DeliveriesAreSent'
    BY <1>13, <1>F, <1>S DEF Approve, Decided, Resume, OutboxStatus
  <1>14. ASSUME NEW a \in Attempts, ApproveRefused(a) \/ Deny(a) \/ ExpireApproval(a)
         PROVE  DeliveriesAreSent'
    BY <1>14, <1>F DEF ApproveRefused, Deny, ExpireApproval, Decided
  <1>15. ASSUME NEW p \in Proposals, Propose(p) \/ Activate(p) \/ ApprovePatch(p) \/ RefusePatch(p)
         PROVE  DeliveriesAreSent'
    BY <1>15, <1>F DEF Propose, Activate, ApprovePatch, RefusePatch
  <1> QED
    BY <1>1, <1>2, <1>3, <1>4, <1>11, <1>12, <1>13, <1>14, <1>15
    DEF Next, Schedule, ClaimStep, Decision

-----------------------------------------------------------------------------
(***************************************************************************)
(* Executions and settled attempts                                         *)
(***************************************************************************)

\* No transaction rewrites a terminal execution.
LEMMA ExecStands ==
  ASSUME Next, exec \in TerminalExecution PROVE exec' = exec
PROOF
  <1> USE DEF TerminalExecution
  <1>1. CASE Reconcile
    BY <1>1 DEF Reconcile, Promote, PassStep, BeginPass, Advance, ReadPlan, ReadSteps,
       FailExecution, CompleteExecution, TerminateExecution, ReconcileCancel
  <1>2. CASE Schedule
    BY <1>2 DEF Schedule, AuthorityExpires, ClaimSkips, ClaimStep, ClaimRefused,
       ClaimNeedsApproval, Claim, Grantable, Claimable, Due
  <1>3. CASE Cancel
    BY <1>3 DEF Cancel, RequestCancel, CancelCommit
  <1>4. CASE Dispatch
    BY <1>4 DEF Dispatch, Lease, Invoke, MarkDispatched, ReturnToPending, FailNonRetryable,
       SettleRejectedStep, ExecAfterStepFailure, CrashDispatcher, NotifyCancel
  <1>5. CASE Report
    <2>1. ASSUME NEW a, NEW p, Apply(a, p) PROVE exec' = exec
      BY <2>1 DEF Apply, Reject, Accept, ExecOutcome, ExecAfterStepFailure
    <2> QED BY <1>5, <2>1 DEF Report, WorkerResult, DeadlineResult, SupervisionResult, AgentEvent
  <1>6. CASE Decision
    <2>1. ASSUME NEW a, FailWaiting(a) PROVE exec' = exec
      BY <2>1 DEF FailWaiting
    <2> QED
      BY <1>6, <2>1 DEF Decision, Approve, Resume, ApproveRefused, Deny, ExpireApproval,
         Propose, Activate, ApprovePatch, RefusePatch
  <1> QED BY <1>1, <1>2, <1>3, <1>4, <1>5, <1>6 DEF Next

\* A result that is accepted meets an active attempt: whatever settled the
\* attempt before left no delivery that could still report.
LEMMA ResultMeetsActive ==
  ASSUME IInv, DeliveriesAreSent, \A b \in Attempts : SettledFor(b), NEW a \in Attempts,
         WorkerResult(a) \/ DeadlineResult(a) \/ SupervisionResult(a)
  PROVE  \E p \in Payload :
           /\ Apply(a, p)
           /\ exec = "CANCELLED" \/ Overruled(a, p) \/ att[a] \in ActiveAttempt
PROOF
  <1>0. TypeOK
    BY DEF IInv
  <1>1. PICK p \in Payload :
          /\ Apply(a, p) /\ outbox[a] # "NONE"
          /\ p.status = "failed" => a \in delivered
    <2>1. CASE WorkerResult(a)
      BY <2>1 DEF WorkerResult, Payload, DeliveriesAreSent
    <2>2. CASE DeadlineResult(a)
      <3> DEFINE p == [status |-> "timed_out", source |-> "deadline"]
      <3>1. p \in Payload /\ p.status = "timed_out" /\ Apply(a, p) /\ outbox[a] # "NONE"
        BY <2>2 DEF DeadlineResult, Payload, Outcome
      <3> QED BY <3>1
    <2>3. CASE SupervisionResult(a)
      <3> DEFINE p == [status |-> "timed_out", source |-> "supervision"]
      <3>1. p \in Payload /\ p.status = "timed_out" /\ Apply(a, p) /\ outbox[a] # "NONE"
        BY <2>3 DEF SupervisionResult, Payload, Outcome, DeliveriesAreSent
      <3> QED BY <3>1
    <2> QED BY <2>1, <2>2, <2>3
  <1>2. SUFFICES ASSUME exec # "CANCELLED", ~Overruled(a, p) PROVE att[a] \in ActiveAttempt
    BY <1>1
  <1>3. inbox[a] # "APPLIED" /\ att[a] # "NONE"
    BY <1>1 DEF Apply
  <1>4. att[a] # "WAITING"
    BY <1>1 DEF IInv, RowsAgree
  <1>5. att[a] \notin {"SUCCESS", "TIMED_OUT", "CANCELLED"}
    BY <1>2, <1>3 DEF SettledFor
  <1>6. att[a] # "FAILED"
    <2> SUFFICES ASSUME att[a] = "FAILED" PROVE FALSE
      OBVIOUS
    <2>1. p.status = "failed"
      BY <1>2 DEF Overruled, TerminalStatus, TerminalAttempt, Payload, Outcome
    <2>2. outbox[a] = "FAILED"
      BY <1>1, <1>3 DEF SettledFor
    <2> QED BY <1>1, <2>1, <2>2 DEF DeliveriesAreSent, RejectionSeen
  <1> QED BY <1>0, <1>3, <1>4, <1>5, <1>6 DEF TypeOK, AttemptStatus, ActiveAttempt

\* Every transaction settles an attempt by an applied result, before it was
\* sent, by a rejection, or with its execution.
LEMMA SettledForNext ==
  ASSUME IInv, DeliveriesAreSent, \A a \in Attempts : SettledFor(a), Next
  PROVE  \A a \in Attempts : SettledFor(a)'
PROOF
  <1> USE DEF stepVars, outboxVars, inboxVars, processVars, cancelVars, planVars
  <1>0. TypeOK /\ (exec = "CANCELLED" => exec' = "CANCELLED")
    BY ExecStands DEF IInv, TerminalExecution
  <1>F. ASSUME UNCHANGED <<att, inbox, outbox>> PROVE \A a \in Attempts : SettledFor(a)'
    BY <1>0, <1>F DEF SettledFor
  <1>M. ASSUME NEW a \in Attempts, SettledFor(a)',
               \A b \in Attempts : b # a => att'[b] = att[b] /\ inbox'[b] = inbox[b] /\ outbox'[b] = outbox[b]
        PROVE  \A b \in Attempts : SettledFor(b)'
    BY <1>0, <1>M DEF SettledFor
  <1>1. CASE Reconcile
    BY <1>1, <1>F DEF Reconcile, Promote, PassStep, BeginPass, Advance, ReadPlan, ReadSteps,
       FailExecution, CompleteExecution, ReconcileCancel
  <1>2. ASSUME NEW s \in Steps, AuthorityExpires(s) \/ ClaimSkips(s) PROVE \A a \in Attempts : SettledFor(a)'
    BY <1>2, <1>F DEF AuthorityExpires, ClaimSkips
  <1>3. ASSUME NEW s \in Steps, ClaimStep(s) PROVE \A a \in Attempts : SettledFor(a)'
    <2>1. PICK a \in Attempts : a = NextAttempt(s) /\ outbox[a] = "NONE"
      BY <1>3, FreshAttempt DEF ClaimStep, ClaimRefused, ClaimNeedsApproval, Claim
    <2>2. /\ att'[a] \in {"FAILED", "WAITING", "CREATED"}
          /\ att'[a] = "FAILED" => outbox'[a] = "NONE"
          /\ \A b \in Attempts : b # a => att'[b] = att[b] /\ inbox'[b] = inbox[b] /\ outbox'[b] = outbox[b]
      BY <1>0, <1>3, <2>1 DEF ClaimStep, ClaimRefused, ClaimNeedsApproval, Claim, TakeAttempt, TypeOK
    <2>3. SettledFor(a)'
      BY <2>2 DEF SettledFor
    <2> QED BY <1>M, <2>2, <2>3
  <1>4. CASE RequestCancel
    BY <1>4, <1>F DEF RequestCancel
  <1>5. CASE CancelCommit
    <2>1. CASE exec \in TerminalExecution
      BY <1>5, <2>1, <1>F DEF CancelCommit
    <2>2. CASE exec \notin TerminalExecution
      BY <1>0, <1>5, <2>2 DEF CancelCommit, SettledFor, DispatchableRow, TypeOK
    <2> QED BY <2>1, <2>2
  <1>6. ASSUME NEW d \in Dispatchers, NEW a \in Attempts, Lease(d, a) PROVE \A b \in Attempts : SettledFor(b)'
    <2>1. att[a] \notin TerminalAttempt /\ UNCHANGED <<att, inbox>>
      BY <1>6 DEF Lease, Leasable
    <2>2. SettledFor(a)'
      BY <2>1 DEF SettledFor, TerminalAttempt
    <2> QED BY <1>0, <1>6, <1>M, <2>2 DEF Lease, TypeOK
  <1>7. ASSUME NEW d \in Dispatchers, Invoke(d) \/ CrashDispatcher(d) PROVE \A b \in Attempts : SettledFor(b)'
    BY <1>7, <1>F DEF Invoke, CrashDispatcher
  <1>8. ASSUME NEW d \in Dispatchers, MarkDispatched(d) \/ ReturnToPending(d) \/ FailNonRetryable(d)
        PROVE  \A b \in Attempts : SettledFor(b)'
    <2>1. PICK a \in Attempts : a = disp[d].inv
      BY <1>0, <1>8, BusyClaim DEF MarkDispatched, ReturnToPending, FailNonRetryable
    <2>2. CASE HoldsLease(d)
      <3>1. att[a] = "CREATED"
        BY <1>0, <2>1, <2>2 DEF HoldsLease, IInv, RowsAgree, TypeOK, AttemptStatus, TerminalAttempt, DispatchableRow
      <3>2. att'[a] \in {"CREATED", "DISPATCHED"} \/ (att'[a] = "FAILED" /\ outbox'[a] = "FAILED")
        BY <1>0, <1>8, <2>1, <2>2, <3>1 DEF MarkDispatched, ReturnToPending, FailNonRetryable, TypeOK, TerminalAttempt
      <3>3. SettledFor(a)'
        BY <3>2 DEF SettledFor
      <3>4. \A b \in Attempts : b # a => att'[b] = att[b] /\ inbox'[b] = inbox[b] /\ outbox'[b] = outbox[b]
        BY <1>0, <1>8, <2>1 DEF MarkDispatched, ReturnToPending, FailNonRetryable, TypeOK
      <3> QED BY <1>M, <3>3, <3>4
    <2>3. CASE ~HoldsLease(d)
      <3>1. UNCHANGED <<att, inbox, outbox>>
        BY <1>0, <1>8, <2>1, <2>3 DEF MarkDispatched, ReturnToPending, FailNonRetryable, TypeOK
      <3> QED BY <1>F, <3>1
    <2> QED BY <2>2, <2>3
  <1>9. CASE Dispatch
    BY <1>6, <1>7, <1>8, <1>9, <1>F DEF Dispatch, NotifyCancel
  <1>10. ASSUME NEW a \in Attempts, WorkerResult(a) \/ DeadlineResult(a) \/ SupervisionResult(a)
         PROVE  \A b \in Attempts : SettledFor(b)'
    <2>1. PICK p \in Payload : Apply(a, p) /\ (exec = "CANCELLED" \/ Overruled(a, p) \/ att[a] \in ActiveAttempt)
      BY <1>10, ResultMeetsActive
    <2>2. CASE exec = "CANCELLED" \/ Overruled(a, p)
      <3>1. UNCHANGED <<att, outbox>> /\ inbox' = [inbox EXCEPT ![a] = "REJECTED"] /\ inbox[a] # "APPLIED"
        BY <2>1, <2>2 DEF Apply, Reject
      <3> QED BY <1>0, <3>1 DEF SettledFor, TypeOK
    <2>3. CASE ~(exec = "CANCELLED" \/ Overruled(a, p))
      <3>1. /\ inbox'[a] = "APPLIED"
            /\ \A b \in Attempts : b # a => att'[b] = att[b] /\ inbox'[b] = inbox[b] /\ outbox'[b] = outbox[b]
        BY <1>0, <2>1, <2>3 DEF Apply, Accept, TypeOK
      <3>2. SettledFor(a)'
        BY <3>1 DEF SettledFor
      <3> QED BY <1>M, <3>1, <3>2
    <2> QED BY <2>2, <2>3
  <1>11. ASSUME NEW a \in Attempts, AgentEvent(a) PROVE \A b \in Attempts : SettledFor(b)'
    <2>1. att' = [att EXCEPT ![a] = "RUNNING"] /\ UNCHANGED <<inbox, outbox>>
      BY <1>11 DEF AgentEvent
    <2> QED BY <1>0, <1>M, <2>1 DEF SettledFor, TypeOK
  <1>12. ASSUME NEW a \in Attempts, Approve(a) \/ ApproveRefused(a) \/ Deny(a) \/ ExpireApproval(a)
         PROVE  \A b \in Attempts : SettledFor(b)'
    <2>1. inbox' = inbox
      BY <1>12 DEF Approve, ApproveRefused, Deny, ExpireApproval, Decided
    <2>2. CASE att[a] # "WAITING"
      <3>1. UNCHANGED <<att, outbox>>
        BY <1>12, <2>2 DEF Approve, ApproveRefused, Deny, ExpireApproval, FailWaiting
      <3> QED BY <1>F, <2>1, <3>1
    <2>3. CASE att[a] = "WAITING"
      <3>1. outbox[a] = "NONE"
        BY <2>3 DEF IInv, RowsAgree
      <3>2. /\ att'[a] = "CREATED" \/ (att'[a] = "FAILED" /\ outbox'[a] = "NONE")
            /\ \A b \in Attempts : b # a => att'[b] = att[b] /\ outbox'[b] = outbox[b]
        BY <1>0, <1>12, <2>3, <3>1 DEF Approve, Resume, ApproveRefused, Deny, ExpireApproval, FailWaiting, TypeOK
      <3>3. SettledFor(a)'
        BY <3>2 DEF SettledFor
      <3> QED BY <1>M, <2>1, <3>2, <3>3
    <2> QED BY <2>2, <2>3
  <1>13. ASSUME NEW p \in Proposals, Propose(p) \/ Activate(p) \/ ApprovePatch(p) \/ RefusePatch(p)
         PROVE  \A b \in Attempts : SettledFor(b)'
    BY <1>13, <1>F DEF Propose, Activate, ApprovePatch, RefusePatch
  <1> QED
    BY <1>1, <1>2, <1>3, <1>4, <1>5, <1>9, <1>10, <1>11, <1>12, <1>13
    DEF Next, Schedule, Cancel, Report, Decision

-----------------------------------------------------------------------------
(***************************************************************************)
(* Steps                                                                   *)
(***************************************************************************)

\* Transactions that leave the steps and their attempts alone.
LEMMA StepsRest ==
  ASSUME IInv, \A s \in Steps : StepInv(s), UNCHANGED <<step, tries, att, spec>>,
         exec = "CANCELLED" => exec' = "CANCELLED"
  PROVE  \A s \in Steps : StepMove(s)
PROOF
  <1> TAKE s \in Steps
  <1>1. TypeOK /\ Plan' = Plan
    BY DEF IInv, Plan
  <1>2. StepInv(s)'
    BY <1>1, StepFrame
  <1> QED BY <1>2 DEF StepMove

\* Transactions that move one live attempt and the step it is the latest of.
LEMMA StepOfLiveMoves ==
  ASSUME IInv, \A s \in Steps : StepInv(s), NEW a \in Attempts, att[a] \in LiveAttempt,
         \A b \in Attempts : b # a => att'[b] = att[b],
         \A s \in Steps : s # a[1] => step'[s] = step[s],
         UNCHANGED <<tries, spec>>,
         exec = "CANCELLED" => exec' = "CANCELLED",
         Shows(a[1], att[a])',
         step'[a[1]] = "RETRYING" => a[2] < MaxAttempts[a[1]]
  PROVE  \A s \in Steps : StepMove(s)
PROOF
  <1> TAKE s \in Steps
  <1>1. StepInv(s)'
    BY MoveStep
  <1>2. a[1] \in Steps /\ tries[a[1]] > 0 /\ ~Settled(a[1])
    BY LiveIsLatest, AttemptIsPair
  <1> QED BY <1>1, <1>2 DEF StepMove

\* Passes, claims and cancellation move steps as they may.
LEMMA StepScheduling ==
  ASSUME IInv, \A s \in Steps : StepInv(s), Reconcile \/ Schedule \/ Cancel
  PROVE  \A s \in Steps : StepMove(s)
PROOF
  <1> USE DEF stepVars, outboxVars, inboxVars, processVars, cancelVars, planVars
  <1>0. TypeOK /\ (exec = "CANCELLED" => exec' = "CANCELLED")
    BY ExecStands DEF IInv, TerminalExecution, Next
  <1>1. CASE Promote
    BY <1>0, <1>1, StepsRest DEF Promote
  <1>2. ASSUME NEW r \in Reconcilers, PassStep(r) PROVE \A s \in Steps : StepMove(s)
    <2>1. CASE Advance(r)
      <3> SUFFICES ASSUME NEW s \in Steps PROVE StepMove(s)
        OBVIOUS
      <3>1. /\ UNCHANGED <<tries, att, spec, exec>> /\ Plan' = Plan
            /\ \/ step'[s] = step[s]
               \/ step[s] = "PENDING" /\ step'[s] = "READY" /\ s \in Plan
        BY <2>1 DEF Advance, Plan
      <3>2. CASE step'[s] = step[s]
        BY <1>0, <3>1, <3>2, StepFrame DEF StepMove
      <3>3. CASE step[s] = "PENDING" /\ step'[s] = "READY" /\ s \in Plan
        <4>1. tries[s] \in Nat /\ tries[s] = 0
          BY <1>0, <3>3, BoundAssumption DEF TypeOK, StepInv, Shows
        <4>2. StepInv(s)'
          BY <3>1, <3>3, <4>1 DEF StepInv, AttemptsOf
        <4> QED BY <3>1, <3>3, <4>1, <4>2 DEF StepMove, Settled
      <3> QED BY <3>1, <3>2, <3>3
    <2>2. CASE ~Advance(r)
      <3>1. UNCHANGED <<step, tries, att, spec>>
        BY <1>2, <2>2 DEF PassStep, BeginPass, ReadPlan, ReadSteps, FailExecution,
           CompleteExecution, ReconcileCancel
      <3> QED BY <1>0, <3>1, StepsRest
    <2> QED BY <2>1, <2>2
  <1>3. ASSUME NEW s \in Steps, AuthorityExpires(s) \/ ClaimSkips(s) PROVE \A t \in Steps : StepMove(t)
    <2> SUFFICES ASSUME NEW t \in Steps PROVE StepMove(t)
      OBVIOUS
    <2>1. /\ UNCHANGED <<tries, att, spec>> /\ Plan' = Plan
          /\ \A u \in Steps : u # s => step'[u] = step[u]
          /\ step[s] \in {"READY", "RETRYING"} /\ exec = "RUNNING"
          /\ \/ step'[s] = "CANCELLED"
             \/ step'[s] = "SKIPPED" /\ DependenciesResolved(s) /\ s \in Plan
      BY <1>0, <1>3 DEF AuthorityExpires, ClaimSkips, Claimable, Due, Plan, TypeOK
    <2>2. CASE t # s
      BY <1>0, <2>1, <2>2, StepFrame DEF StepMove
    <2>3. CASE t = s
      <3>1. StepInv(s) /\ tries[s] \in Nat /\ s \in Plan
        BY <1>0, <2>1, BoundAssumption DEF TypeOK, StepInv
      <3>2. tries[s] > 0 => att[Latest(s)] \in Unsuccessful
        BY <2>1, <3>1 DEF StepInv, Shows
      <3>3. Latest(s)' = Latest(s)
        BY <2>1 DEF Latest
      <3>4. (tries[s] > 0 => Shows(s, att[Latest(s)]))'
        BY <2>1, <3>2, <3>3 DEF Shows, Unsuccessful, TerminalAttempt
      <3>5. StepInv(s)'
        BY <2>1, <3>1, <3>4 DEF StepInv, AttemptsOf
      <3> QED BY <2>1, <2>3, <3>5 DEF StepMove, Settled
    <2> QED BY <2>2, <2>3
  <1>4. ASSUME NEW s \in Steps, ClaimStep(s) PROVE \A t \in Steps : StepMove(t)
    <2> SUFFICES ASSUME NEW t \in Steps PROVE StepMove(t)
      OBVIOUS
    <2>1. PICK n \in Attempts : n = NextAttempt(s) /\ n[1] = s /\ n[2] = tries[s] + 1 /\ Grantable(s)
      BY <1>4, FreshAttempt DEF ClaimStep, ClaimRefused, ClaimNeedsApproval, Claim
    <2>2. /\ spec' = spec /\ Plan' = Plan
          /\ \A u \in Steps : u # s => step'[u] = step[u] /\ tries'[u] = tries[u]
          /\ tries'[s] = tries[s] + 1
          /\ \A b \in Attempts : b # n => att'[b] = att[b]
          /\ \/ step'[s] = "RETRYING" /\ att'[n] = "FAILED" /\ RetryAllowed(s, tries[s] + 1)
             \/ step'[s] = "FAILED" /\ att'[n] = "FAILED"
             \/ step'[s] = "WAITING" /\ att'[n] = "WAITING"
             \/ step'[s] = "RUNNING" /\ att'[n] = "CREATED"
      BY <1>0, <1>4, <2>1 DEF ClaimStep, ClaimRefused, ClaimNeedsApproval, Claim, TakeAttempt, Plan, TypeOK
    <2>3. CASE t # s
      <3>1. \A b \in AttemptsOf(t) : att'[b] = att[b]
        BY <2>1, <2>2, <2>3 DEF AttemptsOf
      <3> QED BY <1>0, <2>2, <2>3, <3>1, StepFrame DEF StepMove
    <2>4. CASE t = s
      <3>1. StepInv(s) /\ tries[s] \in Nat /\ s \in Plan /\ DependenciesResolved(s)
            /\ step[s] \in {"READY", "RETRYING"} /\ MaxAttempts[s] \in Nat \ {0}
        BY <1>0, <2>1, BoundAssumption, PlanAssumption DEF TypeOK, Grantable, Claimable, Due
      <3>2. tries[s] < MaxAttempts[s]
        BY <3>1 DEF StepInv, Shows
      <3>3. Latest(s)' = n
        BY <2>1, <2>2 DEF Latest, NextAttempt
      <3>4. Shows(s, att[n])'
        BY <2>2 DEF Shows, ActiveAttempt, Unsuccessful
      <3>5. ASSUME NEW b \in AttemptsOf(s), b[2] < tries[s] + 1 PROVE att'[b] \in Unsuccessful
        <4>1. b \in Attempts /\ b # n /\ b[2] \in Nat /\ b[2] > 0 /\ b = <<s, b[2]>>
          BY <2>1, <3>1, <3>5, AttemptIsPair DEF AttemptsOf
        <4>2. CASE b[2] < tries[s]
          BY <2>2, <3>1, <4>1, <4>2, <3>5 DEF StepInv
        <4>3. CASE b[2] = tries[s]
          <5>1. b = Latest(s) /\ tries[s] > 0
            BY <3>1, <4>1, <4>3 DEF Latest
          <5> QED BY <2>2, <3>1, <4>1, <5>1 DEF StepInv, Shows
        <4> QED BY <3>1, <3>5, <4>1, <4>2, <4>3
      <3>6. StepInv(s)'
        BY <2>2, <3>1, <3>2, <3>3, <3>4, <3>5 DEF StepInv, AttemptsOf, RetryAllowed
      <3> QED BY <2>4, <3>1, <3>6 DEF StepMove, Settled
    <2> QED BY <2>3, <2>4
  <1>5. CASE RequestCancel
    BY <1>0, <1>5, StepsRest DEF RequestCancel
  <1>6. CASE CancelCommit
    <2>1. CASE exec \in TerminalExecution
      BY <1>0, <1>6, <2>1, StepsRest DEF CancelCommit
    <2>2. CASE exec \notin TerminalExecution
      <3> SUFFICES ASSUME NEW s \in Steps PROVE StepMove(s)
        OBVIOUS
      <3>1. /\ exec' = "CANCELLED" /\ UNCHANGED <<tries, spec>> /\ Plan' = Plan
            /\ step'[s] = IF step[s] \in CancellableStep THEN "CANCELLED" ELSE step[s]
            /\ \A a \in Attempts : att'[a] = IF a \in locked THEN "CANCELLED" ELSE att[a]
        BY <1>6, <2>2 DEF CancelCommit, Plan
      <3>2. StepInv(s) /\ tries[s] \in Nat /\ step[s] \in StepStatus
        BY <1>0, BoundAssumption DEF TypeOK
      <3>3. \A a \in AttemptsOf(s) : att[a] \in Unsuccessful \cup {"SUCCESS"} => att'[a] = att[a]
        BY <3>1 DEF AttemptsOf, IInv, LockedAreLive, LiveAttempt, ActiveAttempt, Unsuccessful
      <3>4. (tries[s] > 0 => Shows(s, att[Latest(s)]))'
        <4> SUFFICES ASSUME tries[s] > 0 PROVE Shows(s, att[Latest(s)])'
          BY <3>1
        <4>1. Latest(s)' = Latest(s) /\ Latest(s) \in AttemptsOf(s)
          BY <1>0, <3>1, LatestExists DEF Latest
        <4> QED BY <3>1, <3>2, <3>3, <4>1 DEF StepInv, Shows, CancellableStep, StepStatus, Unsuccessful
      <3>5. StepInv(s)'
        BY <3>1, <3>2, <3>3, <3>4 DEF StepInv, AttemptsOf, CancellableStep
      <3> QED BY <3>1, <3>5 DEF StepMove, Settled, CancellableStep
    <2> QED BY <2>1, <2>2
  <1> QED BY <1>1, <1>2, <1>3, <1>4, <1>5, <1>6 DEF Reconcile, Schedule, Cancel

\* Dispatchers move only the attempt whose lease they hold, and its step.
LEMMA StepDispatch ==
  ASSUME IInv, \A s \in Steps : StepInv(s), Dispatch
  PROVE  \A s \in Steps : StepMove(s)
PROOF
  <1> USE DEF stepVars, outboxVars, inboxVars, processVars, cancelVars, planVars
  <1>0. TypeOK /\ (exec = "CANCELLED" => exec' = "CANCELLED")
    BY ExecStands DEF IInv, TerminalExecution, Next
  <1>1. ASSUME NEW d \in Dispatchers, NEW a \in Attempts, Lease(d, a)
        PROVE  \A s \in Steps : StepMove(s)
    BY <1>0, <1>1, StepsRest DEF Lease
  <1>2. ASSUME NEW a \in Attempts, NotifyCancel(a) PROVE \A s \in Steps : StepMove(s)
    BY <1>0, <1>2, StepsRest DEF NotifyCancel
  <1>3. ASSUME NEW d \in Dispatchers, Invoke(d) \/ ReturnToPending(d) \/ CrashDispatcher(d)
        PROVE  \A s \in Steps : StepMove(s)
    BY <1>0, <1>3, StepsRest DEF Invoke, ReturnToPending, CrashDispatcher
  <1>4. ASSUME NEW d \in Dispatchers, MarkDispatched(d) \/ FailNonRetryable(d)
        PROVE  \A s \in Steps : StepMove(s)
    <2>1. PICK a \in Attempts : a = disp[d].inv
      BY <1>0, <1>4, BusyClaim DEF MarkDispatched, FailNonRetryable
    <2>2. CASE ~HoldsLease(d)
      BY <1>0, <1>4, <2>1, <2>2, StepsRest DEF MarkDispatched, FailNonRetryable
    <2>3. CASE HoldsLease(d)
      <3>1. att[a] = "CREATED" /\ a[1] \in Steps
        BY <1>0, <2>1, <2>3, AttemptIsPair
        DEF HoldsLease, IInv, RowsAgree, TypeOK, AttemptStatus, TerminalAttempt, DispatchableRow
      <3>2. \/ step[a[1]] = "RUNNING"
            \/ step[a[1]] = "CANCELLED" /\ exec = "CANCELLED"
        BY <3>1, LiveIsLatest DEF LiveAttempt, ActiveAttempt
      <3>3. CASE MarkDispatched(d)
        <4>1. /\ att'[a] = "DISPATCHED" /\ UNCHANGED <<exec, step, tries, spec>>
              /\ \A b \in Attempts : b # a => att'[b] = att[b]
          BY <1>0, <2>1, <2>3, <3>1, <3>3 DEF MarkDispatched, TypeOK, TerminalAttempt
        <4>2. Shows(a[1], att[a])'
          BY <3>2, <4>1 DEF Shows, ActiveAttempt
        <4>3. att[a] \in LiveAttempt /\ step'[a[1]] # "RETRYING"
          BY <3>1, <3>2, <4>1 DEF LiveAttempt, ActiveAttempt
        <4> QED BY <1>0, <4>1, <4>2, <4>3, StepOfLiveMoves
      <3>4. CASE FailNonRetryable(d)
        <4>1. /\ att'[a] = "FAILED" /\ UNCHANGED <<tries, spec>> /\ SettleRejectedStep(a)
              /\ \A b \in Attempts : b # a => att'[b] = att[b]
          BY <1>0, <2>1, <2>3, <3>1, <3>4 DEF FailNonRetryable, TypeOK, TerminalAttempt
        <4>2. /\ \A s \in Steps : s # a[1] => step'[s] = step[s]
              /\ \/ step'[a[1]] = "RETRYING" /\ RetryAllowed(a[1], a[2])
                 \/ step'[a[1]] = "FAILED"
                 \/ step'[a[1]] = "CANCELLED" /\ exec' = "CANCELLED"
          BY <1>0, <3>1, <3>2, <4>1 DEF SettleRejectedStep, TerminalStep, TypeOK
        <4>3. Shows(a[1], att[a])'
          BY <4>1, <4>2 DEF Shows, Unsuccessful
        <4>4. att[a] \in LiveAttempt /\ (step'[a[1]] = "RETRYING" => a[2] < MaxAttempts[a[1]])
          BY <3>1, <4>2 DEF LiveAttempt, ActiveAttempt, RetryAllowed
        <4> QED BY <1>0, <4>1, <4>2, <4>3, <4>4, StepOfLiveMoves
      <3> QED BY <1>4, <3>3, <3>4
    <2> QED BY <2>2, <2>3
  <1> QED BY <1>1, <1>2, <1>3, <1>4 DEF Dispatch

\* An accepted result settles the latest attempt together with its step.
LEMMA StepReport ==
  ASSUME IInv, DeliveriesAreSent, \A a \in Attempts : SettledFor(a),
         \A s \in Steps : StepInv(s), Report
  PROVE  \A s \in Steps : StepMove(s)
PROOF
  <1> USE DEF stepVars, outboxVars, inboxVars, processVars, cancelVars, planVars
  <1>0. TypeOK /\ (exec = "CANCELLED" => exec' = "CANCELLED")
    BY ExecStands DEF IInv, TerminalExecution, Next
  <1>1. ASSUME NEW a \in Attempts, AgentEvent(a) PROVE \A s \in Steps : StepMove(s)
    <2>1. /\ att[a] = "DISPATCHED" /\ att'[a] = "RUNNING" /\ UNCHANGED <<exec, step, tries, spec>>
          /\ \A b \in Attempts : b # a => att'[b] = att[b]
      BY <1>0, <1>1 DEF AgentEvent, ShowsActivity, TypeOK
    <2>2. att[a] \in LiveAttempt /\ att[a] \in ActiveAttempt /\ att[a] # "WAITING"
      BY <2>1 DEF LiveAttempt, ActiveAttempt
    <2>3. \/ step[a[1]] = "RUNNING"
          \/ step[a[1]] = "CANCELLED" /\ exec = "CANCELLED"
      BY <2>2, LiveIsLatest
    <2>4. Shows(a[1], att[a])' /\ step'[a[1]] # "RETRYING"
      BY <2>1, <2>3 DEF Shows, ActiveAttempt
    <2> QED BY <1>0, <2>1, <2>2, <2>4, StepOfLiveMoves
  <1>2. ASSUME NEW a \in Attempts, WorkerResult(a) \/ DeadlineResult(a) \/ SupervisionResult(a)
        PROVE  \A s \in Steps : StepMove(s)
    <2>1. PICK p \in Payload : Apply(a, p) /\ (exec = "CANCELLED" \/ Overruled(a, p) \/ att[a] \in ActiveAttempt)
      BY <1>2, ResultMeetsActive
    <2>2. CASE exec = "CANCELLED" \/ Overruled(a, p)
      BY <1>0, <2>1, <2>2, StepsRest DEF Apply, Reject
    <2>3. CASE ~(exec = "CANCELLED" \/ Overruled(a, p))
      <3>1. Accept(a, p) /\ UNCHANGED <<tries, spec>> /\ att[a] \in ActiveAttempt /\ a[1] \in Steps
        BY <2>1, <2>3, AttemptIsPair DEF Apply
      <3>2. PICK e \in EffectiveStatuses(a, p) :
              /\ att' = [att EXCEPT ![a] = IF @ \in TerminalAttempt THEN @ ELSE e]
              /\ step' = [step EXCEPT ![a[1]] = StepOutcome(a, e)]
        BY <3>1 DEF Accept
      <3>3. /\ att'[a] = e /\ step'[a[1]] = StepOutcome(a, e)
            /\ \A b \in Attempts : b # a => att'[b] = att[b]
            /\ \A s \in Steps : s # a[1] => step'[s] = step[s]
        BY <1>0, <3>1, <3>2 DEF TypeOK, ActiveAttempt, TerminalAttempt
      <3>4. e \in TerminalAttempt
        BY EffectiveIsTerminal
      <3>5. Shows(a[1], att[a])' /\ (step'[a[1]] = "RETRYING" => a[2] < MaxAttempts[a[1]])
        BY <3>3, <3>4 DEF Shows, StepOutcome, TerminalAttempt, Unsuccessful, RetryAllowed
      <3> QED BY <1>0, <3>1, <3>3, <3>5, StepOfLiveMoves DEF LiveAttempt
    <2> QED BY <2>2, <2>3
  <1> QED BY <1>1, <1>2 DEF Report

\* Decisions move the waiting attempt with its step, and activated patches
\* only add steps nobody has tried.
LEMMA StepDecision ==
  ASSUME IInv, \A s \in Steps : StepInv(s), Decision
  PROVE  \A s \in Steps : StepMove(s)
PROOF
  <1> USE DEF stepVars, outboxVars, inboxVars, processVars, cancelVars, planVars
  <1>0. TypeOK /\ (exec = "CANCELLED" => exec' = "CANCELLED")
    BY ExecStands DEF IInv, TerminalExecution, Next
  <1>1. ASSUME NEW a \in Attempts, Approve(a) \/ ApproveRefused(a) \/ Deny(a) \/ ExpireApproval(a)
        PROVE  \A s \in Steps : StepMove(s)
    <2>1. UNCHANGED <<tries, spec>> /\ a[1] \in Steps
      BY <1>1, AttemptIsPair DEF Approve, ApproveRefused, Deny, ExpireApproval, Decided
    <2>2. CASE att[a] # "WAITING"
      BY <1>0, <1>1, <2>1, <2>2, StepsRest DEF Approve, ApproveRefused, Deny, ExpireApproval, FailWaiting
    <2>3. CASE att[a] = "WAITING"
      <3>1. \/ step[a[1]] = "WAITING"
            \/ step[a[1]] = "CANCELLED" /\ exec = "CANCELLED"
        BY <2>3, LiveIsLatest DEF LiveAttempt, ActiveAttempt
      <3>2. /\ \A b \in Attempts : b # a => att'[b] = att[b]
            /\ \A s \in Steps : s # a[1] => step'[s] = step[s]
            /\ \/ att'[a] = "CREATED" /\ step'[a[1]] = "RUNNING"
               \/ att'[a] = "FAILED" /\ step'[a[1]] = "RETRYING" /\ RetryAllowed(a[1], a[2])
               \/ att'[a] = "FAILED" /\ step'[a[1]] = "FAILED"
               \/ att'[a] = "FAILED" /\ step'[a[1]] = "CANCELLED" /\ exec' = "CANCELLED"
        BY <1>0, <1>1, <2>1, <2>3, <3>1 DEF Approve, Resume, ApproveRefused, Deny, ExpireApproval, FailWaiting, TypeOK
      <3>3. Shows(a[1], att[a])' /\ (step'[a[1]] = "RETRYING" => a[2] < MaxAttempts[a[1]])
        BY <3>2 DEF Shows, ActiveAttempt, Unsuccessful, RetryAllowed
      <3> QED BY <1>0, <2>1, <2>3, <3>2, <3>3, StepOfLiveMoves DEF LiveAttempt
    <2> QED BY <2>2, <2>3
  <1>2. ASSUME NEW p \in Proposals, Propose(p) \/ RefusePatch(p) PROVE \A s \in Steps : StepMove(s)
    BY <1>0, <1>2, StepsRest DEF Propose, RefusePatch
  <1>3. ASSUME NEW p \in Proposals, Activate(p) \/ ApprovePatch(p) PROVE \A s \in Steps : StepMove(s)
    <2>1. CASE UNCHANGED <<step, spec>>
      BY <1>0, <1>3, <2>1, StepsRest DEF Activate, ApprovePatch
    <2>2. CASE ~UNCHANGED <<step, spec>>
      <3> SUFFICES ASSUME NEW s \in Steps PROVE StepMove(s)
        OBVIOUS
      <3>1. ActivateRevision(p) /\ ValidCandidate(p) /\ UNCHANGED <<exec, tries, att>>
        BY <1>3, <2>2 DEF Activate, ApprovePatch, Decide, Refused
      <3>2. /\ s \in Plan => s \in Plan' /\ s \notin PatchAdds[p]
            /\ s \in PatchAdds[p] => s \in Plan' /\ s \notin Plan
            /\ step'[s] = IF s \in PatchAdds[p] THEN "PENDING" ELSE step[s]
        BY <1>0, <3>1 DEF ActivateRevision, ValidCandidate, Plan, TypeOK
      <3>3. CASE s \notin PatchAdds[p]
        BY <1>0, <3>1, <3>2, <3>3, StepFrame DEF StepMove
      <3>4. CASE s \in PatchAdds[p]
        <4>1. step[s] = "NONE" /\ tries[s] = 0
          BY <1>0, <3>2, <3>4, BoundAssumption DEF TypeOK, StepInv, Shows
        <4>2. StepInv(s)'
          BY <3>1, <3>2, <3>4, <4>1 DEF StepInv, AttemptsOf
        <4> QED BY <3>1, <3>2, <3>4, <4>1, <4>2 DEF StepMove, Settled
      <3> QED BY <3>3, <3>4
    <2> QED BY <2>1, <2>2
  <1> QED BY <1>1, <1>2, <1>3 DEF Decision

\* Every transaction moves every step as it may.
LEMMA StepNext ==
  ASSUME SInv, Next PROVE \A s \in Steps : StepMove(s)
  BY StepScheduling, StepDispatch, StepReport, StepDecision DEF SInv, Next

-----------------------------------------------------------------------------
(***************************************************************************)
(* Invariance                                                              *)
(***************************************************************************)

\* Initially nothing was sent and no step was tried.
LEMMA StepsInit == Init => SInv
PROOF
  <1> SUFFICES ASSUME Init PROVE SInv
    OBVIOUS
  <1>1. IInv
    BY InvInit
  <1>2. DeliveriesAreSent
    BY DEF Init, DeliveriesAreSent, IdleDispatcher
  <1>3. \A a \in Attempts : SettledFor(a)
    BY DEF Init, SettledFor
  <1>4. ASSUME NEW s \in Steps PROVE StepInv(s)
    <2>1. \A a \in AttemptsOf(s) : ~(a[2] < 0)
      BY BoundAssumption DEF AttemptsOf, Attempts
    <2> QED BY <2>1, PlanAssumption DEF Init, StepInv, Plan
  <1>5. DependenciesCameFirst
    BY DEF Init, DependenciesCameFirst
  <1> QED BY <1>1, <1>2, <1>3, <1>4, <1>5 DEF SInv

\* The invariant about attempts, for one transaction.
LEMMA InvNext ==
  ASSUME IInv, Next PROVE IInv'
PROOF
  <1>1. TypeOK'
    BY TypeNext DEF IInv
  <1> QED BY <1>1, InvScheduling, InvDispatch, InvReport, InvDecision DEF Next, Reconcile, Schedule

\* Every transaction preserves the invariant.
LEMMA StepsPreserved ==
  ASSUME ~RejectedWorkMayRun, SInv, [Next]_vars PROVE SInv'
PROOF
  <1>1. CASE Next
    <2>1. IInv'
      BY <1>1, InvNext DEF SInv
    <2>2. DeliveriesAreSent'
      BY <1>1, DeliveryNext DEF SInv
    <2>3. \A a \in Attempts : SettledFor(a)'
      BY <1>1, SettledForNext DEF SInv
    <2>4. \A s \in Steps : StepMove(s)
      BY <1>1, StepNext
    <2>5. DependenciesCameFirst'
      BY <2>4, DependenciesStand DEF SInv
    <2> QED BY <2>1, <2>2, <2>3, <2>4, <2>5 DEF SInv, StepMove
  <1>2. CASE UNCHANGED vars
    <2> USE DEF vars, stepVars, outboxVars, inboxVars, processVars, cancelVars, planVars
    <2>1. IInv'
      BY <1>2 DEF SInv, IInv, TypeOK, LockedAreLive, AttemptsAreNumbered, RowsAgree, OneActiveAttempt, AttemptsOf
    <2>2. DeliveriesAreSent' /\ \A a \in Attempts : SettledFor(a)'
      BY <1>2 DEF SInv, DeliveriesAreSent, RejectionSeen, SettledFor
    <2>3. \A s \in Steps : StepInv(s)'
      BY <1>2 DEF SInv, StepInv, Shows, Plan, AttemptsOf, Latest
    <2>4. DependenciesCameFirst'
      BY <1>2 DEF SInv, DependenciesCameFirst
    <2> QED BY <2>1, <2>2, <2>3, <2>4 DEF SInv
  <1> QED BY <1>1, <1>2

\* The invariant holds in every reachable state.
THEOREM StepInvariance ==
  ASSUME ~RejectedWorkMayRun PROVE Spec => []SInv
PROOF
  <1>1. SInv /\ [Next]_vars => SInv'
    BY StepsPreserved
  <1> QED BY <1>1, StepsInit, PTL DEF Spec

\* A step shows its latest attempt, every earlier attempt is unsuccessful
\* and no later one exists, whoever settles attempts in whatever order.
THEOREM StepShowsLatestAttemptHolds ==
  ASSUME ~RejectedWorkMayRun PROVE Spec => []StepShowsLatestAttempt
PROOF
  <1>1. ASSUME SInv PROVE StepShowsLatestAttempt
    <2> SUFFICES ASSUME NEW s \in Steps
                 PROVE  /\ step[s] \in {"NONE", "PENDING", "READY"} => tries[s] = 0
                        /\ step[s] \in {"RUNNING", "RETRYING", "WAITING", "COMPLETED", "FAILED"} =>
                             /\ tries[s] > 0
                             /\ step[s] = "RUNNING" => att[Latest(s)] \in ActiveAttempt
                             /\ step[s] = "WAITING" => att[Latest(s)] = "WAITING"
                             /\ step[s] = "COMPLETED" => att[Latest(s)] = "SUCCESS"
                             /\ step[s] \in {"RETRYING", "FAILED"} =>
                                  att[Latest(s)] \in {"FAILED", "TIMED_OUT"}
                        /\ \A a \in AttemptsOf(s) :
                             /\ a[2] < tries[s] => att[a] \in {"FAILED", "TIMED_OUT"}
                             /\ a[2] > tries[s] => att[a] = "NONE"
      BY DEF StepShowsLatestAttempt
    <2>1. tries[s] \in Nat /\ StepInv(s)
      BY <1>1, BoundAssumption DEF SInv, IInv, TypeOK
    <2>2. \A a \in AttemptsOf(s) : a[2] > tries[s] => att[a] = "NONE"
      BY <1>1 DEF SInv, IInv, AttemptsAreNumbered, AttemptsOf
    <2> QED BY <2>1, <2>2 DEF StepInv, Shows, Unsuccessful
  <1> QED BY <1>1, StepInvariance, PTL

\* A step consumes at most the attempts its retries allow.
THEOREM AttemptsAreBoundedHolds ==
  ASSUME ~RejectedWorkMayRun PROVE Spec => []AttemptsAreBounded
PROOF
  <1>1. SInv => AttemptsAreBounded
    BY DEF SInv, StepInv, AttemptsAreBounded
  <1> QED BY <1>1, StepInvariance, PTL

\* Work is begun only over resolved dependencies, which stay resolved.
THEOREM DependenciesCameFirstHolds ==
  ASSUME ~RejectedWorkMayRun PROVE Spec => []DependenciesCameFirst
PROOF
  <1>1. SInv => DependenciesCameFirst
    BY DEF SInv
  <1> QED BY <1>1, StepInvariance, PTL

-----------------------------------------------------------------------------
(***************************************************************************)
(* What a step may never do                                                *)
(***************************************************************************)

\* A completed, failed or skipped step keeps its outcome for ever, and a
\* cancelled one does while its execution is not cancelled: neither a late
\* result nor a retry, a patch or an approval reopens it.
THEOREM SettledStepsStand ==
  ASSUME ~RejectedWorkMayRun
  PROVE  Spec => [][\A s \in Steps : Settled(s) => step'[s] = step[s]]_vars
PROOF
  <1>1. ASSUME SInv, Next PROVE \A s \in Steps : Settled(s) => step'[s] = step[s]
    BY <1>1, StepNext DEF StepMove
  <1>2. SInv /\ [Next]_vars => [\A s \in Steps : Settled(s) => step'[s] = step[s]]_vars
    BY <1>1
  <1> QED BY <1>2, StepInvariance, PTL DEF Spec

\* Only the approval of an attempt that a cancellation left waiting changes
\* the outcome of a step, from CANCELLED back to RUNNING.
LEMMA OnlyApprovalReopens ==
  ASSUME SInv, Next, NEW s \in Steps, step[s] \in TerminalStep, step'[s] # step[s]
  PROVE  /\ step[s] = "CANCELLED" /\ exec = "CANCELLED"
         /\ \E a \in AttemptsOf(s) : att[a] = "WAITING" /\ Approve(a)
PROOF
  <1> USE DEF stepVars, outboxVars, inboxVars, processVars, cancelVars, planVars
  <1>0. TypeOK /\ StepInv(s)
    BY DEF SInv, IInv
  <1>1. step[s] = "CANCELLED" /\ exec = "CANCELLED"
    BY StepNext DEF StepMove, Settled, TerminalStep
  <1>2. exec # "RUNNING" /\ exec \in TerminalExecution
    BY <1>1 DEF TerminalExecution
  <1>3. CASE Reconcile
    BY <1>1, <1>3 DEF Reconcile, Promote, PassStep, BeginPass, Advance, ReadPlan, ReadSteps,
       FailExecution, CompleteExecution, ReconcileCancel
  <1>4. CASE Schedule
    BY <1>2, <1>4 DEF Schedule, AuthorityExpires, ClaimSkips, ClaimStep, ClaimRefused,
       ClaimNeedsApproval, Claim, Grantable, Claimable, Due
  <1>5. CASE Cancel
    BY <1>2, <1>5 DEF Cancel, RequestCancel, CancelCommit
  <1>6. CASE Dispatch
    <2>1. ASSUME NEW d \in Dispatchers, FailNonRetryable(d) PROVE FALSE
      <3>1. PICK a \in Attempts : a = disp[d].inv
        BY <1>0, <2>1, BusyClaim DEF FailNonRetryable
      <3>2. CASE a[1] = s
        BY <1>1, <2>1, <3>1, <3>2 DEF FailNonRetryable, SettleRejectedStep, TerminalStep
      <3>3. CASE a[1] # s
        BY <1>0, <2>1, <3>1, <3>3 DEF FailNonRetryable, SettleRejectedStep, TypeOK
      <3> QED BY <3>2, <3>3
    <2> QED
      BY <1>6, <2>1 DEF Dispatch, Lease, Invoke, MarkDispatched, ReturnToPending, CrashDispatcher, NotifyCancel
  <1>7. CASE Report
    BY <1>1, <1>7 DEF Report, WorkerResult, DeadlineResult, SupervisionResult, Apply, Reject, AgentEvent
  <1>8. CASE Decision
    <2>1. ASSUME NEW a \in Attempts, FailWaiting(a) PROVE FALSE
      BY <1>0, <1>1, <2>1 DEF FailWaiting, TypeOK
    <2>2. ASSUME NEW a \in Attempts, Approve(a)
          PROVE  a \in AttemptsOf(s) /\ att[a] = "WAITING" /\ Approve(a)
      <3>1. att[a] = "WAITING" /\ step' = [step EXCEPT ![a[1]] = "RUNNING"]
        BY <2>2 DEF Approve, Resume
      <3>2. a[1] = s
        BY <1>0, <3>1 DEF TypeOK
      <3> QED BY <2>2, <3>1, <3>2 DEF AttemptsOf
    <2>3. ASSUME NEW p \in Proposals, Propose(p) \/ RefusePatch(p) \/ Activate(p) \/ ApprovePatch(p)
          PROVE  FALSE
      <3>1. Stale(p)
        BY <1>2 DEF Stale
      <3> QED BY <2>3, <3>1 DEF Propose, RefusePatch, Activate, ApprovePatch, Decide
    <2> QED BY <1>1, <1>8, <2>1, <2>2, <2>3 DEF Decision, ApproveRefused, Deny, ExpireApproval
  <1> QED BY <1>1, <1>3, <1>4, <1>5, <1>6, <1>7, <1>8 DEF Next

\* Without gated steps no attempt ever waits.
NothingWaits == \A a \in Attempts : att[a] # "WAITING"

\* Claims are the only transactions that leave an attempt waiting.
LEMMA WaitingIsGated ==
  ASSUME IInv, [Next]_vars, Gated = {}, NothingWaits PROVE NothingWaits'
PROOF
  <1> USE DEF stepVars, outboxVars, inboxVars, processVars, cancelVars, planVars
  <1>0. TypeOK
    BY DEF IInv
  <1>1. CASE Reconcile
    BY <1>1 DEF NothingWaits, Reconcile, Promote, PassStep, BeginPass, Advance, ReadPlan, ReadSteps,
       FailExecution, CompleteExecution, ReconcileCancel
  <1>2. CASE Schedule
    BY <1>0, <1>2 DEF NothingWaits, Schedule, AuthorityExpires, ClaimSkips, ClaimStep, ClaimRefused,
       ClaimNeedsApproval, Claim, TakeAttempt, TypeOK
  <1>3. CASE Cancel
    BY <1>3 DEF NothingWaits, Cancel, RequestCancel, CancelCommit
  <1>4. CASE Dispatch
    BY <1>0, <1>4 DEF NothingWaits, Dispatch, Lease, Invoke, MarkDispatched, ReturnToPending,
       FailNonRetryable, CrashDispatcher, NotifyCancel, TypeOK
  <1>5. CASE Report
    <2>1. ASSUME NEW a \in Attempts, NEW p \in Payload, Apply(a, p) PROVE NothingWaits'
      <3>1. \A e \in EffectiveStatuses(a, p) : e # "WAITING"
        BY EffectiveIsTerminal DEF TerminalAttempt
      <3> QED BY <1>0, <2>1, <3>1 DEF NothingWaits, Apply, Reject, Accept, TypeOK
    <2>2. ASSUME NEW a \in Attempts, AgentEvent(a) PROVE NothingWaits'
      BY <1>0, <2>2 DEF NothingWaits, AgentEvent, TypeOK
    <2>3. ASSUME NEW a \in Attempts, WorkerResult(a) PROVE NothingWaits'
      BY <2>1, <2>3 DEF WorkerResult, Payload
    <2>4. ASSUME NEW a \in Attempts, DeadlineResult(a) PROVE NothingWaits'
      BY <2>1, <2>4 DEF DeadlineResult, Payload, Outcome
    <2>5. ASSUME NEW a \in Attempts, SupervisionResult(a) PROVE NothingWaits'
      BY <2>1, <2>5 DEF SupervisionResult, Payload, Outcome
    <2> QED BY <1>5, <2>2, <2>3, <2>4, <2>5 DEF Report
  <1>6. CASE Decision
    BY <1>0, <1>6 DEF NothingWaits, Decision, Approve, Resume, ApproveRefused, Deny, ExpireApproval,
       FailWaiting, Propose, Activate, ApprovePatch, RefusePatch, TypeOK
  <1>7. CASE UNCHANGED vars
    BY <1>7 DEF NothingWaits, vars
  <1> QED BY <1>1, <1>2, <1>3, <1>4, <1>5, <1>6, <1>7 DEF Next

\* Without gated steps, a step that has ended keeps its outcome whatever
\* happens to its execution.
THEOREM StepOutcomesAreFinalHolds ==
  ASSUME ~RejectedWorkMayRun, Gated = {} PROVE Spec => StepOutcomesAreFinal
PROOF
  <1> DEFINE Final == \A s \in Steps : step[s] \in TerminalStep => step'[s] = step[s]
  <1>1. Init => NothingWaits
    BY DEF Init, NothingWaits
  <1>2. SInv /\ NothingWaits /\ [Next]_vars => NothingWaits'
    BY WaitingIsGated DEF SInv
  <1>3. ASSUME SInv, NothingWaits, Next PROVE Final
    BY <1>3, OnlyApprovalReopens DEF NothingWaits, AttemptsOf
  <1>4. SInv /\ NothingWaits /\ [Next]_vars => [Final]_vars
    BY <1>3
  <1> QED BY <1>1, <1>2, <1>4, StepInvariance, PTL DEF Spec, StepOutcomesAreFinal

-----------------------------------------------------------------------------
(***************************************************************************)
(* How an execution ends                                                   *)
(***************************************************************************)

EndedStep == {"COMPLETED", "FAILED", "SKIPPED"}

\* A cause of failure that the pipeline declares and a pass can act on.
StepCause ==
  \/ \E s \in Steps : step[s] = "FAILED" /\ OnFailure[s] # "continue"
  \/ BadInput # {}

Cause == StepCause \/ (AuthorityBound /\ \E s \in Steps : step[s] = "CANCELLED")

\* What a pass remembers of the plan and of the steps it read, and what an
\* execution that ended shows.  Only without patches is the plan that was
\* read still the plan when the pass acts on it.
PassInv ==
  /\ InitialPlan \subseteq Plan
  /\ Proposals = {} => Plan = InitialPlan
  /\ \A r \in Reconcilers :
       /\ recon[r].pc = "readSteps" =>
            InitialPlan \subseteq recon[r].plan /\ (Proposals = {} => recon[r].plan = InitialPlan)
       /\ recon[r].pc = "complete" => \A s \in InitialPlan : step[s] \in EndedStep
       /\ recon[r].pc = "fail" /\ Proposals = {} => StepCause
  /\ exec = "COMPLETED" => \A s \in InitialPlan : step[s] \in EndedStep
  /\ exec = "FAILED" /\ Proposals = {} => Cause

\* Initially no pass has read anything.
LEMMA PassInit == Init => PassInv
  BY PlanAssumption DEF Init, PassInv, Plan, IdleReconciler

\* Plans only grow, and only by proposals.
LEMMA PlanGrows ==
  ASSUME IInv, [Next]_vars PROVE Plan \subseteq Plan' /\ (Proposals = {} => Plan' = Plan)
PROOF
  <1> USE DEF stepVars, outboxVars, inboxVars, processVars, cancelVars, planVars
  <1>0. spec \in [Steps -> Nat] /\ rev \in Nat
    BY DEF IInv, TypeOK
  <1>1. ASSUME spec' = spec PROVE Plan' = Plan
    BY <1>1 DEF Plan
  <1>2. CASE Reconcile \/ Schedule \/ Cancel
    BY <1>1, <1>2 DEF Reconcile, Promote, PassStep, BeginPass, Advance, ReadPlan, ReadSteps,
       FailExecution, CompleteExecution, ReconcileCancel, Schedule, AuthorityExpires, ClaimSkips,
       ClaimStep, ClaimRefused, ClaimNeedsApproval, Claim, Cancel, RequestCancel, CancelCommit
  <1>3. CASE Dispatch \/ Report
    BY <1>1, <1>3 DEF Dispatch, Lease, Invoke, MarkDispatched, ReturnToPending, FailNonRetryable,
       CrashDispatcher, NotifyCancel, Report, WorkerResult, DeadlineResult, SupervisionResult, Apply,
       AgentEvent
  <1>4. CASE Decision
    <2>1. ASSUME NEW p \in Proposals, ActivateRevision(p) PROVE Plan \subseteq Plan'
      BY <1>0, <2>1 DEF ActivateRevision, Plan
    <2> QED
      BY <1>1, <1>4, <2>1 DEF Decision, Approve, ApproveRefused, Deny, ExpireApproval, Decided,
         Propose, Activate, ApprovePatch, RefusePatch, Decide
  <1>5. CASE UNCHANGED vars
    BY <1>1, <1>5 DEF vars
  <1> QED BY <1>2, <1>3, <1>4, <1>5 DEF Next

\* What a pass decides from the steps it reads is backed by those steps.
LEMMA VerdictIsBacked ==
  ASSUME SInv, PassInv, NEW r \in Reconcilers, recon[r].pc = "readSteps",
         NEW v \in PassVerdicts(recon[r].plan)
  PROVE  /\ v # "readSteps"
         /\ v = "complete" => \A s \in InitialPlan : step[s] \in EndedStep
         /\ v = "fail" /\ Proposals = {} => StepCause
PROOF
  <1>1. v = "complete" => \A s \in InitialPlan : step[s] \in EndedStep
    <2> SUFFICES ASSUME v = "complete", NEW s \in InitialPlan PROVE step[s] \in EndedStep
      OBVIOUS
    <2>1. AllTerminal(recon[r].plan) /\ step[s] # "CANCELLED"
      BY PlanAssumption DEF PassVerdicts
    <2> QED BY <2>1 DEF PassInv, AllTerminal, TerminalStep, EndedStep
  <1>2. ASSUME v = "fail", Proposals = {} PROVE StepCause
    <2>1. CASE FatalStep(recon[r].plan)
      <3>1. PICK s \in Steps : step[s] = "FAILED" /\ ~(s \in recon[r].plan /\ OnFailure[s] = "continue")
        BY <2>1 DEF FatalStep
      <3>2. s \in Plan
        BY <3>1 DEF SInv, StepInv
      <3> QED BY <1>2, <3>1, <3>2 DEF PassInv, StepCause
    <2>2. CASE ~FatalStep(recon[r].plan)
      BY <1>2, <2>2 DEF PassVerdicts, StepCause
    <2> QED BY <2>1, <2>2
  <1>3. v # "readSteps"
    BY DEF PassVerdicts
  <1> QED BY <1>1, <1>2, <1>3

\* What the passes hold after a transaction is what they held before, or
\* what the acting pass has just read.
LEMMA PassesMove ==
  ASSUME SInv, PassInv, Next, NEW r \in Reconcilers
  PROVE  \/ recon'[r] = recon[r]
         \/ recon'[r].pc \notin {"readSteps", "fail", "complete"}
         \/ recon'[r] = [pc |-> "readSteps", plan |-> Plan]
         \/ /\ UNCHANGED step
            /\ recon'[r].pc = "complete" => \A s \in InitialPlan : step[s] \in EndedStep
            /\ recon'[r].pc = "fail" /\ Proposals = {} => StepCause
            /\ recon'[r].pc # "readSteps"
PROOF
  <1> USE DEF stepVars, outboxVars, inboxVars, processVars, cancelVars, planVars
  <1>0. recon \in [Reconcilers -> ReconcilerState]
    BY DEF SInv, IInv, TypeOK
  <1>1. CASE Reconcile
    <2>1. CASE Promote
      BY <2>1 DEF Promote
    <2>2. ASSUME NEW q \in Reconcilers, PassStep(q), q # r PROVE recon'[r] = recon[r]
      BY <1>0, <2>2 DEF PassStep, BeginPass, Advance, ReadPlan, ReadSteps, FailExecution,
         CompleteExecution, ReconcileCancel
    <2>3. CASE ReadSteps(r)
      <3>1. PICK v \in PassVerdicts(recon[r].plan) :
              recon' = [recon EXCEPT ![r] = [pc |-> v, plan |-> {}]]
        BY <2>3 DEF ReadSteps
      <3>2. recon'[r].pc = v /\ UNCHANGED step /\ recon[r].pc = "readSteps"
        BY <1>0, <2>3, <3>1 DEF ReadSteps
      <3> QED BY <3>2, VerdictIsBacked
    <2>4. CASE BeginPass(r) \/ Advance(r)
      <3>1. PICK v \in {"advance", "readPlan"} : recon' = [recon EXCEPT ![r].pc = v]
        BY <2>4 DEF BeginPass, Advance
      <3> QED BY <1>0, <3>1 DEF ReconcilerState
    <2>5. CASE ReadPlan(r) \/ FailExecution(r) \/ CompleteExecution(r) \/ ReconcileCancel(r)
      BY <1>0, <2>5 DEF ReadPlan, FailExecution, CompleteExecution, ReconcileCancel, IdleReconciler
    <2> QED BY <1>1, <2>1, <2>2, <2>3, <2>4, <2>5 DEF Reconcile, PassStep
  <1>2. CASE Schedule \/ Cancel
    BY <1>2 DEF Schedule, AuthorityExpires, ClaimSkips, ClaimStep, ClaimRefused, ClaimNeedsApproval,
       Claim, Cancel, RequestCancel, CancelCommit
  <1>3. CASE Dispatch \/ Report
    BY <1>3 DEF Dispatch, Lease, Invoke, MarkDispatched, ReturnToPending, FailNonRetryable,
       CrashDispatcher, NotifyCancel, Report, WorkerResult, DeadlineResult, SupervisionResult, Apply,
       AgentEvent
  <1>4. CASE Decision
    BY <1>4 DEF Decision, Approve, ApproveRefused, Deny, ExpireApproval, Decided,
       Propose, Activate, ApprovePatch, RefusePatch
  <1> QED BY <1>1, <1>2, <1>3, <1>4 DEF Next

\* An execution that is not terminal becomes COMPLETED or FAILED only by a
\* pass that decided so, by the authority deadline, or by the failure of a
\* step whose policy is not continue.
LEMMA ExecEnds ==
  ASSUME SInv, Next, exec' # exec, exec' \in {"COMPLETED", "FAILED"}
  PROVE  \/ \E r \in Reconcilers : recon[r].pc = "complete" /\ exec' = "COMPLETED" /\ UNCHANGED step
         \/ \E r \in Reconcilers : recon[r].pc = "fail" /\ exec' = "FAILED" /\ UNCHANGED step
         \/ exec' = "FAILED" /\ AuthorityBound /\ \E s \in Steps : step'[s] = "CANCELLED"
         \/ exec' = "FAILED" /\ \E s \in Steps : step'[s] = "FAILED" /\ OnFailure[s] # "continue"
PROOF
  <1> USE DEF stepVars, outboxVars, inboxVars, processVars, cancelVars, planVars
  <1>0. TypeOK
    BY DEF SInv, IInv
  <1>F. ASSUME NEW s \in Steps, exec' = ExecAfterStepFailure(s), step' = [step EXCEPT ![s] = "FAILED"]
        PROVE  exec' = "FAILED" /\ step'[s] = "FAILED" /\ OnFailure[s] # "continue"
    BY <1>0, <1>F DEF ExecAfterStepFailure, TypeOK
  <1>1. CASE Reconcile
    BY <1>1 DEF Reconcile, Promote, PassStep, BeginPass, Advance, ReadPlan, ReadSteps,
       FailExecution, CompleteExecution, TerminateExecution, ReconcileCancel
  <1>2. ASSUME NEW s \in Steps, AuthorityExpires(s)
        PROVE  exec' = "FAILED" /\ AuthorityBound /\ step'[s] = "CANCELLED"
    BY <1>0, <1>2 DEF AuthorityExpires, TypeOK
  <1>3. ASSUME NEW s \in Steps, ClaimSkips(s) \/ ClaimStep(s)
        PROVE  exec' = "FAILED" /\ step'[s] = "FAILED" /\ OnFailure[s] # "continue"
    BY <1>3, <1>F DEF ClaimSkips, ClaimStep, ClaimRefused, ClaimNeedsApproval, Claim, TakeAttempt
  <1>4. CASE Cancel
    BY <1>4 DEF Cancel, RequestCancel, CancelCommit
  <1>5. CASE Dispatch
    <2>1. ASSUME NEW d \in Dispatchers, FailNonRetryable(d)
          PROVE  \E s \in Steps : exec' = "FAILED" /\ step'[s] = "FAILED" /\ OnFailure[s] # "continue"
      <3>1. PICK a \in Attempts : a = disp[d].inv /\ a[1] \in Steps
        BY <1>0, <2>1, BusyClaim, AttemptIsPair DEF FailNonRetryable
      <3>2. exec' = ExecAfterStepFailure(a[1]) /\ step' = [step EXCEPT ![a[1]] = "FAILED"]
        BY <2>1, <3>1 DEF FailNonRetryable, SettleRejectedStep
      <3> QED BY <1>F, <3>1, <3>2
    <2> QED
      BY <1>5, <2>1 DEF Dispatch, Lease, Invoke, MarkDispatched, ReturnToPending, CrashDispatcher, NotifyCancel
  <1>6. CASE Report
    <2>1. ASSUME NEW a \in Attempts, NEW p, Apply(a, p)
          PROVE  \E s \in Steps : exec' = "FAILED" /\ step'[s] = "FAILED" /\ OnFailure[s] # "continue"
      <3>1. a[1] \in Steps
        BY AttemptIsPair
      <3>2. PICK e : step' = [step EXCEPT ![a[1]] = StepOutcome(a, e)] /\ exec' = ExecOutcome(a, StepOutcome(a, e))
        BY <2>1 DEF Apply, Reject, Accept
      <3>3. StepOutcome(a, e) = "FAILED" /\ exec' = ExecAfterStepFailure(a[1])
        BY <3>2 DEF ExecOutcome
      <3> QED BY <1>F, <3>1, <3>2, <3>3
    <2> QED BY <1>6, <2>1 DEF Report, WorkerResult, DeadlineResult, SupervisionResult, AgentEvent
  <1>7. CASE Decision
    <2>1. ASSUME NEW a \in Attempts, FailWaiting(a)
          PROVE  \E s \in Steps : exec' = "FAILED" /\ step'[s] = "FAILED" /\ OnFailure[s] # "continue"
      BY <1>0, <2>1, AttemptIsPair DEF FailWaiting, TypeOK
    <2> QED
      BY <1>7, <2>1 DEF Decision, Approve, Resume, ApproveRefused, Deny, ExpireApproval,
         Propose, Activate, ApprovePatch, RefusePatch
  <1> QED BY <1>1, <1>2, <1>3, <1>4, <1>5, <1>6, <1>7 DEF Next, Schedule

\* Every transaction preserves what passes and ended executions rest on:
\* settled steps stand, so a decision taken from them stays justified.
LEMMA PassPreserved ==
  ASSUME ~RejectedWorkMayRun, SInv, PassInv, [Next]_vars PROVE PassInv'
PROOF
  <1>1. CASE UNCHANGED vars
    BY <1>1 DEF PassInv, StepCause, Cause, Plan, vars, stepVars, processVars, planVars
  <1>2. CASE Next
    <2>1. \A s \in Steps : Settled(s) => step'[s] = step[s]
      BY <1>2, StepNext DEF StepMove
    <2>2. \A s \in Steps : step[s] \in EndedStep => step'[s] = step[s]
      BY <2>1 DEF Settled, EndedStep
    <2>3. InitialPlan \subseteq Plan' /\ (Proposals = {} => Plan' = InitialPlan)
      BY <1>2, PlanGrows DEF SInv, PassInv
    <2>4. (\A s \in InitialPlan : step[s] \in EndedStep) => \A s \in InitialPlan : step'[s] \in EndedStep
      BY <2>2, PlanAssumption
    <2>5. StepCause => StepCause'
      BY <2>2 DEF StepCause, EndedStep
    <2>6. ASSUME NEW r \in Reconcilers
          PROVE  /\ recon'[r].pc = "readSteps" =>
                      InitialPlan \subseteq recon'[r].plan /\ (Proposals = {} => recon'[r].plan = InitialPlan)
                 /\ recon'[r].pc = "complete" => \A s \in InitialPlan : step'[s] \in EndedStep
                 /\ recon'[r].pc = "fail" /\ Proposals = {} => StepCause'
      <3>1. CASE recon'[r] = recon[r]
        BY <2>4, <2>5, <3>1 DEF PassInv
      <3>2. CASE recon'[r] = [pc |-> "readSteps", plan |-> Plan]
        BY <3>2 DEF PassInv
      <3>3. CASE \/ recon'[r].pc \notin {"readSteps", "fail", "complete"}
                 \/ /\ UNCHANGED step
                    /\ recon'[r].pc = "complete" => \A s \in InitialPlan : step[s] \in EndedStep
                    /\ recon'[r].pc = "fail" /\ Proposals = {} => StepCause
                    /\ recon'[r].pc # "readSteps"
        BY <2>5, <3>3
      <3> QED BY <1>2, <3>1, <3>2, <3>3, PassesMove
    <2>7. (exec = "COMPLETED" => \A s \in InitialPlan : step[s] \in EndedStep)'
      <3>1. CASE exec' = exec
        BY <2>4, <3>1 DEF PassInv
      <3>2. CASE exec' # exec
        BY <1>2, <3>2, ExecEnds DEF PassInv
      <3> QED BY <3>1, <3>2
    <2>8. (exec = "FAILED" /\ Proposals = {} => Cause)'
      <3> SUFFICES ASSUME exec' = "FAILED", Proposals = {} PROVE Cause'
        OBVIOUS
      <3>1. CASE exec' = exec
        <4>1. \A s \in Steps : step[s] = "CANCELLED" => step'[s] = step[s]
          BY <2>1, <3>1 DEF Settled
        <4> QED BY <2>5, <3>1, <4>1 DEF PassInv, Cause
      <3>2. CASE exec' # exec
        BY <1>2, <2>5, <3>2, ExecEnds DEF PassInv, Cause, StepCause
      <3> QED BY <3>1, <3>2
    <2> QED BY <2>3, <2>6, <2>7, <2>8 DEF PassInv
  <1> QED BY <1>1, <1>2

\* Passes and ended executions keep what they rest on in every reachable
\* state.
THEOREM PassInvariance ==
  ASSUME ~RejectedWorkMayRun PROVE Spec => []PassInv
PROOF
  <1>1. SInv /\ PassInv /\ [Next]_vars => PassInv'
    BY PassPreserved
  <1> QED BY <1>1, PassInit, StepInvariance, PTL DEF Spec

\* However patches race the pass that completes an execution, every step the
\* execution was started with has ended.
THEOREM InitialStepsEnd ==
  ASSUME ~RejectedWorkMayRun
  PROVE  Spec => [](exec = "COMPLETED" => \A s \in InitialPlan : step[s] \in EndedStep)
PROOF
  <1>1. PassInv => (exec = "COMPLETED" => \A s \in InitialPlan : step[s] \in EndedStep)
    BY DEF PassInv
  <1> QED BY <1>1, PassInvariance, PTL

\* Without patches, a completed execution has no step left to run.
THEOREM CompletedMeansAllTerminalHolds ==
  ASSUME ~RejectedWorkMayRun, Proposals = {} PROVE Spec => []CompletedMeansAllTerminal
PROOF
  <1>1. PassInv => CompletedMeansAllTerminal
    BY DEF PassInv, CompletedMeansAllTerminal, EndedStep, TerminalStep
  <1> QED BY <1>1, PassInvariance, PTL

\* Without patches, an execution fails only for a cause its pipeline
\* declares.
THEOREM FailureHasCauseHolds ==
  ASSUME ~RejectedWorkMayRun, Proposals = {} PROVE Spec => []FailureHasCause
PROOF
  <1>1. PassInv => FailureHasCause
    BY DEF PassInv, FailureHasCause, Cause, StepCause
  <1> QED BY <1>1, PassInvariance, PTL
=============================================================================
