---------------------------- MODULE BudgetLedger ----------------------------
(***************************************************************************)
(* The budget ledger: accounts in a hierarchy, reservations made for       *)
(* attempts before work is granted, settlement with the reported usage,    *)
(* release of unused authority, operator adjustments.                      *)
(*                                                                         *)
(* A ledger entry is append-only and only its signed amount is ever read,  *)
(* so an account carries the sum of its entries per dimension.  The calls  *)
(* run inside the transaction of their caller; a call that throws anything *)
(* but a BudgetError aborts it, which is a disabled action here.  The      *)
(* second half is delegation, whose child executions spend from the        *)
(* parents' accounts.                                                      *)
(***************************************************************************)
EXTENDS Integers, Sequences, FiniteSets, FiniteSetsExt, Functions

CONSTANTS
  Executions,         \* executions own one account each, named by them
  OperatorAccounts,   \* scopes an operator may open
  NoAccount,          \* the parent of a root account
  Dimensions,         \* the declared dimensions, in declaration order
  Work,               \* invocations
  OwnerOf,            \* the execution of an invocation
  StepBudget,         \* what an invocation must reserve, 0 for undeclared
  Ceilings,           \* grants an operator may declare
  Usages,             \* usage reports a result may carry
  Deltas,             \* corrections an operator may make
  ChainMaxDepth,
  AdjustLimit         \* bound on the corrections in a behaviour

Accounts == Executions \cup OperatorAccounts
Dims == {Dimensions[i] : i \in DOMAIN Dimensions}
Amounts == [Dims -> Nat]

ASSUME BudgetAssumption ==
  /\ IsFiniteSet(Accounts) /\ IsFiniteSet(Work)
  /\ Executions \cap OperatorAccounts = {} /\ NoAccount \notin Accounts
  /\ Dimensions \in Seq(Dims)
  /\ OwnerOf \in [Work -> Executions]
  /\ StepBudget \in [Work -> Amounts]
  /\ Ceilings \subseteq Amounts
  /\ Usages \subseteq Amounts
  /\ Deltas \subseteq Int
  /\ ChainMaxDepth \in Nat \ {0}
  /\ AdjustLimit \in Nat

VARIABLES
  account,   \* the accounts: whether open, the parent, the immutable grant
  ledger,    \* sum of the entries of an account, per dimension
  adjusted,  \* sum of the corrections addressed to the account itself
  plan,      \* the budget envelope frozen in an execution's plan
  resv,      \* reservation of an invocation in a dimension
  work       \* where the invocation stands

ledgerVars == <<account, ledger, adjusted, plan, resv, work>>

ReservationStatus == {"NONE", "ACTIVE", "COMMITTED", "RELEASED"}
NoReservation == [status |-> "NONE", amount |-> 0, committed |-> 0, released |-> 0]
Zero == [d \in Dims |-> 0]
Closed == [open |-> FALSE, parent |-> NoAccount, ceiling |-> Zero]
NoEnvelope == [parent |-> NoAccount, ceiling |-> Zero]

LedgerTypeOK ==
  /\ account \in [Accounts -> [open : BOOLEAN, parent : Accounts \cup {NoAccount}, ceiling : Amounts]]
  /\ ledger \in [Accounts -> [Dims -> Int]]
  /\ adjusted \in [Accounts -> [Dims -> Int]]
  /\ plan \in [Executions -> [parent : Accounts \cup {NoAccount}, ceiling : Amounts]]
  /\ resv \in [Work -> [Dims ->
       [status : ReservationStatus, amount : Nat, committed : Nat, released : Nat]]]
  /\ work \in [Work -> {"none", "waiting", "live", "refused", "ended"}]

LedgerInit ==
  /\ account = [a \in Accounts |-> Closed]
  /\ ledger = [a \in Accounts |-> Zero]
  /\ adjusted = [a \in Accounts |-> Zero]
  /\ resv = [w \in Work |-> [d \in Dims |-> NoReservation]]
  /\ work = [w \in Work |-> "none"]

-----------------------------------------------------------------------------
(***************************************************************************)
(* Accounts                                                                *)
(***************************************************************************)

\* A set of accounts that has the parents of its members.
HasParents(S) == \A b \in S : account[b].parent \in S \cup {NoAccount}

\* The account and its ancestors, which every transition locks: the least set
\* with the account that has the parents of its members.
Chain(a) == {b \in Accounts : \A S \in SUBSET Accounts : a \in S /\ HasParents(S) => b \in S}

Available(a, d) == account[a].ceiling[d] + ledger[a][d]

\* A child may not be granted more than its direct parent was.
ChildCeilingSubset(ceiling, p) ==
  p # NoAccount => \A d \in Dims : ceiling[d] <= account[p].ceiling[d]

OpenAccount(a, p, ceiling) ==
  account' = [account EXCEPT ![a] = [open |-> TRUE, parent |-> p, ceiling |-> ceiling]]

CreateAccount(a, p, ceiling) ==
  /\ ~account[a].open
  /\ p # NoAccount => account[p].open
  /\ \E d \in Dims : ceiling[d] > 0
  /\ ChildCeilingSubset(ceiling, p)
  /\ OpenAccount(a, p, ceiling)
  /\ UNCHANGED <<ledger, adjusted, plan, resv, work>>

\* The grant of an execution's account: the plan's envelope, or the budget of
\* the first step that needs one.
GrantOf(w) ==
  LET envelope == plan[OwnerOf[w]] IN
  IF envelope.ceiling = Zero THEN StepBudget[w] ELSE envelope.ceiling

\* ensureExecutionAccount finds the account or may create it.
AccountReady(w) ==
  LET e == OwnerOf[w] p == plan[e].parent IN
  \/ account[e].open
  \/ /\ p # NoAccount => account[p].open
     /\ ChildCeilingSubset(GrantOf(w), p)

EnsureExecutionAccount(w) ==
  LET e == OwnerOf[w] IN
  IF account[e].open THEN UNCHANGED account ELSE OpenAccount(e, plan[e].parent, GrantOf(w))

-----------------------------------------------------------------------------
(***************************************************************************)
(* Reservations                                                            *)
(***************************************************************************)

Declared(w) == {d \in Dims : StepBudget[w][d] > 0}

\* Mutant: ancestors are not asked.
SufficientHere(w, d) ==
  LET e == OwnerOf[w] IN
  (IF account[e].open THEN Available(e, d) ELSE GrantOf(w)[d]) >= StepBudget[w][d]

\* Availability of the chain as it will be once the account exists.
Sufficient(w, d) ==
  LET e == OwnerOf[w]
      own == IF account[e].open THEN Available(e, d) ELSE GrantOf(w)[d]
      above == IF account[e].open THEN Chain(e) \ {e}
               ELSE IF plan[e].parent = NoAccount THEN {} ELSE Chain(plan[e].parent)
  IN /\ own >= StepBudget[w][d]
     /\ Cardinality(above) < ChainMaxDepth
     /\ \A a \in above : Available(a, d) >= StepBudget[w][d]

Affordable(w) == AccountReady(w) /\ \A d \in Declared(w) : Sufficient(w, d)

\* reserveForAttempt reserves dimension by dimension and stops at the first
\* that is insufficient; what was reserved before stays.
ReservedDims(w) ==
  {d \in Declared(w) : AccountReady(w) /\
     \E i \in DOMAIN Dimensions : d = Dimensions[i] /\
       \A j \in 1 .. i : Dimensions[j] \in Declared(w) => Sufficient(w, Dimensions[j])}

\* One entry per account of the chain, for every dimension of the set.
WriteChainEntries(a, ds, sign, amount) ==
  ledger' = [b \in Accounts |->
    IF b \notin Chain(a)' THEN ledger[b]
    ELSE [d \in Dims |-> IF d \in ds THEN ledger[b][d] + sign * amount[d] ELSE ledger[b][d]]]

ReserveForAttempt(w) ==
  /\ IF AccountReady(w) THEN EnsureExecutionAccount(w) ELSE UNCHANGED account
  /\ WriteChainEntries(OwnerOf[w], ReservedDims(w), -1, StepBudget[w])
  /\ resv' = [resv EXCEPT ![w] = [d \in Dims |->
       IF d \in ReservedDims(w)
       THEN [status |-> "ACTIVE", amount |-> StepBudget[w][d], committed |-> 0, released |-> 0]
       ELSE @[d]]]
  /\ UNCHANGED <<adjusted, plan>>

\* The claim, or the approval of a waiting attempt, reserves and grants work;
\* a BudgetError becomes a failed attempt without work.
Grant(w) ==
  /\ Declared(w) # {}
  /\ ReserveForAttempt(w)
  /\ work' = [work EXCEPT ![w] = IF Affordable(w) THEN "live" ELSE "refused"]

ClaimWork(w) == work[w] = "none" /\ Grant(w)

HoldForApproval(w) ==
  /\ work[w] = "none"
  /\ work' = [work EXCEPT ![w] = "waiting"]
  /\ UNCHANGED <<account, ledger, adjusted, plan, resv>>

ResumeWork(w) == work[w] = "waiting" /\ Grant(w)

-----------------------------------------------------------------------------
(***************************************************************************)
(* Settlement                                                              *)
(***************************************************************************)

LeastOf(m, n) == IF m < n THEN m ELSE n

\* Reported dimensions with a reservation; the others stay consumed.
Reported(w, usage) == {d \in Dims : usage[d] > 0 /\ resv[w][d].status # "NONE"}

\* The first result that settles the attempt commits what was used, at most
\* what was reserved, and releases the rest.  A reservation that is no longer
\* ACTIVE makes commit throw and aborts the result's transaction.
ReconcileTerminal(w, usage) ==
  LET settled == Reported(w, usage)
      spent == [d \in Dims |-> LeastOf(usage[d], resv[w][d].amount)]
      unused == [d \in Dims |-> resv[w][d].amount - spent[d]]
  IN /\ \A d \in settled : resv[w][d].status = "ACTIVE"
     /\ resv' = [resv EXCEPT ![w] = [d \in Dims |->
          IF d \notin settled THEN @[d]
          ELSE [@[d] EXCEPT !.status = IF unused[d] > 0 THEN "RELEASED" ELSE "COMMITTED",
                            !.committed = spent[d], !.released = unused[d]]]]
     /\ WriteChainEntries(OwnerOf[w], settled, 1, unused)

SettleWork(w, usage) ==
  /\ work[w] = "live"
  /\ UNCHANGED <<account, adjusted, plan>>
  /\ ReconcileTerminal(w, usage)
  /\ work' = [work EXCEPT ![w] = "ended"]

\* Releases everything an invocation that will never complete has reserved,
\* for all invocations of one transaction.
ReleaseForAction(ws) ==
  LET held(w) == {d \in Dims : resv[w][d].status # "NONE"}
      back(a, d) == SumFunctionOnSet([w \in Work |-> resv[w][d].amount],
                      {w \in ws : d \in held(w) /\ a \in Chain(OwnerOf[w])})
  IN /\ \A w \in ws : \A d \in held(w) : resv[w][d].status \in {"ACTIVE", "COMMITTED"}
                                         /\ resv[w][d].committed = 0
     /\ resv' = [w \in Work |-> IF w \notin ws THEN resv[w]
                 ELSE [d \in Dims |-> IF d \notin held(w) THEN resv[w][d]
                       ELSE [resv[w][d] EXCEPT !.status = "RELEASED", !.released = resv[w][d].amount]]]
     /\ ledger' = [a \in Accounts |-> [d \in Dims |-> ledger[a][d] + back(a, d)]]

\* A permanent dispatch rejection fails the attempt and releases it.
RejectWork(w) ==
  /\ work[w] = "live"
  /\ ReleaseForAction({w})
  /\ work' = [work EXCEPT ![w] = "ended"]
  /\ UNCHANGED <<account, adjusted, plan>>

\* Cancelling an execution retires its live and waiting attempts.
CancelWork(e) ==
  LET ws == {w \in Work : OwnerOf[w] = e /\ work[w] \in {"live", "waiting"}} IN
  /\ ReleaseForAction(ws)
  /\ work' = [w \in Work |-> IF w \in ws THEN "ended" ELSE work[w]]
  /\ UNCHANGED <<account, adjusted, plan>>

Magnitude(n) == IF n < 0 THEN -n ELSE n
Corrections == SumFunction([k \in Accounts \X Dims |-> Magnitude(adjusted[k[1]][k[2]])])

\* An operator corrects one account; every ancestor carries the opposite sign.
Adjust(a, d, delta) ==
  LET signed(b) == IF b = a THEN delta ELSE -delta IN
  /\ account[a].open
  /\ Corrections < AdjustLimit
  /\ \A b \in Chain(a) : Available(b, d) + signed(b) >= 0
  /\ ledger' = [b \in Accounts |->
       IF b \in Chain(a) THEN [ledger[b] EXCEPT ![d] = @ + signed(b)] ELSE ledger[b]]
  /\ adjusted' = [adjusted EXCEPT ![a][d] = @ + delta]
  /\ UNCHANGED <<account, plan, resv, work>>

-----------------------------------------------------------------------------
(***************************************************************************)
(* Properties                                                              *)
(***************************************************************************)

Outstanding(w, d) == resv[w][d].amount - resv[w][d].released

\* What the ledger of an account says is exactly what the invocations at and
\* below it still hold, apart from operator corrections: no entry is lost,
\* doubled or written to part of a chain.
LedgerExplained ==
  LET chain == [a \in Accounts |-> Chain(a)] IN
  \A a \in Accounts, d \in Dims :
    ledger[a][d] =
      SumFunctionOnSet([b \in Accounts |-> IF b = a THEN adjusted[b][d] ELSE -adjusted[b][d]],
                       {b \in Accounts : a \in chain[b]})
      - SumFunctionOnSet([w \in Work |-> Outstanding(w, d)], {w \in Work : a \in chain[OwnerOf[w]]})

\* No account of a chain is ever overdrawn, however reservations of sibling
\* executions, settlements and corrections interleave.
NeverOverdrawn == \A a \in Accounts, d \in Dims : Available(a, d) >= 0

\* Work is live only with an ACTIVE reservation of its full budget in every
\* declared dimension; so neither its result nor its cancellation can be
\* aborted by the ledger.
LiveWorkIsReserved ==
  \A w \in Work : work[w] = "live" => \A d \in Declared(w) :
    resv[w][d].status = "ACTIVE" /\ resv[w][d].amount = StepBudget[w][d]

\* Usage that was reported stays consumed: a release never refunds work done.
CommittedIsNeverRefunded ==
  \A w \in Work, d \in Dims : resv[w][d].committed <= Outstanding(w, d)

\* A failed reservation rolls back together with its entries: an attempt that
\* was refused work holds no budget.
RefusedWorkHoldsNothing ==
  \A w \in Work, d \in Dims : work[w] = "refused" => Outstanding(w, d) = 0

\* No path mints availability: an account that no operator corrected never
\* carries more than it was granted.
NothingIsMinted ==
  \A a \in Accounts, d \in Dims :
    account[a].open => Available(a, d) <= account[a].ceiling[d] + adjusted[a][d]

-----------------------------------------------------------------------------
(***************************************************************************)
(* Supervised delegation: an attempt asks for a child execution, an        *)
(* operator decides, the child runs under its parent's budget, and the     *)
(* recovery cycle cancels what a cancelled parent left behind.             *)
(***************************************************************************)
CONSTANTS
  Root,            \* the execution that was not delegated
  Requests,        \* delegation requests
  RequestedBy,     \* the attempt that makes a request
  Child,           \* the execution a request materializes
  RootEnvelope,    \* the budget envelope of the root's plan
  MaxDepth,        \* DELEGATION_BOUNDS.maxDepth, or the run's lower limit
  MaxRequests      \* DELEGATION_BOUNDS.maxRequestsPerAttempt

ASSUME DelegationAssumption ==
  /\ Root \in Executions
  /\ RequestedBy \in [Requests -> Work]
  /\ Child \in [Requests -> Executions \ {Root}]
  /\ RootEnvelope \in [parent : Accounts \cup {NoAccount}, ceiling : Amounts]
  /\ {MaxDepth, MaxRequests} \subseteq Nat \ {0}

VARIABLES
  exec,      \* status of an execution, NONE before it is materialized
  request    \* status and depth of a delegation request

requestVars == <<exec, request>>
delegationVars == <<ledgerVars, requestVars>>

Ended == {"COMPLETED", "FAILED", "CANCELLED"}
LiveRequest == {"PENDING", "APPROVED"}
Parent(r) == OwnerOf[RequestedBy[r]]

DelegationTypeOK ==
  /\ LedgerTypeOK
  /\ exec \in [Executions -> {"NONE", "RUNNING"} \cup Ended]
  /\ request \in [Requests ->
       [status : {"NONE", "REJECTED", "EXPIRED"} \cup LiveRequest, depth : 0 .. MaxDepth]]

DelegationInit ==
  /\ LedgerInit
  /\ plan = [e \in Executions |-> IF e = Root THEN RootEnvelope ELSE NoEnvelope]
  /\ exec = [e \in Executions |-> IF e = Root THEN "RUNNING" ELSE "NONE"]
  /\ request = [r \in Requests |-> [status |-> "NONE", depth |-> 0]]

-----------------------------------------------------------------------------
\* The depth of an execution comes from the request that created it, never
\* from the runtime.
ParentDepth(e) ==
  Max({0} \cup {request[r].depth : r \in {q \in Requests : request[q].status = "APPROVED" /\ Child[q] = e}})

\* Only live requests consume the fanout of an attempt.
Fanout(w) == Cardinality({r \in Requests : RequestedBy[r] = w /\ request[r].status \in LiveRequest})

RequestDelegation(r) ==
  /\ request[r].status = "NONE"
  /\ work[RequestedBy[r]] # "none"
  /\ Fanout(RequestedBy[r]) < MaxRequests
  /\ ParentDepth(Parent(r)) + 1 <= MaxDepth
  /\ request' = [request EXCEPT ![r] =
       [status |-> "PENDING", depth |-> ParentDepth(Parent(r)) + 1]]
  /\ UNCHANGED <<ledgerVars, exec>>

Decide(r, status) ==
  /\ request[r].status = "PENDING"
  /\ request' = [request EXCEPT ![r].status = status]

\* The child's grant must be within the grant of the parent's account; a
\* budgeted child needs a grant of its own.
BudgetSubset(r, ceiling) ==
  /\ ceiling = Zero => \A w \in Work : OwnerOf[w] = Child[r] => Declared(w) = {}
  /\ ceiling # Zero => /\ account[Parent(r)].open
                       /\ \A d \in Dims : ceiling[d] <= account[Parent(r)].ceiling[d]

\* The operator approves: the child materializes with the decision, its
\* budget envelope tied to the parent's account.
ApproveDelegation(r, ceiling) ==
  /\ exec[Child[r]] = "NONE"
  /\ BudgetSubset(r, ceiling)
  /\ Decide(r, "APPROVED")
  /\ exec' = [exec EXCEPT ![Child[r]] = "RUNNING"]
  /\ plan' = [plan EXCEPT ![Child[r]] =
       IF ceiling = Zero THEN NoEnvelope ELSE [parent |-> Parent(r), ceiling |-> ceiling]]
  /\ UNCHANGED <<account, ledger, adjusted, resv, work>>

\* The operator rejects; or the approval meets a policy denial or a grant
\* that is not a subset.
RejectDelegation(r) == Decide(r, "REJECTED") /\ UNCHANGED <<ledgerVars, exec>>

\* The sweep, or an approval that comes too late, expires a request.
ExpireDelegation(r) == Decide(r, "EXPIRED") /\ UNCHANGED <<ledgerVars, exec>>

-----------------------------------------------------------------------------
CancelExecution(e) ==
  /\ exec[e] = "RUNNING"
  /\ CancelWork(e)
  /\ exec' = [exec EXCEPT ![e] = "CANCELLED"]
  /\ UNCHANGED request

\* The children the recovery cycle looks for.
Orphaned(r) ==
  /\ request[r].status = "APPROVED"
  /\ exec[Parent(r)] = "CANCELLED"

CancelOrphan(r) == Orphaned(r) /\ CancelExecution(Child[r])

EndExecution(e, status) ==
  /\ exec[e] = "RUNNING"
  /\ status = "COMPLETED" => \A w \in Work : OwnerOf[w] = e => work[w] \notin {"live", "waiting"}
  /\ exec' = [exec EXCEPT ![e] = status]
  /\ UNCHANGED <<ledgerVars, request>>

Spend(w) ==
  \/ exec[OwnerOf[w]] = "RUNNING" /\ (ClaimWork(w) \/ HoldForApproval(w))
  \/ ResumeWork(w)
  \/ \E usage \in Usages : SettleWork(w, usage)
  \/ RejectWork(w)

Operate ==
  \/ \E a \in OperatorAccounts, p \in OperatorAccounts \cup {NoAccount}, c \in Ceilings :
       CreateAccount(a, p, c)
  \/ \E a \in Accounts, d \in Dims, delta \in Deltas : Adjust(a, d, delta)

Delegate(r) ==
  \/ RequestDelegation(r)
  \/ \E c \in Ceilings \cup {Zero} : ApproveDelegation(r, c)
  \/ RejectDelegation(r)
  \/ ExpireDelegation(r)
  \/ CancelOrphan(r)

DelegationNext ==
  \/ (\E w \in Work : Spend(w)) /\ UNCHANGED requestVars
  \/ Operate /\ UNCHANGED requestVars
  \/ \E r \in Requests : Delegate(r)
  \/ \E e \in Executions : CancelExecution(e)
  \/ \E e \in Executions, status \in {"COMPLETED", "FAILED"} : EndExecution(e, status)

DelegationSpec == DelegationInit /\ [][DelegationNext]_delegationVars

-----------------------------------------------------------------------------
\* Below a root execution there are never more than MaxDepth generations, and
\* an attempt has at most MaxRequests live requests.
DelegationIsBounded ==
  /\ \A r \in Requests : request[r].status = "APPROVED" =>
       /\ Parent(r) = Root \/ \E q \in Requests :
            request[q].status = "APPROVED" /\ Child[q] = Parent(r) /\ request[q].depth = request[r].depth - 1
       /\ request[r].depth <= MaxDepth
  /\ \A w \in Work : Cardinality({r \in Requests : RequestedBy[r] = w /\ request[r].status \in LiveRequest})
                       <= MaxRequests

\* Whatever a child execution spends is also charged to its parent.
ChildSpendsItsParentsBudget ==
  \A r \in Requests : request[r].status = "APPROVED" /\ account[Child[r]].open =>
    /\ Parent(r) \in Chain(Child[r])
    /\ \A d \in Dims : account[Child[r]].ceiling[d] <= account[Parent(r)].ceiling[d]

\* A cancelled parent leaves no runnable descendant behind.
NoRunnableOrphan ==
  \A r \in Requests :
    (request[r].status = "APPROVED" /\ exec[Parent(r)] = "CANCELLED") ~> (exec[Child[r]] \in Ended)
=============================================================================
