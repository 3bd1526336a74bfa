---------------------------- MODULE Coordination ----------------------------
(***************************************************************************)
(* The supervised team loop of one execution: a planner proposes a batch   *)
(* of tasks, the batch becomes workers and a verifier through a plan       *)
(* revision, the verifier's decision ends the loop or opens the next       *)
(* iteration.                                                              *)
(*                                                                         *)
(* A reconciler reads the run, the execution and the steps without a lock  *)
(* and then commits one decision under the run's row lock, so whatever it  *)
(* read may be stale by then.  The generic engine (claims, results, the    *)
(* failure policies) is reduced to what the loop observes of it.           *)
(***************************************************************************)
EXTENDS Integers, FiniteSets

CONSTANTS
  Replicas,     \* concurrent reconcilers
  Tasks,        \* task ids a planner may propose
  Batches,      \* the task sets of its proposals
  Required,     \* tasks whose failure fails the run
  Retried,      \* tasks with a retry
  Gates,        \* what policy may say: does activating a batch need an approval?
  MaxIterations, MaxPerIteration, MaxTotalWorkers,
  MaxPatchSteps,  \* PLAN_PATCH_BOUNDS.maxOperations
  LoopRevLimit  \* bound on plan revisions

Iterations == 1 .. MaxIterations

ASSUME CoordinationAssumption ==
  /\ Required \subseteq Tasks
  /\ Retried \subseteq Tasks
  /\ Batches \subseteq (SUBSET Tasks) \ {{}}
  /\ \A batch \in Batches : IsFiniteSet(batch)
  /\ Gates \subseteq BOOLEAN
  /\ {MaxIterations, MaxPerIteration, MaxTotalWorkers, MaxPatchSteps, LoopRevLimit} \subseteq Nat \ {0}

VARIABLES
  phase,      \* phase of the run, NONE before it is started
  cur,        \* currentIterationNumber
  spent,      \* cumulativeWorkers
  manifest,   \* the tasks bound to an iteration
  decided,    \* the decision an iteration consumed
  teamExec,   \* status of the execution
  teamRev,    \* number of the active plan revision
  planner,    \* planner step of an iteration and what its attempt reported
  worker,     \* worker steps of an iteration
  verifier,   \* verifier step of an iteration and its decision
  batchPlan,  \* plan proposal of an iteration's batch
  limits,     \* which authorities are gone: deadline, budget, connections
  gated,      \* the answer of the policy frozen with the execution
  replica     \* what a reconciler has read and is about to do

runVars == <<phase, cur, spent, manifest, decided>>
engineVars == <<teamExec, teamRev, planner, worker, verifier, batchPlan>>
limitVars == <<limits, gated>>
coordVars == <<runVars, engineVars, limitVars, replica>>

Phases == {"NONE", "PLANNING", "BATCH_VALIDATION", "WORKING", "VERIFYING", "DECIDING",
           "WAITING_FOR_HUMAN", "ACCEPTED", "FAILED", "CANCELLED", "LIMIT_REACHED"}
TerminalPhase == {"ACCEPTED", "FAILED", "CANCELLED", "LIMIT_REACHED"}
LivePhase == Phases \ (TerminalPhase \cup {"NONE"})
Actions == {"ACCEPT", "CONTINUE", "FAIL", "WAIT_FOR_HUMAN"}

\* A worker is claimed once, or twice when its task has a retry.
WorkerStatus == {"none", "first", "RETRYING", "second", "SUCCESS", "FAILED", "TIMED_OUT"}
WorkerDone == {"SUCCESS", "FAILED", "TIMED_OUT"}

NoPlanner == [step |-> "none", base |-> 0, frozen |-> 0, valid |-> FALSE, tasks |-> {}]
NoVerifier == [step |-> "none", action |-> "NONE", names |-> 0]
IdleReplica == [pc |-> "idle", n |-> 0, event |-> "none", seen |-> [t \in Tasks |-> "unread"]]

CoordTypeOK ==
  /\ phase \in Phases
  /\ cur \in 0 .. MaxIterations
  /\ spent \in 0 .. MaxTotalWorkers
  /\ manifest \in [Iterations -> SUBSET Tasks]
  /\ decided \in [Iterations -> Actions \cup {"NONE"}]
  /\ teamExec \in {"RUNNING", "COMPLETED", "FAILED", "CANCELLED"}
  /\ teamRev \in 1 .. LoopRevLimit
  /\ planner \in [Iterations -> [step : {"none", "ready", "running", "SUCCESS", "FAILED"},
       base : 0 .. LoopRevLimit + 1, frozen : 0 .. LoopRevLimit, valid : BOOLEAN, tasks : SUBSET Tasks]]
  /\ worker \in [Iterations -> [Tasks -> WorkerStatus]]
  /\ verifier \in [Iterations -> [step : {"none", "ready", "running", "SUCCESS", "FAILED"},
       action : Actions \cup {"NONE", "INVALID"}, names : 0 .. MaxIterations]]
  /\ batchPlan \in [Iterations -> {"none", "PENDING", "ACCEPTED", "REJECTED", "STALE"}]
  /\ limits \subseteq {"deadline", "budget", "connection"} /\ gated \in BOOLEAN
  /\ \A r \in Replicas : replica[r].n \in 0 .. MaxIterations

CoordInit ==
  /\ phase = "NONE" /\ cur = 0 /\ spent = 0
  /\ manifest = [i \in Iterations |-> {}]
  /\ decided = [i \in Iterations |-> "NONE"]
  /\ teamExec = "RUNNING" /\ teamRev = 1
  /\ planner = [i \in Iterations |-> NoPlanner]
  /\ worker = [i \in Iterations |-> [t \in Tasks |-> "none"]]
  /\ verifier = [i \in Iterations |-> NoVerifier]
  /\ batchPlan = [i \in Iterations |-> "none"]
  /\ limits = {} /\ gated \in Gates
  /\ replica = [r \in Replicas |-> IdleReplica]

-----------------------------------------------------------------------------
(***************************************************************************)
(* The phase machine                                                       *)
(***************************************************************************)

AnyLive == {"fail", "deadline", "cancel", "limitReached"}

TransitionFrom(event) ==
  CASE event = "workersFinished" -> {"WORKING"}
    [] event = "verifierProposed" -> {"VERIFYING"}
    [] event \in {"accept", "continue", "wait"} -> {"DECIDING"}
    [] event \in {"approvalGranted", "approvalDenied"} -> {"WAITING_FOR_HUMAN"}
    [] event \in AnyLive -> LivePhase

EventPhase(event) ==
  CASE event = "workersFinished" -> "VERIFYING"
    [] event = "accept" -> "ACCEPTED"
    [] event = "continue" -> "PLANNING"
    [] event \in {"fail", "approvalDenied"} -> "FAILED"
    [] event = "wait" -> "WAITING_FOR_HUMAN"
    [] event \in {"deadline", "limitReached"} -> "LIMIT_REACHED"
    [] event = "cancel" -> "CANCELLED"

\* Terminal phases absorb every event; an illegal event throws, which leaves
\* the phase as it is.
ApplyPhaseTransition(p, event) ==
  IF p \notin TerminalPhase /\ p \in TransitionFrom(event) THEN EventPhase(event) ELSE p

-----------------------------------------------------------------------------
(***************************************************************************)
(* The run                                                                 *)
(***************************************************************************)

\* startRunWithManager and the first iteration, in the caller's transaction.
StartRun ==
  /\ phase = "NONE"
  /\ "connection" \notin limits
  /\ phase' = "PLANNING" /\ cur' = 1
  /\ UNCHANGED <<spent, manifest, decided, engineVars, limitVars, replica>>

Exhausted == {"deadline", "budget"} \cap limits # {}

ContinueAllowed(i) == i < MaxIterations /\ spent + 1 <= MaxTotalWorkers

\* CONTINUE, or an approved wait: every authority is asked again.
OpenNextIteration(i) ==
  IF ContinueAllowed(i) /\ limits = {}
  THEN phase' = "PLANNING" /\ cur' = cur + 1
  ELSE phase' = "LIMIT_REACHED" /\ UNCHANGED cur

ResolveWait(approve) ==
  /\ phase = "WAITING_FOR_HUMAN"
  /\ IF approve THEN OpenNextIteration(cur)
     ELSE phase' = ApplyPhaseTransition(phase, "approvalDenied") /\ UNCHANGED cur
  /\ UNCHANGED <<spent, manifest, decided, engineVars, limitVars, replica>>

-----------------------------------------------------------------------------
(***************************************************************************)
(* Reconciliation: reading                                                 *)
(***************************************************************************)

ReplicaGoto(r, pc) == replica' = [replica EXCEPT ![r].pc = pc]
Rest(r) == replica' = [replica EXCEPT ![r] = IdleReplica]
Raise(r, event) == replica' = [replica EXCEPT ![r].pc = "transition", ![r].event = event]

\* Mutant: the deadline is only asked for while planning.
ExpiredPlanning == "deadline" \in limits /\ phase = "PLANNING"

DeadlineExceeded == "deadline" \in limits

\* The run row and the execution row.
Observe(r) ==
  /\ replica[r].pc = "idle"
  /\ phase \in LivePhase
  /\ replica' = [replica EXCEPT ![r] =
       LET next(pc, event) == [IdleReplica EXCEPT !.pc = pc, !.n = cur, !.event = event] IN
       CASE teamExec = "CANCELLED" -> next("transition", "cancel")
         [] teamExec = "FAILED" -> next("transition", "fail")
         [] teamExec = "COMPLETED" -> IdleReplica
         [] teamExec = "RUNNING" /\ DeadlineExceeded -> next("transition", "deadline")
         [] OTHER -> next(CASE phase = "PLANNING" -> "planning"
                            [] phase = "WORKING" -> "working"
                            [] phase = "VERIFYING" -> "verifying"
                            [] OTHER -> "idle", "none")]
  /\ UNCHANGED <<runVars, engineVars, limitVars>>

ReadPlanner(r) ==
  LET step == planner[replica[r].n].step IN
  /\ replica[r].pc = "planning"
  /\ CASE step = "none" -> ReplicaGoto(r, "create")
       [] step \in {"ready", "running"} -> Rest(r)
       [] step = "FAILED" -> Raise(r, "fail")
       [] step = "SUCCESS" -> ReplicaGoto(r, "submit")
  /\ UNCHANGED <<runVars, engineVars, limitVars>>

\* Fan-in reads, worker by worker, the step row and then its latest attempt.
ReadWorkerStep(r, t) ==
  /\ replica[r].pc = "working"
  /\ t \in manifest[replica[r].n] /\ replica[r].seen[t] = "unread"
  /\ \A u \in Tasks : replica[r].seen[u] # "stepRead"
  /\ replica' = [replica EXCEPT ![r].seen[t] =
       IF worker[replica[r].n][t] = "RETRYING" THEN "RUNNING" ELSE "stepRead"]
  /\ UNCHANGED <<runVars, engineVars, limitVars>>

LatestAttempt(w) ==
  CASE w \in WorkerDone -> w
    [] w = "RETRYING" -> "FAILED"
    [] OTHER -> "CREATED"

ReadWorkerAttempt(r, t) ==
  /\ replica[r].seen[t] = "stepRead"
  /\ replica' = [replica EXCEPT ![r].seen[t] = LatestAttempt(worker[replica[r].n][t])]
  /\ UNCHANGED <<runVars, engineVars, limitVars>>

JudgeWorkers(r) ==
  LET members == manifest[replica[r].n] seen == replica[r].seen IN
  /\ replica[r].pc = "working"
  /\ \A t \in members : seen[t] \notin {"unread", "stepRead"}
  /\ IF \E t \in members \cap Required : seen[t] = "FAILED" THEN Raise(r, "fail")
     ELSE IF \A t \in members : seen[t] \in WorkerDone THEN Raise(r, "workersFinished")
     ELSE Rest(r)
  /\ UNCHANGED <<runVars, engineVars, limitVars>>

ReadVerifier(r) ==
  LET step == verifier[replica[r].n].step IN
  /\ replica[r].pc = "verifying"
  /\ CASE step \in {"none", "ready", "running"} -> Rest(r)
       [] step = "FAILED" -> Raise(r, "fail")
       [] step = "SUCCESS" -> ReplicaGoto(r, IF verifier[replica[r].n].action = "INVALID" THEN "abandon" ELSE "consume")
  /\ UNCHANGED <<runVars, engineVars, limitVars>>

-----------------------------------------------------------------------------
(***************************************************************************)
(* Reconciliation: committing under the run lock                           *)
(***************************************************************************)

TransitionRun(r) ==
  /\ replica[r].pc = "transition"
  /\ phase' = ApplyPhaseTransition(phase, replica[r].event)
  /\ Rest(r)
  /\ UNCHANGED <<cur, spent, manifest, decided, engineVars, limitVars>>

FailExecution == teamExec' = IF teamExec = "RUNNING" THEN "FAILED" ELSE teamExec

\* failRunAndExecution, after the transaction that threw was rolled back.
FailRunAndExecution(r) ==
  /\ replica[r].pc = "abandon"
  /\ phase' = ApplyPhaseTransition(phase, "fail")
  /\ FailExecution
  /\ Rest(r)
  /\ UNCHANGED <<cur, spent, manifest, decided, teamRev, planner, worker, verifier, batchPlan, limitVars>>

\* createPlannerStep: idempotent, and activated on the revision it creates.
CreatePlannerStep(r) ==
  /\ replica[r].pc = "create"
  /\ IF phase = "PLANNING" /\ planner[cur].step = "none" /\ teamExec = "RUNNING"
          /\ "connection" \notin limits /\ teamRev < LoopRevLimit
     THEN /\ teamRev' = teamRev + 1
          /\ planner' = [planner EXCEPT ![cur].step = "ready", ![cur].base = teamRev + 1]
     ELSE UNCHANGED <<teamRev, planner>>
  /\ Rest(r)
  /\ UNCHANGED <<runVars, teamExec, worker, verifier, batchPlan, limitVars>>

\* validateTaskBatchProposal: identity, hard bounds, allowlists.
Admissible(i) ==
  /\ planner[i].valid
  /\ Cardinality(planner[i].tasks) <= MaxPerIteration
  /\ spent + Cardinality(planner[i].tasks) <= MaxTotalWorkers

\* The batch names the revision its planner was frozen on, and that revision
\* is still the active one.
OnItsBase(i) == planner[i].base = planner[i].frozen /\ teamRev = planner[i].base

\* parsePlanPatch: the tasks and the verifier are operations of one patch.
PatchParses(i) == Cardinality(planner[i].tasks) + 1 <= MaxPatchSteps

\* The patch adds the tasks and the verifier; step ids must be new.
AddsNewSteps(i) == \A j \in Iterations : \A t \in planner[i].tasks : worker[j][t] = "none"

ActivateBatch(i) ==
  /\ teamRev' = teamRev + 1
  /\ batchPlan' = [batchPlan EXCEPT ![i] = "ACCEPTED"]
  /\ worker' = [worker EXCEPT ![i] = [t \in Tasks |-> IF t \in planner[i].tasks THEN "first" ELSE @[t]]]
  /\ verifier' = [verifier EXCEPT ![i].step = "ready"]

\* Mutant: the count is of the last batch, not cumulative.
CountsLastBatch(i) ==
  /\ manifest' = [manifest EXCEPT ![i] = planner[i].tasks]
  /\ spent' = Cardinality(planner[i].tasks)
  /\ phase' = "WORKING"
  /\ UNCHANGED <<cur, decided>>

BindIteration(i) ==
  /\ manifest' = [manifest EXCEPT ![i] = planner[i].tasks]
  /\ spent' = spent + Cardinality(planner[i].tasks)
  /\ phase' = "WORKING"
  /\ UNCHANGED <<cur, decided>>

\* failStaleBatch: run and execution fail in the transaction that refused.
FailStaleBatch ==
  /\ phase' = "FAILED"
  /\ FailExecution
  /\ UNCHANGED <<cur, spent, manifest, decided, teamRev, planner, worker, verifier>>

\* submitIterationBatch.
SubmitIterationBatch(r) ==
  LET i == replica[r].n
      current == phase = "PLANNING" /\ cur = i
  IN
  /\ replica[r].pc = "submit"
  /\ UNCHANGED limitVars
  /\ \/ \* a wrong phase or iteration, an inadmissible batch, a revoked connection: it throws
        /\ ~current \/ ~Admissible(i) \/ (~Exhausted /\ "connection" \in limits)
        /\ ReplicaGoto(r, "abandon")
        /\ UNCHANGED <<runVars, engineVars>>
     \/ /\ current /\ Admissible(i) /\ Exhausted
        /\ Rest(r)
        /\ phase' = "LIMIT_REACHED"
        /\ UNCHANGED <<cur, spent, manifest, decided, engineVars>>
     \/ /\ current /\ Admissible(i) /\ limits = {}
        /\ Rest(r)
        /\ IF ~OnItsBase(i) THEN FailStaleBatch /\ UNCHANGED batchPlan
           ELSE IF ~PatchParses(i) THEN UNCHANGED <<runVars, engineVars>>  \* PlanPatchError: thrown again on every tick
           ELSE IF batchPlan[i] = "REJECTED" THEN FailStaleBatch /\ UNCHANGED batchPlan
           ELSE IF teamExec # "RUNNING"
             THEN FailStaleBatch /\ batchPlan' = [batchPlan EXCEPT ![i] = "STALE"]
           ELSE IF ~AddsNewSteps(i)
             THEN FailStaleBatch /\ batchPlan' = [batchPlan EXCEPT ![i] = "REJECTED"]
           ELSE IF gated
             THEN /\ batchPlan' = [batchPlan EXCEPT ![i] = "PENDING"]
                  /\ UNCHANGED <<runVars, teamExec, teamRev, planner, worker, verifier>>
           ELSE teamRev < LoopRevLimit /\ ActivateBatch(i) /\ BindIteration(i) /\ UNCHANGED <<teamExec, planner>>

\* Mutant: a decision is applied although the iteration has consumed one.
ConsumesAnything(k) == k <= cur /\ phase = "VERIFYING"

\* consumeDecision: once per iteration, from VERIFYING only.
Consumes(k) == k <= cur /\ decided[k] = "NONE" /\ phase = "VERIFYING"

ConsumeDecision(r) ==
  LET d == verifier[replica[r].n] k == d.names IN
  /\ replica[r].pc = "consume"
  /\ Rest(r)
  /\ IF ~Consumes(k) THEN UNCHANGED runVars
     ELSE /\ decided' = [decided EXCEPT ![k] = d.action]
          /\ CASE d.action = "ACCEPT" -> phase' = "ACCEPTED" /\ UNCHANGED cur
               [] d.action = "FAIL" -> phase' = "FAILED" /\ UNCHANGED cur
               [] d.action = "WAIT_FOR_HUMAN" -> phase' = "WAITING_FOR_HUMAN" /\ UNCHANGED cur
               [] d.action = "CONTINUE" -> OpenNextIteration(k)
          /\ UNCHANGED <<spent, manifest>>
  /\ UNCHANGED <<engineVars, limitVars>>

-----------------------------------------------------------------------------
(***************************************************************************)
(* The engine and the runtimes                                             *)
(***************************************************************************)

ClaimPlanner(i) ==
  /\ teamExec = "RUNNING" /\ planner[i].step = "ready"
  /\ planner' = [planner EXCEPT ![i].step = "running", ![i].frozen = teamRev]
  /\ UNCHANGED <<runVars, teamExec, teamRev, worker, verifier, batchPlan, limitVars, replica>>

\* A planner reports a batch: the revision it names is its own business, and
\* the batch may be malformed or outside the allowlists.
FinishPlanner(i, tasks, valid, base) ==
  /\ teamExec = "RUNNING" /\ planner[i].step = "running"
  /\ planner' = [planner EXCEPT ![i].step = "SUCCESS", ![i].valid = valid, ![i].tasks = tasks, ![i].base = base]
  /\ UNCHANGED <<runVars, teamExec, teamRev, worker, verifier, batchPlan, limitVars, replica>>

\* Planner and verifier steps have the policy stop.
FailPlanner(i) ==
  /\ teamExec = "RUNNING" /\ planner[i].step = "running"
  /\ planner' = [planner EXCEPT ![i].step = "FAILED"]
  /\ teamExec' = "FAILED"
  /\ UNCHANGED <<runVars, teamRev, worker, verifier, batchPlan, limitVars, replica>>

RunWorker(i, t, status) ==
  /\ teamExec = "RUNNING"
  /\ \/ worker[i][t] \in {"first", "second"} /\ status = "SUCCESS"
     \/ worker[i][t] = "first" /\ t \in Retried /\ status = "RETRYING"
     \/ worker[i][t] = "RETRYING" /\ status = "second"
     \/ /\ worker[i][t] = "second" \/ (worker[i][t] = "first" /\ t \notin Retried)
        /\ status \in {"FAILED", "TIMED_OUT"}
  /\ worker' = [worker EXCEPT ![i][t] = status]
  /\ teamExec' = IF status \in {"FAILED", "TIMED_OUT"} /\ t \in Required THEN "FAILED" ELSE teamExec
  /\ UNCHANGED <<runVars, teamRev, planner, verifier, batchPlan, limitVars, replica>>

\* The verifier step depends on every member of the batch.
ClaimVerifier(i) ==
  /\ teamExec = "RUNNING" /\ verifier[i].step = "ready"
  /\ \A t \in planner[i].tasks : worker[i][t] \in WorkerDone
  /\ verifier' = [verifier EXCEPT ![i].step = "running"]
  /\ UNCHANGED <<runVars, teamExec, teamRev, planner, worker, batchPlan, limitVars, replica>>

\* A decision names an iteration, its own or (a replayed one) an earlier.
FinishVerifier(i, action, k) ==
  /\ teamExec = "RUNNING" /\ verifier[i].step = "running"
  /\ verifier' = [verifier EXCEPT ![i] = [step |-> "SUCCESS", action |-> action, names |-> k]]
  /\ UNCHANGED <<runVars, teamExec, teamRev, planner, worker, batchPlan, limitVars, replica>>

FailVerifier(i) ==
  /\ teamExec = "RUNNING" /\ verifier[i].step = "running"
  /\ verifier' = [verifier EXCEPT ![i].step = "FAILED"]
  /\ teamExec' = "FAILED"
  /\ UNCHANGED <<runVars, teamRev, planner, worker, batchPlan, limitVars, replica>>

\* Mutant: a run that waits for a human does not hold the execution.
HeldWhileWorking == phase \in LivePhase \ {"WAITING_FOR_HUMAN"}

CompletionHeld == phase \in LivePhase

CompleteExecution ==
  /\ teamExec = "RUNNING"
  /\ \E i \in Iterations : planner[i].step # "none"
  /\ \A i \in Iterations :
       /\ planner[i].step \in {"none", "SUCCESS", "FAILED"}
       /\ verifier[i].step \in {"none", "SUCCESS", "FAILED"}
       /\ \A t \in Tasks : worker[i][t] \in {"none"} \cup WorkerDone
  /\ ~CompletionHeld
  /\ teamExec' = "COMPLETED"
  /\ UNCHANGED <<runVars, teamRev, planner, worker, verifier, batchPlan, limitVars, replica>>

CancelTeam ==
  /\ teamExec = "RUNNING"
  /\ teamExec' = "CANCELLED"
  /\ UNCHANGED <<runVars, teamRev, planner, worker, verifier, batchPlan, limitVars, replica>>

\* An operator's patch activates beside the loop.
ForeignPatch ==
  /\ teamExec = "RUNNING" /\ teamRev < LoopRevLimit
  /\ teamRev' = teamRev + 1
  /\ UNCHANGED <<runVars, teamExec, planner, worker, verifier, batchPlan, limitVars, replica>>

\* ApprovalService.approve activates the proposal in its own transaction.
ApproveBatch(i) ==
  /\ batchPlan[i] = "PENDING"
  /\ IF teamExec = "RUNNING" /\ teamRev = planner[i].base
     THEN teamRev < LoopRevLimit /\ ActivateBatch(i)
     ELSE batchPlan' = [batchPlan EXCEPT ![i] = "STALE"] /\ UNCHANGED <<teamRev, worker, verifier>>
  /\ UNCHANGED <<runVars, teamExec, planner, limitVars, replica>>

DenyBatch(i) ==
  /\ batchPlan[i] = "PENDING"
  /\ batchPlan' = [batchPlan EXCEPT ![i] = "REJECTED"]
  /\ UNCHANGED <<runVars, teamExec, teamRev, planner, worker, verifier, limitVars, replica>>

LoseAuthority(l) ==
  /\ l \notin limits
  /\ limits' = limits \cup {l}
  /\ UNCHANGED <<gated, runVars, engineVars, replica>>

ReconcileLoop(r) ==
  \/ Observe(r) \/ ReadPlanner(r)
  \/ \E t \in Tasks : ReadWorkerStep(r, t) \/ ReadWorkerAttempt(r, t)
  \/ JudgeWorkers(r) \/ ReadVerifier(r)
  \/ TransitionRun(r) \/ FailRunAndExecution(r)
  \/ CreatePlannerStep(r) \/ SubmitIterationBatch(r) \/ ConsumeDecision(r)

RunStep(i) ==
  \/ ClaimPlanner(i) \/ FailPlanner(i)
  \/ \E tasks \in Batches, valid \in BOOLEAN, base \in {planner[i].base, planner[i].base + 1} :
       FinishPlanner(i, tasks, valid, base)
  \/ \E t \in Tasks, status \in WorkerStatus : RunWorker(i, t, status)
  \/ ClaimVerifier(i) \/ FailVerifier(i)
  \/ \E action \in Actions \cup {"INVALID"}, k \in 1 .. i : FinishVerifier(i, action, k)

CoordNext ==
  \/ StartRun
  \/ \E approve \in BOOLEAN : ResolveWait(approve)
  \/ \E r \in Replicas : ReconcileLoop(r)
  \/ \E i \in Iterations : RunStep(i) \/ ApproveBatch(i) \/ DenyBatch(i)
  \/ CompleteExecution \/ CancelTeam \/ ForeignPatch
  \/ \E l \in {"deadline", "budget", "connection"} : LoseAuthority(l)

CoordSpec == CoordInit /\ [][CoordNext]_coordVars

-----------------------------------------------------------------------------
(***************************************************************************)
(* Properties                                                              *)
(***************************************************************************)

\* However many reconcilers deliver the same decision, and whatever earlier
\* iteration a verifier names, an iteration consumes one decision for good.
DecisionsAreFinal ==
  \A i \in Iterations : decided[i] # "NONE" => decided'[i] = decided[i]

\* Every iteration but the current one was closed by a decision that leads
\* on, and the current one is undecided while the loop is at work: no
\* reconciler opens an iteration twice.
IterationsAreDecidedInTurn ==
  /\ \A i \in Iterations : i < cur => decided[i] \in {"CONTINUE", "WAIT_FOR_HUMAN"}
  /\ \A i \in Iterations : i > cur => decided[i] = "NONE"
  /\ phase \in {"PLANNING", "WORKING", "VERIFYING"} => decided[cur] = "NONE"

\* The workers ever bound to the run stay within its total, batch by batch.
WorkersAreBounded ==
  /\ spent = Cardinality({b \in Iterations \X Tasks : b[2] \in manifest[b[1]]})
  /\ spent <= MaxTotalWorkers

\* A batch becomes work only on the revision its planner saw: no patch that
\* was activated in between is silently built upon.
BatchKeepsItsBase ==
  \A i \in Iterations :
    manifest'[i] # manifest[i] => teamRev = planner[i].frozen /\ teamRev' = teamRev + 1

\* An execution does not complete under a loop that is still alive.
LoopHoldsExecution == teamExec = "COMPLETED" => phase \notin LivePhase

\* A run that has ended never changes its outcome, however late a reconciler
\* commits what it read.
RunOutcomeIsFinal == (phase \in TerminalPhase) => phase' = phase

\* A started loop ends: at the latest its deadline ends it, in every phase.
LoopEnds == phase \in LivePhase ~> phase \in TerminalPhase

\* A run fails only for a cause: a role or a required worker that has failed
\* for good, a verifier or an operator that said so, a batch or a decision
\* that was refused, or its execution that had failed.
LoopFailureHasCause ==
  phase = "FAILED" =>
    \/ \E i \in 1 .. cur :
         \/ planner[i].step = "FAILED" \/ verifier[i].step = "FAILED"
         \/ planner[i].step = "SUCCESS" /\ ~(Admissible(i) /\ planner[i].base = planner[i].frozen)
         \/ planner[i].step = "SUCCESS" /\ manifest[i] = {} /\ teamRev # planner[i].base
         \/ batchPlan[i] \in {"REJECTED", "STALE"}
         \/ verifier[i].action = "INVALID"
         \/ decided[i] \in {"FAIL", "WAIT_FOR_HUMAN"}
         \/ \E t \in Required : worker[i][t] \in {"FAILED", "TIMED_OUT"}
    \/ "connection" \in limits
    \/ teamExec = "CANCELLED"

\* An approved batch is the one the loop goes on with: approving it never
\* ends a run that could go on.
ApprovedBatchRuns ==
  \A i \in Iterations :
    batchPlan[i] = "ACCEPTED" /\ phase = "FAILED" /\ limits = {} => manifest[i] = planner[i].tasks

\* A reconciler that submits a batch settles it: the batch is activated or
\* waits for an approval, or the run ends ("fail the run instead of re-throwing
\* on every recovery tick").  A batch within the frozen limits may still be too
\* large for one patch.
SubmissionSettles ==
  \A r \in Replicas :
    replica[r].pc = "submit" /\ replica'[r].pc = "idle" =>
      phase' # phase \/ batchPlan'[replica[r].n] = "PENDING"

\* The loop keeps its turn: iterations are decided one after the other and
\* the execution does not complete under a loop that is still alive.
LoopIsOrderly == IterationsAreDecidedInTurn /\ LoopHoldsExecution

\* The loop's history stands: no decision or outcome is rewritten and no
\* batch is built on a revision its planner has not seen.
LoopHistoryStands == [][DecisionsAreFinal /\ RunOutcomeIsFinal /\ BatchKeepsItsBase]_coordVars
=============================================================================
