-------------------------- MODULE CoordinationProofs --------------------------
(***************************************************************************)
(* The team loop, for every number of reconcilers, every batch and every   *)
(* limit: iterations are decided one after the other and once, a batch is  *)
(* bound only on the revision its planner saw, an ended run stays ended    *)
(* and holds its execution open until then.  Every reconciler commits from *)
(* reads that may be stale, so the invariant says what of a read stays     *)
(* true until the commit.                                                  *)
(***************************************************************************)
EXTENDS Coordination, FiniteSetTheorems, SequenceTheorems, TLAPS

-----------------------------------------------------------------------------
(***************************************************************************)
(* The inductive invariant                                                 *)
(***************************************************************************)

Reading == {"idle", "planning", "working", "verifying", "transition", "create",
            "submit", "consume", "abandon"}
Raised == {"none", "cancel", "fail", "deadline", "workersFinished"}
Seen == {"unread", "stepRead", "RUNNING", "CREATED"} \cup WorkerDone
ReplicaState == [pc : Reading, n : 0 .. MaxIterations, event : Raised, seen : [Tasks -> Seen]]

\* What a reconciler is about to commit is backed by a role step that has
\* reported for good, however stale the rest of what it read is.
ReplicaInv(r) ==
  /\ replica[r].pc # "idle" => replica[r].n \in Iterations
  /\ replica[r].pc = "transition" => replica[r].event # "none"
  /\ replica[r].pc = "submit" => planner[replica[r].n].step = "SUCCESS"
  /\ replica[r].pc = "consume" =>
       verifier[replica[r].n].step = "SUCCESS" /\ verifier[replica[r].n].action # "INVALID"

\* A verifier exists only beyond the revision its planner's batch is based
\* on, so that no activation resets it; its decision names an iteration up
\* to its own.
IterationInv(i) ==
  /\ IsFiniteSet(planner[i].tasks)
  /\ planner[i].step \in {"none", "ready", "running"} => planner[i].base <= LoopRevLimit
  /\ batchPlan[i] = "PENDING" => planner[i].step = "SUCCESS"
  /\ verifier[i].step # "none" => planner[i].step = "SUCCESS" /\ planner[i].base < teamRev
  /\ verifier[i].step = "SUCCESS" => verifier[i].action # "NONE" /\ verifier[i].names \in 1 .. i

\* The phase, the iterations and the execution agree.
PhaseInv ==
  /\ phase # "NONE" => cur > 0
  /\ phase = "NONE" => cur = 0 /\ \A i \in Iterations : planner[i].step = "none"
  /\ teamExec = "COMPLETED" => phase \in TerminalPhase
  /\ IterationsAreDecidedInTurn
  /\ phase = "WAITING_FOR_HUMAN" => decided[cur] = "WAIT_FOR_HUMAN"

LoopTypeOK == CoordTypeOK /\ replica \in [Replicas -> ReplicaState]

LoopInv ==
  /\ LoopTypeOK
  /\ \A r \in Replicas : ReplicaInv(r)
  /\ \A i \in Iterations : IterationInv(i)
  /\ PhaseInv

\* The bounds of the loop are positive naturals.
LEMMA LoopBounds ==
  /\ MaxIterations \in Nat \ {0} /\ LoopRevLimit \in Nat \ {0}
  /\ MaxPerIteration \in Nat \ {0} /\ MaxTotalWorkers \in Nat \ {0}
  BY CoordinationAssumption

\* Initially no iteration is open and nobody has read anything.
LEMMA LoopInit == CoordInit => LoopInv
PROOF
  <1> SUFFICES ASSUME CoordInit PROVE LoopInv
    OBVIOUS
  <1>1. IdleReplica \in ReplicaState
    BY LoopBounds DEF IdleReplica, ReplicaState, Reading, Raised, Seen
  <1>2. LoopTypeOK
    <2>1. CoordTypeOK
      BY LoopBounds, CoordinationAssumption DEF CoordInit, CoordTypeOK, Phases, NoPlanner, NoVerifier, IdleReplica,
         WorkerStatus, Iterations
    <2> QED BY <1>1, <2>1 DEF CoordInit, LoopTypeOK
  <1>3. \A r \in Replicas : ReplicaInv(r)
    BY DEF CoordInit, ReplicaInv, IdleReplica
  <1>4. \A i \in Iterations : IterationInv(i)
    <2>1. \A i \in Iterations : /\ planner[i].tasks = {} /\ planner[i].step = "none" /\ planner[i].base = 0
                                /\ batchPlan[i] = "none" /\ verifier[i].step = "none"
      BY DEF CoordInit, NoPlanner, NoVerifier
    <2> SUFFICES ASSUME NEW i \in Iterations PROVE IterationInv(i)
      OBVIOUS
    <2>2. IsFiniteSet(planner[i].tasks)
      BY <2>1, FS_EmptySet
    <2> QED BY <2>1, <2>2, LoopBounds DEF IterationInv
  <1>5. PhaseInv
    <2>1. \A i \in Iterations : planner[i].step = "none" /\ decided[i] = "NONE" /\ ~(i < 0)
      BY LoopBounds DEF CoordInit, NoPlanner, Iterations
    <2> QED BY <2>1 DEF CoordInit, PhaseInv, IterationsAreDecidedInTurn
  <1> QED BY <1>2, <1>3, <1>4, <1>5 DEF LoopInv

-----------------------------------------------------------------------------
(***************************************************************************)
(* Reads                                                                   *)
(***************************************************************************)

\* A reconciler that reads, and changes nothing but what it knows, keeps the
\* invariant if what it knows is backed.
LEMMA ReadFrame ==
  ASSUME LoopInv, NEW r \in Replicas, NEW w \in ReplicaState, replica' = [replica EXCEPT ![r] = w],
         UNCHANGED <<runVars, engineVars, limitVars>>,
         w.pc # "idle" => w.n \in Iterations,
         w.pc = "transition" => w.event # "none",
         w.pc = "submit" => planner[w.n].step = "SUCCESS",
         w.pc = "consume" => verifier[w.n].step = "SUCCESS" /\ verifier[w.n].action # "INVALID"
  PROVE  LoopInv'
PROOF
  <1> USE DEF runVars, engineVars, limitVars
  <1>1. replica' \in [Replicas -> ReplicaState] /\ replica'[r] = w
        /\ \A q \in Replicas : q # r => replica'[q] = replica[q]
    BY DEF LoopInv, LoopTypeOK
  <1>2. \A q \in Replicas : replica'[q].n \in 0 .. MaxIterations
    BY <1>1 DEF ReplicaState
  <1>3. LoopTypeOK'
    BY <1>1, <1>2 DEF LoopInv, LoopTypeOK, CoordTypeOK
  <1>4. ASSUME NEW q \in Replicas PROVE ReplicaInv(q)'
    BY <1>1 DEF LoopInv, ReplicaInv
  <1>5. PhaseInv' /\ \A i \in Iterations : IterationInv(i)'
    BY DEF LoopInv, PhaseInv, IterationsAreDecidedInTurn, IterationInv
  <1> QED BY <1>3, <1>4, <1>5 DEF LoopInv

\* Reads keep the invariant.
LEMMA LoopReads ==
  ASSUME LoopInv, NEW r \in Replicas,
         \/ Observe(r) \/ ReadPlanner(r) \/ JudgeWorkers(r) \/ ReadVerifier(r)
         \/ \E t \in Tasks : ReadWorkerStep(r, t) \/ ReadWorkerAttempt(r, t)
  PROVE  LoopInv'
PROOF
  <1>0. /\ replica \in [Replicas -> ReplicaState] /\ replica[r] \in ReplicaState
        /\ replica[r].n \in 0 .. MaxIterations /\ replica[r].seen \in [Tasks -> Seen]
        /\ IdleReplica \in ReplicaState /\ IdleReplica.pc = "idle"
        /\ ReplicaInv(r)
    BY LoopBounds DEF LoopInv, LoopTypeOK, IdleReplica, ReplicaState, Reading, Raised, Seen
  <1>I. ASSUME Rest(r), UNCHANGED <<runVars, engineVars, limitVars>> PROVE LoopInv'
    BY <1>0, <1>I, ReadFrame DEF Rest
  <1>G. ASSUME NEW pc \in Reading, ReplicaGoto(r, pc), UNCHANGED <<runVars, engineVars, limitVars>>,
               replica[r].pc # "idle", pc # "transition",
               pc = "submit" => planner[replica[r].n].step = "SUCCESS",
               pc = "consume" => verifier[replica[r].n].step = "SUCCESS" /\ verifier[replica[r].n].action # "INVALID"
        PROVE  LoopInv'
    <2> DEFINE w == [replica[r] EXCEPT !.pc = pc]
    <2>1. /\ w \in ReplicaState /\ w.pc = pc /\ w.n = replica[r].n
          /\ replica' = [replica EXCEPT ![r] = w]
      BY <1>0, <1>G DEF ReplicaGoto, ReplicaState
    <2>2. w.n \in Iterations
      BY <1>0, <1>G, <2>1 DEF ReplicaInv
    <2> HIDE DEF w
    <2> QED BY <1>G, <2>1, <2>2, ReadFrame
  <1>R. ASSUME NEW event \in Raised \ {"none"}, Raise(r, event), UNCHANGED <<runVars, engineVars, limitVars>>,
               replica[r].pc # "idle"
        PROVE  LoopInv'
    <2> DEFINE w == [replica[r] EXCEPT !.pc = "transition", !.event = event]
    <2>1. /\ w \in ReplicaState /\ w.pc = "transition" /\ w.n = replica[r].n /\ w.event = event
          /\ replica' = [replica EXCEPT ![r] = w]
      BY <1>0, <1>R DEF Raise, ReplicaState, Reading
    <2>2. w.n \in Iterations
      BY <1>0, <1>R, <2>1 DEF ReplicaInv
    <2> HIDE DEF w
    <2> QED BY <1>R, <2>1, <2>2, ReadFrame
  <1>1. CASE Observe(r)
    <2>1. cur \in Iterations /\ phase \in LivePhase
      BY <1>1, LoopBounds DEF Observe, LoopInv, LoopTypeOK, CoordTypeOK, PhaseInv, LivePhase, Iterations
    <2> DEFINE next(pc, event) == [IdleReplica EXCEPT !.pc = pc, !.n = cur, !.event = event]
    <2>2. PICK w : /\ replica' = [replica EXCEPT ![r] = w]
                   /\ \/ w = IdleReplica
                      \/ \E event \in {"cancel", "fail", "deadline"} : w = next("transition", event)
                      \/ \E pc \in {"planning", "working", "verifying", "idle"} : w = next(pc, "none")
      <3>1. teamExec \in {"RUNNING", "COMPLETED", "FAILED", "CANCELLED"}
        BY DEF LoopInv, LoopTypeOK, CoordTypeOK
      <3> QED BY <1>1, <3>1 DEF Observe
    <2>3. ASSUME NEW pc \in Reading, NEW event \in Raised
          PROVE  /\ next(pc, event) \in ReplicaState /\ next(pc, event).pc = pc
                 /\ next(pc, event).n = cur /\ next(pc, event).event = event
      <3>1. cur \in 0 .. MaxIterations
        BY <2>1, LoopBounds DEF Iterations
      <3> QED BY <1>0, <2>3, <3>1 DEF ReplicaState
    <2> HIDE DEF next
    <2>4. /\ w \in ReplicaState /\ (w.pc # "idle" => w.n \in Iterations)
          /\ w.pc \notin {"submit", "consume"} /\ (w.pc = "transition" => w.event # "none")
      BY <1>0, <2>1, <2>2, <2>3 DEF Reading, Raised
    <2> QED BY <1>1, <2>2, <2>4, ReadFrame DEF Observe
  <1>2. CASE ReadPlanner(r)
    <2>1. replica[r].pc = "planning" /\ UNCHANGED <<runVars, engineVars, limitVars>>
      BY <1>2 DEF ReadPlanner
    <2>2. planner[replica[r].n].step \in {"none", "ready", "running", "SUCCESS", "FAILED"}
      BY <1>0, <2>1 DEF LoopInv, LoopTypeOK, CoordTypeOK, ReplicaInv
    <2>3. \/ ReplicaGoto(r, "create") \/ Rest(r) \/ Raise(r, "fail")
          \/ ReplicaGoto(r, "submit") /\ planner[replica[r].n].step = "SUCCESS"
      BY <1>2, <2>2 DEF ReadPlanner
    <2> QED BY <1>I, <1>G, <1>R, <2>1, <2>3 DEF Reading, Raised
  <1>3. ASSUME NEW t \in Tasks, ReadWorkerStep(r, t) \/ ReadWorkerAttempt(r, t) PROVE LoopInv'
    <2>1. PICK v \in Seen : replica' = [replica EXCEPT ![r].seen[t] = v]
      BY <1>3 DEF ReadWorkerStep, ReadWorkerAttempt, LatestAttempt, Seen, WorkerDone
    <2> DEFINE w == [replica[r] EXCEPT !.seen[t] = v]
    <2>2. /\ w \in ReplicaState /\ w.pc = replica[r].pc /\ w.n = replica[r].n /\ w.event = replica[r].event
          /\ replica' = [replica EXCEPT ![r] = w]
      BY <1>0, <2>1 DEF ReplicaState
    <2> HIDE DEF w
    <2>3. UNCHANGED <<runVars, engineVars, limitVars>>
      BY <1>3 DEF ReadWorkerStep, ReadWorkerAttempt
    <2> QED BY <1>0, <2>2, <2>3, ReadFrame DEF ReplicaInv
  <1>4. CASE JudgeWorkers(r)
    BY <1>I, <1>R, <1>4 DEF JudgeWorkers, Raised
  <1>5. CASE ReadVerifier(r)
    <2>1. replica[r].pc = "verifying" /\ UNCHANGED <<runVars, engineVars, limitVars>>
      BY <1>5 DEF ReadVerifier
    <2>2. verifier[replica[r].n].step \in {"none", "ready", "running", "SUCCESS", "FAILED"}
      BY <1>0, <2>1 DEF LoopInv, LoopTypeOK, CoordTypeOK, ReplicaInv
    <2>3. \/ ReplicaGoto(r, "abandon") \/ Rest(r) \/ Raise(r, "fail")
          \/ /\ ReplicaGoto(r, "consume") /\ verifier[replica[r].n].step = "SUCCESS"
             /\ verifier[replica[r].n].action # "INVALID"
      BY <1>5, <2>2 DEF ReadVerifier
    <2> QED BY <1>I, <1>G, <1>R, <2>1, <2>3 DEF Reading, Raised
  <1> QED BY <1>1, <1>2, <1>3, <1>4, <1>5

-----------------------------------------------------------------------------
(***************************************************************************)
(* Commits and the engine                                                  *)
(***************************************************************************)

PlannerState == [step : {"none", "ready", "running", "SUCCESS", "FAILED"},
                 base : 0 .. LoopRevLimit + 1, frozen : 0 .. LoopRevLimit,
                 valid : BOOLEAN, tasks : SUBSET Tasks]
VerifierState == [step : {"none", "ready", "running", "SUCCESS", "FAILED"},
                  action : Actions \cup {"NONE", "INVALID"}, names : 0 .. MaxIterations]

\* A planner or verifier that has reported is never touched again.
RolesStand ==
  \A i \in Iterations :
    /\ planner[i].step = "SUCCESS" => planner'[i] = planner[i]
    /\ verifier[i].step = "SUCCESS" => verifier'[i] = verifier[i]

\* A reconciler that has committed rests, or gives up on the iteration it read.
ReplicasEnd ==
  /\ replica' \in [Replicas -> ReplicaState]
  /\ \A r \in Replicas :
       \/ replica'[r] = replica[r] \/ replica'[r].pc = "idle"
       \/ replica'[r].pc = "abandon" /\ replica'[r].n \in Iterations

\* What the loop's variables are, by components.
LEMMA LoopTypes ==
  ASSUME LoopInv
  PROVE  /\ planner \in [Iterations -> PlannerState] /\ verifier \in [Iterations -> VerifierState]
         /\ \A i \in Iterations : planner[i] \in PlannerState /\ verifier[i] \in VerifierState
         /\ replica \in [Replicas -> ReplicaState]
         /\ cur \in 0 .. MaxIterations /\ teamRev \in 1 .. LoopRevLimit /\ spent \in 0 .. MaxTotalWorkers
         /\ cur \in Nat /\ teamRev \in Nat /\ spent \in Nat /\ Iterations \subseteq Nat
  BY LoopBounds DEF LoopInv, LoopTypeOK, CoordTypeOK, PlannerState, VerifierState, Iterations

\* A reconciler that rests.
LEMMA RestEnds ==
  ASSUME LoopInv, NEW r \in Replicas, Rest(r) PROVE ReplicasEnd
  BY LoopBounds DEF LoopInv, LoopTypeOK, Rest, ReplicasEnd, IdleReplica, ReplicaState, Reading, Raised, Seen

\* The parts of the invariant, put together after a commit or an engine step.
LEMMA LoopMoves ==
  ASSUME LoopInv, CoordTypeOK', ReplicasEnd, RolesStand, \A i \in Iterations : IterationInv(i)', PhaseInv'
  PROVE  LoopInv'
PROOF
  <1>1. ASSUME NEW r \in Replicas PROVE ReplicaInv(r)'
    <2>1. CASE replica'[r] = replica[r]
      BY <2>1 DEF LoopInv, ReplicaInv, RolesStand
    <2>2. CASE replica'[r].pc = "idle" \/ (replica'[r].pc = "abandon" /\ replica'[r].n \in Iterations)
      BY <2>2 DEF ReplicaInv
    <2> QED BY <2>1, <2>2 DEF ReplicasEnd
  <1> QED BY <1>1 DEF LoopInv, LoopTypeOK, ReplicasEnd

\* Types and reads are kept when the engine moves within its types.
LEMMA EngineTypes ==
  ASSUME LoopInv, ReplicasEnd, UNCHANGED <<runVars, limitVars>>,
         teamExec' \in {"RUNNING", "COMPLETED", "FAILED", "CANCELLED"},
         teamRev' \in 1 .. LoopRevLimit,
         planner' \in [Iterations -> PlannerState],
         worker' \in [Iterations -> [Tasks -> WorkerStatus]],
         verifier' \in [Iterations -> VerifierState],
         batchPlan' \in [Iterations -> {"none", "PENDING", "ACCEPTED", "REJECTED", "STALE"}]
  PROVE  CoordTypeOK'
PROOF
  <1>1. \A r \in Replicas : replica'[r].n \in 0 .. MaxIterations
    BY DEF ReplicasEnd, ReplicaState
  <1> QED
    BY <1>1 DEF LoopInv, LoopTypeOK, CoordTypeOK, PlannerState, VerifierState, runVars, limitVars

\* The phase and its iterations do not depend on the engine, except that a
\* run that is alive holds its execution and one not started has no planner.
LEMMA PhaseFrame ==
  ASSUME PhaseInv, UNCHANGED runVars,
         teamExec' = "COMPLETED" => teamExec = "COMPLETED" \/ phase \in TerminalPhase,
         phase = "NONE" => planner' = planner
  PROVE  PhaseInv'
  BY DEF PhaseInv, IterationsAreDecidedInTurn, runVars, TerminalPhase

\* Engine steps of one role keep the invariant.
LEMMA EngineMoves ==
  ASSUME LoopInv, NEW i \in Iterations, RunStep(i) PROVE LoopInv'
PROOF
  <1> USE DEF engineVars
  <1>0. /\ planner \in [Iterations -> PlannerState] /\ verifier \in [Iterations -> VerifierState]
        /\ planner[i] \in PlannerState /\ verifier[i] \in VerifierState
        /\ teamRev \in 1 .. LoopRevLimit /\ i \in 1 .. MaxIterations /\ i \in Nat
        /\ IterationInv(i) /\ PhaseInv
    BY LoopTypes DEF LoopInv, Iterations
  <1>1. worker \in [Iterations -> [Tasks -> WorkerStatus]]
        /\ batchPlan \in [Iterations -> {"none", "PENDING", "ACCEPTED", "REJECTED", "STALE"}]
        /\ teamExec \in {"RUNNING", "COMPLETED", "FAILED", "CANCELLED"}
    BY DEF LoopInv, LoopTypeOK, CoordTypeOK
  <1>2. UNCHANGED <<runVars, teamRev, batchPlan, limitVars, replica>>
    BY DEF RunStep, ClaimPlanner, FailPlanner, FinishPlanner, RunWorker, ClaimVerifier, FailVerifier, FinishVerifier
  <1>3. ReplicasEnd
    BY <1>2, LoopTypes DEF ReplicasEnd
  <1>4. teamExec' \in {"RUNNING", "FAILED"} /\ teamExec = "RUNNING"
    BY DEF RunStep, ClaimPlanner, FailPlanner, FinishPlanner, RunWorker, ClaimVerifier, FailVerifier, FinishVerifier
  <1>5. ASSUME NEW t \in Tasks, NEW ws \in WorkerStatus, RunWorker(i, t, ws) PROVE LoopInv'
    <2>1. worker' \in [Iterations -> [Tasks -> WorkerStatus]] /\ UNCHANGED <<planner, verifier>>
      BY <1>1, <1>5 DEF RunWorker
    <2>2. CoordTypeOK'
      BY <1>0, <1>1, <1>2, <1>3, <1>4, <2>1, EngineTypes
    <2>3. PhaseInv' /\ RolesStand /\ \A j \in Iterations : IterationInv(j)'
      BY <1>0, <1>2, <1>4, <2>1, PhaseFrame DEF RolesStand, LoopInv, IterationInv
    <2> QED BY <1>3, <2>2, <2>3, LoopMoves
  <1>6. ASSUME NEW w \in PlannerState, planner[i].step \in {"ready", "running"},
               planner' = [planner EXCEPT ![i] = w], UNCHANGED <<worker, verifier>>,
               IsFiniteSet(w.tasks), w.step \in {"none", "ready", "running"} => w.base <= LoopRevLimit
        PROVE  LoopInv'
    <2>1. /\ planner' \in [Iterations -> PlannerState] /\ planner'[i] = w
          /\ \A j \in Iterations : j # i => planner'[j] = planner[j]
      BY <1>0, <1>6
    <2>2. CoordTypeOK'
      BY <1>0, <1>1, <1>2, <1>3, <1>4, <1>6, <2>1, EngineTypes
    <2>3. PhaseInv'
      BY <1>0, <1>2, <1>4, <1>6, PhaseFrame DEF PhaseInv
    <2>4. RolesStand
      BY <1>6, <2>1 DEF RolesStand
    <2>5. ASSUME NEW j \in Iterations PROVE IterationInv(j)'
      BY <1>0, <1>2, <1>6, <2>1 DEF LoopInv, IterationInv
    <2> QED BY <1>3, <2>2, <2>3, <2>4, <2>5, LoopMoves
  <1>7. ASSUME ClaimPlanner(i) PROVE LoopInv'
    <2> DEFINE w == [planner[i] EXCEPT !.step = "running", !.frozen = teamRev]
    <2>0. teamRev \in 0 .. LoopRevLimit /\ planner[i] \in PlannerState
      BY <1>0, LoopBounds
    <2>1. w \in PlannerState /\ w.tasks = planner[i].tasks /\ w.base = planner[i].base
      BY <2>0 DEF PlannerState
    <2>2. planner' = [planner EXCEPT ![i] = w]
      BY <1>0, <1>7 DEF ClaimPlanner
    <2> HIDE DEF w
    <2> QED BY <1>0, <1>6, <1>7, <2>1, <2>2 DEF ClaimPlanner, IterationInv
  <1>8. ASSUME FailPlanner(i) PROVE LoopInv'
    <2> DEFINE w == [planner[i] EXCEPT !.step = "FAILED"]
    <2>1. /\ w \in PlannerState /\ w.tasks = planner[i].tasks /\ w.step = "FAILED"
          /\ planner' = [planner EXCEPT ![i] = w]
      BY <1>0, <1>8 DEF FailPlanner, PlannerState
    <2> HIDE DEF w
    <2> QED BY <1>0, <1>6, <1>8, <2>1 DEF FailPlanner, IterationInv
  <1>9. ASSUME NEW tasks \in Batches, NEW valid \in BOOLEAN, NEW base \in {planner[i].base, planner[i].base + 1},
               FinishPlanner(i, tasks, valid, base)
        PROVE  LoopInv'
    <2> DEFINE w == [planner[i] EXCEPT !.step = "SUCCESS", !.valid = valid, !.tasks = tasks, !.base = base]
    <2>1. planner[i].base \in 0 .. LoopRevLimit
      BY <1>0, <1>9, LoopBounds DEF FinishPlanner, IterationInv, PlannerState
    <2>2. tasks \in SUBSET Tasks /\ IsFiniteSet(tasks) /\ base \in 0 .. LoopRevLimit + 1
      BY <1>9, <2>1, LoopBounds, CoordinationAssumption
    <2>3. /\ w \in PlannerState /\ w.tasks = tasks /\ w.step = "SUCCESS"
          /\ planner' = [planner EXCEPT ![i] = w]
      BY <1>0, <1>9, <2>2 DEF FinishPlanner, PlannerState
    <2> HIDE DEF w
    <2> QED BY <1>6, <1>9, <2>2, <2>3 DEF FinishPlanner
  <1>10. ASSUME NEW w \in VerifierState, verifier[i].step \in {"ready", "running"}, w.step # "none",
                verifier' = [verifier EXCEPT ![i] = w], UNCHANGED <<worker, planner>>,
                w.step = "SUCCESS" => w.action # "NONE" /\ w.names \in 1 .. i
         PROVE  LoopInv'
    <2>1. /\ verifier' \in [Iterations -> VerifierState] /\ verifier'[i] = w
          /\ \A j \in Iterations : j # i => verifier'[j] = verifier[j]
      BY <1>0, <1>10
    <2>2. CoordTypeOK'
      BY <1>0, <1>1, <1>2, <1>3, <1>4, <1>10, <2>1, EngineTypes
    <2>3. PhaseInv'
      BY <1>0, <1>2, <1>4, <1>10, PhaseFrame
    <2>4. RolesStand
      BY <1>10, <2>1 DEF RolesStand
    <2>5. ASSUME NEW j \in Iterations PROVE IterationInv(j)'
      BY <1>0, <1>2, <1>10, <2>1 DEF LoopInv, IterationInv
    <2> QED BY <1>3, <2>2, <2>3, <2>4, <2>5, LoopMoves
  <1>11. ASSUME ClaimVerifier(i) \/ FailVerifier(i) PROVE LoopInv'
    <2>1. PICK s \in {"running", "FAILED"} : verifier' = [verifier EXCEPT ![i].step = s]
      BY <1>11 DEF ClaimVerifier, FailVerifier
    <2> DEFINE w == [verifier[i] EXCEPT !.step = s]
    <2>2. w \in VerifierState /\ w.step = s /\ verifier' = [verifier EXCEPT ![i] = w]
      BY <1>0, <2>1 DEF VerifierState
    <2> HIDE DEF w
    <2> QED BY <1>10, <1>11, <2>2 DEF ClaimVerifier, FailVerifier
  <1>12. ASSUME NEW action \in Actions \cup {"INVALID"}, NEW k \in 1 .. i, FinishVerifier(i, action, k)
         PROVE  LoopInv'
    <2> DEFINE w == [step |-> "SUCCESS", action |-> action, names |-> k]
    <2>1. w \in VerifierState /\ w.step = "SUCCESS" /\ w.action # "NONE" /\ w.names \in 1 .. i
      BY <1>0, <1>12, LoopBounds DEF VerifierState, Actions
    <2>2. verifier' = [verifier EXCEPT ![i] = w]
      BY <1>12 DEF FinishVerifier
    <2> HIDE DEF w
    <2> QED BY <1>10, <1>12, <2>1, <2>2 DEF FinishVerifier
  <1> QED BY <1>5, <1>7, <1>8, <1>9, <1>11, <1>12 DEF RunStep

\* A batch is activated on the revision its planner's batch is based on, so
\* its iteration has no verifier yet.
LEMMA ActivateMoves ==
  ASSUME LoopInv, NEW i \in Iterations, ActivateBatch(i), teamRev < LoopRevLimit,
         planner[i].step = "SUCCESS", teamRev = planner[i].base, planner' = planner
  PROVE  /\ teamRev' \in 1 .. LoopRevLimit
         /\ worker' \in [Iterations -> [Tasks -> WorkerStatus]]
         /\ verifier' \in [Iterations -> VerifierState]
         /\ batchPlan' \in [Iterations -> {"none", "PENDING", "ACCEPTED", "REJECTED", "STALE"}]
         /\ RolesStand
         /\ \A j \in Iterations : IterationInv(j)'
PROOF
  <1>0. /\ planner \in [Iterations -> PlannerState] /\ verifier \in [Iterations -> VerifierState]
        /\ verifier[i] \in VerifierState /\ teamRev \in 1 .. LoopRevLimit /\ teamRev \in Nat
        /\ planner[i].base \in Nat /\ IterationInv(i)
        /\ \A j \in Iterations : planner[j].base \in Nat
    BY LoopTypes, LoopBounds DEF LoopInv, PlannerState
  <1>1. verifier[i].step = "none"
    BY <1>0 DEF IterationInv
  <1> DEFINE w == [verifier[i] EXCEPT !.step = "ready"]
  <1>2. w \in VerifierState /\ w.step = "ready" /\ verifier' = [verifier EXCEPT ![i] = w]
    BY <1>0 DEF ActivateBatch, VerifierState
  <1> HIDE DEF w
  <1>3. /\ verifier' \in [Iterations -> VerifierState] /\ verifier'[i] = w
        /\ \A j \in Iterations : j # i => verifier'[j] = verifier[j]
    BY <1>0, <1>2
  <1>4. teamRev' = teamRev + 1 /\ teamRev' \in 1 .. LoopRevLimit
    BY <1>0, LoopBounds DEF ActivateBatch
  <1>5. /\ worker' \in [Iterations -> [Tasks -> WorkerStatus]]
        /\ batchPlan' \in [Iterations -> {"none", "PENDING", "ACCEPTED", "REJECTED", "STALE"}]
        /\ \A j \in Iterations : batchPlan'[j] = "PENDING" => batchPlan[j] = "PENDING"
    BY DEF ActivateBatch, LoopInv, LoopTypeOK, CoordTypeOK, WorkerStatus
  <1>6. RolesStand
    BY <1>1, <1>3 DEF RolesStand
  <1>7. ASSUME NEW j \in Iterations PROVE IterationInv(j)'
    BY <1>0, <1>2, <1>3, <1>4, <1>5 DEF LoopInv, IterationInv
  <1> QED BY <1>3, <1>4, <1>5, <1>6, <1>7

\* What happens beside the loop keeps the invariant.
LEMMA BesideMoves ==
  ASSUME LoopInv,
         \/ \E i \in Iterations : ApproveBatch(i) \/ DenyBatch(i)
         \/ CompleteExecution \/ CancelTeam \/ ForeignPatch
         \/ \E l \in {"deadline", "budget", "connection"} : LoseAuthority(l)
  PROVE  LoopInv'
PROOF
  <1> USE DEF engineVars
  <1>0. /\ planner \in [Iterations -> PlannerState] /\ verifier \in [Iterations -> VerifierState]
        /\ teamRev \in 1 .. LoopRevLimit /\ PhaseInv /\ teamRev \in Nat
        /\ \A j \in Iterations : planner[j].base \in Nat
    BY LoopTypes, LoopBounds DEF LoopInv, PlannerState
  <1>1. worker \in [Iterations -> [Tasks -> WorkerStatus]]
        /\ batchPlan \in [Iterations -> {"none", "PENDING", "ACCEPTED", "REJECTED", "STALE"}]
        /\ teamExec \in {"RUNNING", "COMPLETED", "FAILED", "CANCELLED"}
    BY DEF LoopInv, LoopTypeOK, CoordTypeOK
  <1>2. replica' = replica /\ planner' = planner /\ UNCHANGED runVars /\ ReplicasEnd
    BY LoopTypes DEF ApproveBatch, DenyBatch, CompleteExecution, CancelTeam, ForeignPatch, LoseAuthority, ReplicasEnd
  <1>3. ASSUME NEW i \in Iterations, ApproveBatch(i) PROVE LoopInv'
    <2>1. UNCHANGED <<teamExec, limitVars>> /\ batchPlan[i] = "PENDING" /\ planner[i].step = "SUCCESS"
      BY <1>3 DEF ApproveBatch, LoopInv, IterationInv
    <2>2. PhaseInv'
      BY <1>0, <1>2, <2>1, PhaseFrame
    <2>3. CASE teamRev < LoopRevLimit /\ teamRev = planner[i].base /\ ActivateBatch(i)
      <3>1. /\ teamRev' \in 1 .. LoopRevLimit
            /\ worker' \in [Iterations -> [Tasks -> WorkerStatus]]
            /\ verifier' \in [Iterations -> VerifierState]
            /\ batchPlan' \in [Iterations -> {"none", "PENDING", "ACCEPTED", "REJECTED", "STALE"}]
            /\ RolesStand
            /\ \A j \in Iterations : IterationInv(j)'
        BY <1>2, <2>1, <2>3, ActivateMoves
      <3>2. CoordTypeOK'
        BY <1>0, <1>1, <1>2, <2>1, <3>1, EngineTypes
      <3> QED BY <1>2, <2>2, <3>1, <3>2, LoopMoves
    <2>4. CASE batchPlan' = [batchPlan EXCEPT ![i] = "STALE"] /\ UNCHANGED <<teamRev, worker, verifier>>
      <3>1. CoordTypeOK'
        BY <1>0, <1>1, <1>2, <2>1, <2>4, EngineTypes
      <3>2. RolesStand /\ \A j \in Iterations : IterationInv(j)'
        BY <1>1, <1>2, <2>4 DEF LoopInv, IterationInv, RolesStand
      <3> QED BY <1>2, <2>2, <3>1, <3>2, LoopMoves
    <2> QED BY <1>3, <2>3, <2>4 DEF ApproveBatch
  <1>4. ASSUME NEW i \in Iterations, DenyBatch(i) PROVE LoopInv'
    <2>1. UNCHANGED <<teamExec, teamRev, worker, verifier, limitVars>>
          /\ batchPlan' = [batchPlan EXCEPT ![i] = "REJECTED"]
      BY <1>4 DEF DenyBatch
    <2>2. CoordTypeOK'
      BY <1>0, <1>1, <1>2, <2>1, EngineTypes
    <2>3. RolesStand /\ \A j \in Iterations : IterationInv(j)'
      BY <1>1, <1>2, <2>1 DEF LoopInv, IterationInv, RolesStand
    <2>4. PhaseInv'
      BY <1>0, <1>2, <2>1, PhaseFrame
    <2> QED BY <1>2, <2>2, <2>3, <2>4, LoopMoves
  <1>5. CASE CompleteExecution \/ CancelTeam \/ ForeignPatch
    <2>1. /\ UNCHANGED <<worker, verifier, batchPlan, limitVars>>
          /\ teamRev' \in 1 .. LoopRevLimit /\ teamRev <= teamRev'
          /\ teamExec' \in {"RUNNING", "COMPLETED", "CANCELLED"}
      BY <1>0, <1>5, LoopBounds DEF CompleteExecution, CancelTeam, ForeignPatch
    <2>2. teamExec' = "COMPLETED" => teamExec = "COMPLETED" \/ phase \in TerminalPhase
      <3>1. phase \in Phases
        BY DEF LoopInv, LoopTypeOK, CoordTypeOK
      <3> QED BY <1>0, <1>5, <3>1 DEF CompleteExecution, CompletionHeld, CancelTeam, ForeignPatch, PhaseInv, LivePhase
    <2>3. CoordTypeOK'
      BY <1>0, <1>1, <1>2, <2>1, EngineTypes
    <2>4. RolesStand
      BY <1>2, <2>1 DEF RolesStand
    <2>5. ASSUME NEW j \in Iterations PROVE IterationInv(j)'
      BY <1>0, <1>2, <2>1 DEF LoopInv, IterationInv
    <2>6. PhaseInv'
      BY <1>0, <1>2, <2>2, PhaseFrame
    <2> QED BY <1>2, <2>3, <2>4, <2>5, <2>6, LoopMoves
  <1>6. ASSUME NEW l \in {"deadline", "budget", "connection"}, LoseAuthority(l) PROVE LoopInv'
    <2>1. CoordTypeOK'
      BY <1>2, <1>6 DEF LoseAuthority, LoopInv, LoopTypeOK, CoordTypeOK, runVars
    <2>2. PhaseInv'
      BY <1>0, <1>2, <1>6, PhaseFrame DEF LoseAuthority
    <2>3. RolesStand /\ \A j \in Iterations : IterationInv(j)'
      BY <1>2, <1>6 DEF LoseAuthority, LoopInv, IterationInv, RolesStand
    <2> QED BY <1>2, <2>1, <2>2, <2>3, LoopMoves
  <1> QED BY <1>3, <1>4, <1>5, <1>6

\* A commit that moves the run and leaves the roles alone.
LEMMA RunMoves ==
  ASSUME LoopInv, ReplicasEnd, UNCHANGED <<manifest, spent, teamRev, planner, worker, verifier, limitVars>>,
         phase' \in Phases, cur' \in 0 .. MaxIterations,
         decided' \in [Iterations -> Actions \cup {"NONE"}],
         teamExec' \in {"RUNNING", "COMPLETED", "FAILED", "CANCELLED"},
         batchPlan' \in [Iterations -> {"none", "PENDING", "ACCEPTED", "REJECTED", "STALE"}],
         \A i \in Iterations : batchPlan'[i] = "PENDING" => batchPlan[i] = "PENDING" \/ planner[i].step = "SUCCESS",
         PhaseInv'
  PROVE  LoopInv'
PROOF
  <1>1. \A r \in Replicas : replica'[r].n \in 0 .. MaxIterations
    BY DEF ReplicasEnd, ReplicaState
  <1>2. CoordTypeOK'
    BY <1>1 DEF LoopInv, LoopTypeOK, CoordTypeOK, limitVars
  <1>3. RolesStand
    BY DEF RolesStand
  <1>4. ASSUME NEW i \in Iterations PROVE IterationInv(i)'
    BY DEF LoopInv, IterationInv
  <1> QED BY <1>2, <1>3, <1>4, LoopMoves

\* A live run may end at any time.
LEMMA PhaseEnds ==
  ASSUME PhaseInv, phase \in LivePhase, phase' \in TerminalPhase, UNCHANGED <<cur, decided>>
  PROVE  PhaseInv'
  BY DEF PhaseInv, IterationsAreDecidedInTurn, LivePhase, TerminalPhase, Phases

\* The next iteration opens behind a decision of the current one, or the
\* run ends at its limit.
LEMMA OpenNext ==
  ASSUME LoopInv, phase \in LivePhase, OpenNextIteration(cur), UNCHANGED <<planner, teamExec>>,
         decided' \in [Iterations -> Actions \cup {"NONE"}],
         decided'[cur] \in {"CONTINUE", "WAIT_FOR_HUMAN"},
         \A i \in Iterations : i # cur => decided'[i] = decided[i]
  PROVE  phase' \in Phases /\ cur' \in 0 .. MaxIterations /\ PhaseInv'
PROOF
  <1>1. /\ cur \in Nat /\ cur > 0 /\ cur \in 0 .. MaxIterations /\ Iterations \subseteq Nat
        /\ PhaseInv /\ teamExec # "COMPLETED"
    BY LoopTypes DEF LoopInv, PhaseInv, LivePhase, Phases
  <1>2. CASE phase' = "LIMIT_REACHED" /\ cur' = cur
    BY <1>1, <1>2 DEF PhaseInv, IterationsAreDecidedInTurn, TerminalPhase, Phases
  <1>3. CASE phase' = "PLANNING" /\ cur' = cur + 1 /\ cur < MaxIterations
    <2>1. cur' \in Iterations /\ cur' \in 0 .. MaxIterations
      BY <1>1, <1>3, LoopBounds DEF Iterations
    <2>2. \A i \in Iterations : i < cur' => i < cur \/ i = cur
      BY <1>1, <1>3
    <2>3. \A i \in Iterations : i >= cur' => i > cur /\ i # cur
      BY <1>1, <1>3
    <2>4. IterationsAreDecidedInTurn'
      BY <1>1, <1>3, <2>1, <2>2, <2>3 DEF PhaseInv, IterationsAreDecidedInTurn
    <2> QED BY <1>1, <1>3, <2>1, <2>4 DEF PhaseInv, TerminalPhase, Phases
  <1> QED BY <1>2, <1>3 DEF OpenNextIteration, ContinueAllowed

\* What a raised event does to the phase.
LEMMA TransitionKinds ==
  ASSUME NEW p \in Phases, NEW event \in Raised \ {"none"}
  PROVE  \/ ApplyPhaseTransition(p, event) = p
         \/ p \in LivePhase /\ ApplyPhaseTransition(p, event) \in TerminalPhase
         \/ p = "WORKING" /\ ApplyPhaseTransition(p, event) = "VERIFYING"
  BY DEF Raised, ApplyPhaseTransition, TransitionFrom, EventPhase, AnyLive, LivePhase, TerminalPhase, Phases

\* Operators starting and resuming the run, and reconcilers committing.
LEMMA RunCommits ==
  ASSUME LoopInv,
         \/ StartRun \/ \E approve \in BOOLEAN : ResolveWait(approve)
         \/ \E r \in Replicas : TransitionRun(r) \/ FailRunAndExecution(r) \/ ConsumeDecision(r)
  PROVE  LoopInv'
PROOF
  <1> USE DEF engineVars
  <1>0. /\ phase \in Phases /\ cur \in 0 .. MaxIterations /\ cur \in Nat /\ PhaseInv
        /\ decided \in [Iterations -> Actions \cup {"NONE"}]
        /\ teamExec \in {"RUNNING", "COMPLETED", "FAILED", "CANCELLED"}
        /\ batchPlan \in [Iterations -> {"none", "PENDING", "ACCEPTED", "REJECTED", "STALE"}]
        /\ TerminalPhase \subseteq Phases /\ Iterations \subseteq Nat
    BY LoopTypes DEF LoopInv, LoopTypeOK, CoordTypeOK, TerminalPhase, Phases
  <1>1. CASE StartRun
    <2>1. /\ phase' = "PLANNING" /\ cur' = 1 /\ phase = "NONE" /\ ReplicasEnd
          /\ UNCHANGED <<spent, manifest, decided, engineVars, limitVars>>
      BY <1>1, LoopTypes DEF StartRun, ReplicasEnd
    <2>2. cur' \in Iterations /\ cur' \in 0 .. MaxIterations /\ cur = 0
      BY <1>0, <2>1, LoopBounds DEF Iterations, PhaseInv
    <2>3. \A i \in Iterations : i > 0 /\ ~(i < 1)
      BY DEF Iterations
    <2>4. PhaseInv'
      BY <1>0, <2>1, <2>2, <2>3 DEF PhaseInv, IterationsAreDecidedInTurn, TerminalPhase
    <2> QED BY <1>0, <2>1, <2>2, <2>4, RunMoves DEF Phases
  <1>2. ASSUME NEW approve \in BOOLEAN, ResolveWait(approve) PROVE LoopInv'
    <2>1. /\ phase = "WAITING_FOR_HUMAN" /\ phase \in LivePhase /\ ReplicasEnd
          /\ UNCHANGED <<spent, manifest, decided, engineVars, limitVars>>
      BY <1>2, LoopTypes DEF ResolveWait, ReplicasEnd, LivePhase, Phases, TerminalPhase
    <2>2. CASE OpenNextIteration(cur)
      <3>1. decided'[cur] = "WAIT_FOR_HUMAN"
        BY <1>0, <2>1 DEF PhaseInv
      <3>2. phase' \in Phases /\ cur' \in 0 .. MaxIterations /\ PhaseInv'
        BY <1>0, <2>1, <2>2, <3>1, OpenNext
      <3> QED BY <1>0, <2>1, <3>2, RunMoves
    <2>3. CASE phase' = ApplyPhaseTransition(phase, "approvalDenied") /\ UNCHANGED cur
      <3>1. phase' \in TerminalPhase
        BY <2>1, <2>3 DEF ApplyPhaseTransition, TransitionFrom, EventPhase, AnyLive, TerminalPhase
      <3>2. PhaseInv'
        BY <1>0, <2>1, <2>3, <3>1, PhaseEnds
      <3> QED BY <1>0, <2>1, <2>3, <3>1, <3>2, RunMoves
    <2> QED BY <1>2, <2>2, <2>3 DEF ResolveWait
  <1>3. ASSUME NEW r \in Replicas, TransitionRun(r) \/ FailRunAndExecution(r) PROVE LoopInv'
    <2>1. /\ ReplicasEnd /\ UNCHANGED <<cur, spent, manifest, decided, teamRev, planner, worker, verifier, batchPlan, limitVars>>
          /\ teamExec' = teamExec \/ teamExec' = "FAILED"
      BY <1>3, RestEnds DEF TransitionRun, FailRunAndExecution, FailExecution
    <2>2. PICK event \in Raised \ {"none"} : phase' = ApplyPhaseTransition(phase, event)
      <3>1. replica[r] \in ReplicaState /\ ReplicaInv(r)
        BY DEF LoopInv, LoopTypeOK
      <3>2. replica[r].event \in Raised /\ (replica[r].pc = "transition" => replica[r].event # "none")
        BY <3>1 DEF ReplicaState, ReplicaInv
      <3> QED BY <1>3, <3>2 DEF TransitionRun, FailRunAndExecution, Raised
    <2>3. CASE phase' = phase
      <3>1. PhaseInv'
        BY <1>0, <2>1, <2>3 DEF PhaseInv, IterationsAreDecidedInTurn
      <3> QED BY <1>0, <2>1, <2>3, <3>1, RunMoves
    <2>4. CASE phase \in LivePhase /\ phase' \in TerminalPhase
      <3>1. PhaseInv'
        BY <1>0, <2>1, <2>4, PhaseEnds
      <3> QED BY <1>0, <2>1, <2>4, <3>1, RunMoves
    <2>5. CASE phase = "WORKING" /\ phase' = "VERIFYING"
      <3>1. PhaseInv' /\ phase' \in Phases
        BY <1>0, <2>1, <2>5 DEF PhaseInv, IterationsAreDecidedInTurn, TerminalPhase, Phases
      <3> QED BY <1>0, <2>1, <3>1, RunMoves
    <2> QED BY <1>0, <2>2, <2>3, <2>4, <2>5, TransitionKinds
  <1>4. ASSUME NEW r \in Replicas, ConsumeDecision(r) PROVE LoopInv'
    <2> DEFINE n == replica[r].n
               k == verifier[n].names
    <2>1. /\ ReplicasEnd /\ UNCHANGED <<engineVars, limitVars>>
          /\ ReplicaInv(r) /\ n \in Iterations /\ IterationInv(n) /\ verifier[n] \in VerifierState
          /\ verifier[n].step = "SUCCESS" /\ verifier[n].action # "INVALID"
      BY <1>4, RestEnds, LoopTypes DEF ConsumeDecision, LoopInv, ReplicaInv
    <2>2. k \in 1 .. n /\ k \in Iterations /\ verifier[n].action \in Actions
      BY <2>1, LoopBounds DEF IterationInv, VerifierState, Iterations
    <2>3. CASE ~Consumes(k)
      <3>1. UNCHANGED runVars
        BY <1>4, <2>3 DEF ConsumeDecision
      <3>2. PhaseInv'
        BY <1>0, <2>1, <3>1, PhaseFrame
      <3> QED BY <1>0, <2>1, <3>1, <3>2, RunMoves DEF runVars
    <2>4. CASE Consumes(k)
      <3>1. k = cur /\ phase = "VERIFYING" /\ phase \in LivePhase
        BY <1>0, <2>2, <2>4 DEF Consumes, PhaseInv, IterationsAreDecidedInTurn, LivePhase, Phases, TerminalPhase
      <3>2. /\ decided' = [decided EXCEPT ![cur] = verifier[n].action] /\ UNCHANGED <<spent, manifest>>
            /\ \/ phase' \in {"ACCEPTED", "FAILED"} /\ cur' = cur
               \/ phase' = "WAITING_FOR_HUMAN" /\ cur' = cur /\ verifier[n].action = "WAIT_FOR_HUMAN"
               \/ OpenNextIteration(cur) /\ verifier[n].action = "CONTINUE"
        BY <1>4, <2>2, <2>4, <3>1 DEF ConsumeDecision, Actions
      <3>3. /\ decided' \in [Iterations -> Actions \cup {"NONE"}] /\ decided'[cur] = verifier[n].action
            /\ \A i \in Iterations : i # cur => decided'[i] = decided[i]
        BY <1>0, <2>2, <3>1, <3>2
      <3>4. CASE cur' = cur /\ phase' \in {"ACCEPTED", "FAILED"}
        <4>1. PhaseInv'
          BY <1>0, <3>1, <3>3, <3>4 DEF PhaseInv, IterationsAreDecidedInTurn, TerminalPhase
        <4> QED BY <1>0, <2>1, <3>2, <3>3, <3>4, <4>1, RunMoves DEF Phases
      <3>5. CASE cur' = cur /\ phase' = "WAITING_FOR_HUMAN" /\ verifier[n].action = "WAIT_FOR_HUMAN"
        <4>1. PhaseInv'
          BY <1>0, <2>1, <3>1, <3>3, <3>5 DEF PhaseInv, IterationsAreDecidedInTurn, TerminalPhase
        <4> QED BY <1>0, <2>1, <3>2, <3>3, <3>5, <4>1, RunMoves DEF Phases
      <3>6. CASE OpenNextIteration(cur) /\ verifier[n].action = "CONTINUE"
        <4>1. phase' \in Phases /\ cur' \in 0 .. MaxIterations /\ PhaseInv'
          BY <2>1, <3>1, <3>3, <3>6, OpenNext
        <4> QED BY <1>0, <2>1, <3>2, <3>3, <4>1, RunMoves
      <3> QED BY <3>2, <3>4, <3>5, <3>6
    <2> QED BY <2>3, <2>4
  <1> QED BY <1>1, <1>2, <1>3, <1>4

\* A reconciler that creates the planner step of the open iteration.
LEMMA CreateCommits ==
  ASSUME LoopInv, NEW r \in Replicas, CreatePlannerStep(r) PROVE LoopInv'
PROOF
  <1> USE DEF engineVars
  <1>0. /\ planner \in [Iterations -> PlannerState] /\ verifier \in [Iterations -> VerifierState]
        /\ teamRev \in 1 .. LoopRevLimit /\ teamRev \in Nat /\ cur \in Nat /\ PhaseInv
        /\ worker \in [Iterations -> [Tasks -> WorkerStatus]]
        /\ batchPlan \in [Iterations -> {"none", "PENDING", "ACCEPTED", "REJECTED", "STALE"}]
        /\ teamExec \in {"RUNNING", "COMPLETED", "FAILED", "CANCELLED"}
        /\ \A j \in Iterations : planner[j].base \in Nat
    BY LoopTypes, LoopBounds DEF LoopInv, LoopTypeOK, CoordTypeOK, PlannerState
  <1>1. ReplicasEnd /\ UNCHANGED <<runVars, teamExec, worker, verifier, batchPlan, limitVars>>
    BY RestEnds DEF CreatePlannerStep
  <1>2. CASE UNCHANGED <<teamRev, planner>>
    <2>1. CoordTypeOK'
      BY <1>0, <1>1, <1>2, EngineTypes
    <2>2. PhaseInv' /\ RolesStand /\ \A i \in Iterations : IterationInv(i)'
      BY <1>0, <1>1, <1>2, PhaseFrame DEF LoopInv, IterationInv, RolesStand
    <2> QED BY <1>1, <2>1, <2>2, LoopMoves
  <1>3. CASE ~UNCHANGED <<teamRev, planner>>
    <2>1. /\ phase = "PLANNING" /\ planner[cur].step = "none" /\ teamRev < LoopRevLimit
          /\ teamRev' = teamRev + 1
          /\ planner' = [planner EXCEPT ![cur].step = "ready", ![cur].base = teamRev + 1]
      BY <1>3 DEF CreatePlannerStep
    <2>2. cur \in Iterations /\ planner[cur] \in PlannerState /\ IterationInv(cur)
      BY <1>0, <2>1, LoopTypes DEF PhaseInv, Iterations, LoopInv
    <2>3. teamRev' \in 1 .. LoopRevLimit /\ teamRev + 1 \in 0 .. LoopRevLimit + 1 /\ teamRev + 1 <= LoopRevLimit
      BY <1>0, <2>1, LoopBounds
    <2> DEFINE w == [planner[cur] EXCEPT !.step = "ready", !.base = teamRev + 1]
    <2>4. w \in PlannerState /\ w.step = "ready" /\ w.base = teamRev + 1 /\ w.tasks = planner[cur].tasks
      BY <2>2, <2>3 DEF PlannerState
    <2>5. planner' = [planner EXCEPT ![cur] = w]
      BY <1>0, <2>1, <2>2
    <2> HIDE DEF w
    <2>6. /\ planner' \in [Iterations -> PlannerState] /\ planner'[cur] = w
          /\ \A j \in Iterations : j # cur => planner'[j] = planner[j]
      BY <1>0, <2>2, <2>4, <2>5
    <2>7. CoordTypeOK'
      BY <1>0, <1>1, <2>3, <2>6, EngineTypes
    <2>8. PhaseInv'
      BY <1>0, <1>1, <2>1, PhaseFrame
    <2>9. RolesStand
      BY <1>1, <2>1, <2>6 DEF RolesStand
    <2>10. ASSUME NEW j \in Iterations PROVE IterationInv(j)'
      BY <1>0, <1>1, <2>1, <2>2, <2>3, <2>4, <2>6 DEF LoopInv, IterationInv
    <2> QED BY <1>1, <2>7, <2>8, <2>9, <2>10, LoopMoves
  <1> QED BY <1>2, <1>3

\* A reconciler that submits the batch it has read a planner report of.
LEMMA SubmitCommits ==
  ASSUME LoopInv, NEW r \in Replicas, SubmitIterationBatch(r) PROVE LoopInv'
PROOF
  <1> USE DEF engineVars
  <1> DEFINE i == replica[r].n
             Ends == /\ phase' \in {"LIMIT_REACHED", "FAILED"}
                     /\ UNCHANGED <<cur, spent, manifest, decided, teamRev, planner, worker, verifier>>
                     /\ teamExec' = teamExec \/ teamExec' = "FAILED"
                     /\ \/ batchPlan' = batchPlan
                        \/ \E v \in {"STALE", "REJECTED"} : batchPlan' = [batchPlan EXCEPT ![i] = v]
             Throws == UNCHANGED <<runVars, engineVars>>
             Waits == /\ batchPlan' = [batchPlan EXCEPT ![i] = "PENDING"]
                      /\ UNCHANGED <<runVars, teamExec, teamRev, planner, worker, verifier>>
             Binds == /\ Admissible(i) /\ OnItsBase(i) /\ teamRev < LoopRevLimit
                      /\ ActivateBatch(i) /\ BindIteration(i) /\ UNCHANGED <<teamExec, planner>>
  <1>0. /\ replica[r].pc = "submit" /\ UNCHANGED limitVars /\ i \in Iterations
        /\ planner[i].step = "SUCCESS" /\ PhaseInv /\ IterationInv(i)
        /\ phase \in Phases /\ cur \in 0 .. MaxIterations
        /\ decided \in [Iterations -> Actions \cup {"NONE"}]
        /\ batchPlan \in [Iterations -> {"none", "PENDING", "ACCEPTED", "REJECTED", "STALE"}]
        /\ teamExec \in {"RUNNING", "COMPLETED", "FAILED", "CANCELLED"}
        /\ replica \in [Replicas -> ReplicaState] /\ replica[r] \in ReplicaState
    BY DEF SubmitIterationBatch, LoopInv, ReplicaInv, LoopTypeOK, CoordTypeOK
  <1>1. CASE ReplicaGoto(r, "abandon") /\ UNCHANGED <<runVars, engineVars>>
    <2>1. ReplicasEnd
      BY <1>0, <1>1 DEF ReplicaGoto, ReplicasEnd, ReplicaState, Reading
    <2>2. PhaseInv'
      BY <1>0, <1>1, PhaseFrame
    <2> QED BY <1>0, <1>1, <2>1, <2>2, RunMoves DEF runVars
  <1>2. CASE phase = "PLANNING" /\ Rest(r) /\ (Ends \/ Waits \/ Binds \/ Throws)
    <2>0. ReplicasEnd /\ phase \in LivePhase /\ cur \in Iterations
      BY <1>0, <1>2, RestEnds, LoopBounds DEF LivePhase, Phases, TerminalPhase, PhaseInv, Iterations
    <2>1. CASE Ends
      <3>1. PhaseInv' /\ phase' \in Phases
        BY <1>0, <2>0, <2>1, PhaseEnds DEF TerminalPhase, Phases
      <3>2. /\ batchPlan' \in [Iterations -> {"none", "PENDING", "ACCEPTED", "REJECTED", "STALE"}]
            /\ \A j \in Iterations : batchPlan'[j] = "PENDING" => batchPlan[j] = "PENDING"
        BY <1>0, <2>1
      <3> QED BY <1>0, <2>0, <2>1, <3>1, <3>2, RunMoves
    <2>2. CASE Waits
      <3>1. PhaseInv'
        BY <1>0, <2>2, PhaseFrame
      <3>2. /\ batchPlan' \in [Iterations -> {"none", "PENDING", "ACCEPTED", "REJECTED", "STALE"}]
            /\ \A j \in Iterations : batchPlan'[j] = "PENDING" => batchPlan[j] = "PENDING" \/ planner[j].step = "SUCCESS"
        BY <1>0, <2>2
      <3> QED BY <1>0, <2>0, <2>2, <3>1, <3>2, RunMoves DEF runVars
    <2>3. CASE Binds
      <3>1. /\ teamRev' \in 1 .. LoopRevLimit
            /\ worker' \in [Iterations -> [Tasks -> WorkerStatus]]
            /\ verifier' \in [Iterations -> VerifierState]
            /\ batchPlan' \in [Iterations -> {"none", "PENDING", "ACCEPTED", "REJECTED", "STALE"}]
            /\ RolesStand
            /\ \A j \in Iterations : IterationInv(j)'
        BY <1>0, <2>3, ActivateMoves DEF OnItsBase
      <3>2. planner[i].tasks \in SUBSET Tasks /\ Cardinality(planner[i].tasks) \in Nat
        BY <1>0, LoopTypes, FS_CardinalityType DEF PlannerState, IterationInv
      <3>3. spent' \in 0 .. MaxTotalWorkers
        BY <2>3, <3>2, LoopTypes, LoopBounds DEF BindIteration, Admissible
      <3>4. manifest' \in [Iterations -> SUBSET Tasks] /\ phase' = "WORKING" /\ UNCHANGED <<cur, decided>>
        BY <2>3, <3>2 DEF BindIteration, LoopInv, LoopTypeOK, CoordTypeOK
      <3>5. \A q \in Replicas : replica'[q].n \in 0 .. MaxIterations
        BY <2>0 DEF ReplicasEnd, ReplicaState
      <3>6. CoordTypeOK'
        BY <1>0, <2>3, <3>1, <3>3, <3>4, <3>5
        DEF LoopInv, LoopTypeOK, CoordTypeOK, VerifierState, limitVars, Phases
      <3>7. PhaseInv'
        BY <1>0, <1>2, <2>3, <3>4 DEF PhaseInv, IterationsAreDecidedInTurn, TerminalPhase
      <3> QED BY <2>0, <3>1, <3>6, <3>7, LoopMoves
    <2>4. CASE Throws
      <3>1. PhaseInv'
        BY <1>0, <2>4, PhaseFrame
      <3> QED BY <1>0, <2>0, <2>4, <3>1, RunMoves DEF runVars
    <2> QED BY <1>2, <2>1, <2>2, <2>3, <2>4
  <1>3. \/ ReplicaGoto(r, "abandon") /\ UNCHANGED <<runVars, engineVars>>
        \/ phase = "PLANNING" /\ Rest(r) /\ (Ends \/ Waits \/ Binds \/ Throws)
    BY DEF SubmitIterationBatch, FailStaleBatch, FailExecution
  <1> QED BY <1>1, <1>2, <1>3

-----------------------------------------------------------------------------
(***************************************************************************)
(* Invariance and the properties of the loop                               *)
(***************************************************************************)

\* Every step of the loop and of the engine beside it keeps the invariant.
LEMMA LoopNext ==
  ASSUME LoopInv, [CoordNext]_coordVars PROVE LoopInv'
PROOF
  <1>1. CASE UNCHANGED coordVars
    <2> USE DEF coordVars, runVars, engineVars, limitVars
    <2>1. CoordTypeOK' /\ ReplicasEnd
      BY <1>1, LoopTypes DEF LoopInv, LoopTypeOK, CoordTypeOK, ReplicasEnd
    <2>2. PhaseInv' /\ RolesStand /\ \A i \in Iterations : IterationInv(i)'
      BY <1>1 DEF LoopInv, PhaseInv, IterationsAreDecidedInTurn, RolesStand, IterationInv
    <2> QED BY <2>1, <2>2, LoopMoves
  <1>2. ASSUME NEW r \in Replicas, ReconcileLoop(r) PROVE LoopInv'
    BY <1>2, LoopReads, RunCommits, CreateCommits, SubmitCommits DEF ReconcileLoop
  <1>3. ASSUME NEW i \in Iterations, RunStep(i) PROVE LoopInv'
    BY <1>3, EngineMoves
  <1> QED BY <1>1, <1>2, <1>3, RunCommits, BesideMoves DEF CoordNext

\* The invariant holds in every reachable state.
THEOREM LoopInvariance == CoordSpec => []LoopInv
PROOF
  <1>1. LoopInv /\ [CoordNext]_coordVars => LoopInv'
    BY LoopNext
  <1> QED BY <1>1, LoopInit, PTL DEF CoordSpec

\* The loop's variables keep their types; in particular the workers ever
\* bound stay within their total and the revisions a planner names within
\* the bound.
THEOREM LoopTypeCorrect == CoordSpec => []CoordTypeOK
PROOF
  <1>1. LoopInv => CoordTypeOK
    BY DEF LoopInv, LoopTypeOK
  <1> QED BY <1>1, LoopInvariance, PTL

-----------------------------------------------------------------------------
(***************************************************************************)
(* The workers bound to the run                                            *)
(***************************************************************************)

Bound == {b \in Iterations \X Tasks : b[2] \in manifest[b[1]]}

\* The count is of the bindings; an iteration that can still be bound, and
\* every later one, has none, so that no reconciler binds or counts it twice.
BindingInv ==
  /\ IsFiniteSet(Bound) /\ spent = Cardinality(Bound)
  /\ \A i \in Iterations : i > cur \/ (i = cur /\ phase = "PLANNING") => manifest[i] = {}

\* Steps that bind nothing: the phase goes to PLANNING only with a new iteration.
LEMMA BindingStands ==
  ASSUME LoopInv, BindingInv, UNCHANGED <<manifest, spent>>,
         \/ cur' = cur /\ (phase' = "PLANNING" => phase = "PLANNING")
         \/ cur' = cur + 1
  PROVE  BindingInv'
PROOF
  <1>1. Bound' = Bound /\ cur \in Nat /\ Iterations \subseteq Nat
    BY LoopTypes DEF Bound
  <1>2. \A i \in Iterations : i > cur' \/ (i = cur' /\ phase' = "PLANNING") => i > cur \/ (i = cur /\ phase = "PLANNING")
    BY <1>1
  <1> QED BY <1>1, <1>2 DEF BindingInv

\* The one step that binds adds as many workers as the batch has tasks.
LEMMA BindingAdds ==
  ASSUME LoopInv, BindingInv, NEW i \in Iterations, phase = "PLANNING", cur = i, BindIteration(i)
  PROVE  BindingInv'
PROOF
  <1> DEFINE T == planner[i].tasks
             New == {<<i, t>> : t \in T}
  <1>1. /\ T \subseteq Tasks /\ IsFiniteSet(T) /\ manifest \in [Iterations -> SUBSET Tasks]
        /\ manifest' = [manifest EXCEPT ![i] = T] /\ spent' = spent + Cardinality(T) /\ cur' = cur /\ phase' = "WORKING"
    BY LoopTypes DEF BindIteration, LoopInv, IterationInv, LoopTypeOK, CoordTypeOK, PlannerState
  <1>2. IsFiniteSet(New) /\ Cardinality(New) = Cardinality(T)
    <2> DEFINE f == [t \in T |-> <<i, t>>]
    <2>1. f \in Bijection(T, New)
      BY DEF Bijection, Injection, Surjection, IsInjective
    <2> QED BY <1>1, <2>1, FS_Bijection DEF ExistsBijection
  <1>3. manifest[i] = {}
    BY DEF BindingInv
  <1>4. Bound' = Bound \cup New
    <2>1. \A b \in Iterations \X Tasks : b[2] \in manifest'[b[1]] <=> b[2] \in manifest[b[1]] \/ b \in New
      <3> SUFFICES ASSUME NEW j \in Iterations, NEW t \in Tasks
                   PROVE  t \in manifest'[j] <=> t \in manifest[j] \/ <<j, t>> \in New
        OBVIOUS
      <3>1. CASE j = i
        BY <1>1, <1>3, <3>1
      <3>2. CASE j # i
        BY <1>1, <3>2
      <3> QED BY <3>1, <3>2
    <2>2. New \subseteq Iterations \X Tasks
      BY <1>1
    <2> QED BY <2>1, <2>2 DEF Bound
  <1>5. Bound \cap New = {}
    BY <1>3 DEF Bound
  <1>6. Cardinality(Bound') = Cardinality(Bound) + Cardinality(New) /\ IsFiniteSet(Bound')
    <2>1. Cardinality(Bound \cup New) = Cardinality(Bound) + Cardinality(New)
      <3> HIDE DEF New
      <3>1. /\ Cardinality(Bound \cup New) = Cardinality(Bound) + Cardinality(New) - Cardinality(Bound \cap New)
            /\ Cardinality(Bound) \in Nat /\ Cardinality(New) \in Nat
        BY <1>2, FS_Union, FS_CardinalityType DEF BindingInv
      <3>2. Cardinality(Bound \cap New) = 0
        BY <1>5, FS_EmptySet
      <3> QED BY <3>1, <3>2
    <2> QED BY <1>2, <1>4, <2>1, FS_Union DEF BindingInv
  <1>7. \A j \in Iterations : j > cur' \/ (j = cur' /\ phase' = "PLANNING") => manifest'[j] = {}
    BY <1>1, LoopTypes DEF BindingInv
  <1> QED BY <1>1, <1>2, <1>6, <1>7 DEF BindingInv

\* Every other step of the loop leaves the bindings alone.
LEMMA BindingStep ==
  ASSUME LoopInv, BindingInv, [CoordNext]_coordVars
  PROVE  BindingInv'
PROOF
  <1> USE DEF runVars, engineVars, limitVars
  <1> DEFINE Stands == /\ UNCHANGED <<manifest, spent>>
                       /\ \/ cur' = cur /\ (phase' = "PLANNING" => phase = "PLANNING")
                          \/ cur' = cur + 1
  <1>1. CASE Stands
    BY <1>1, BindingStands
  <1>2. UNCHANGED runVars => Stands
    BY DEF runVars
  <1>3. StartRun => Stands
    BY DEF StartRun, LoopInv, PhaseInv
  <1>4. \A i : OpenNextIteration(i) => \/ cur' = cur /\ phase' = "LIMIT_REACHED"
                                      \/ cur' = cur + 1
    BY DEF OpenNextIteration
  <1>5. ASSUME NEW e \in Raised \ {"none"} PROVE \A p : ApplyPhaseTransition(p, e) = "PLANNING" => p = "PLANNING"
    <2>1. EventPhase(e) # "PLANNING"
      BY DEF EventPhase, Raised
    <2> QED BY <2>1 DEF ApplyPhaseTransition
  <1>6. ASSUME NEW b \in BOOLEAN, ResolveWait(b) PROVE Stands
    <2>1. ApplyPhaseTransition("WAITING_FOR_HUMAN", "approvalDenied") # "PLANNING"
      BY DEF ApplyPhaseTransition, EventPhase, TransitionFrom, AnyLive
    <2> QED BY <1>4, <1>6, <2>1 DEF ResolveWait
  <1>7. ASSUME NEW r \in Replicas, ReconcileLoop(r) PROVE BindingInv'
    <2>1. CASE TransitionRun(r) \/ FailRunAndExecution(r)
      <3>1. "fail" \in Raised \ {"none"} /\ (TransitionRun(r) => replica[r].event \in Raised \ {"none"})
        BY DEF LoopInv, LoopTypeOK, ReplicaState, ReplicaInv, TransitionRun, Raised
      <3> QED BY <1>1, <1>5, <2>1, <3>1 DEF TransitionRun, FailRunAndExecution
    <2>2. CASE ConsumeDecision(r)
      <3>1. CASE UNCHANGED runVars
        BY <1>1, <1>2, <3>1
      <3>2. CASE ~UNCHANGED runVars
        <4>1. Consumes(verifier[replica[r].n].names) /\ UNCHANGED <<spent, manifest>>
          BY <2>2, <3>2 DEF ConsumeDecision
        <4>2. verifier[replica[r].n].action \in Actions
          BY <2>2, LoopTypes DEF ConsumeDecision, LoopInv, ReplicaInv, IterationInv, VerifierState
        <4>3. Stands
          BY <1>4, <2>2, <3>2, <4>1, <4>2 DEF ConsumeDecision, Actions
        <4> QED BY <1>1, <4>3
      <3> QED BY <3>1, <3>2
    <2>3. CASE SubmitIterationBatch(r)
      <3>1. CASE UNCHANGED <<spent, manifest, cur>> /\ (phase' = "PLANNING" => phase = "PLANNING")
        BY <1>1, <3>1
      <3>2. CASE /\ phase = "PLANNING" /\ cur = replica[r].n /\ BindIteration(replica[r].n)
        <4>1. replica[r].n \in Iterations
          BY <2>3 DEF SubmitIterationBatch, LoopInv, ReplicaInv
        <4> QED BY <3>2, <4>1, BindingAdds
      <3> QED BY <2>3, <3>1, <3>2 DEF SubmitIterationBatch, FailStaleBatch
    <2>4. CASE UNCHANGED runVars
      BY <1>1, <1>2, <2>4
    <2> QED
      BY <1>7, <2>1, <2>2, <2>3, <2>4 DEF ReconcileLoop, Observe, ReadPlanner, ReadWorkerStep, ReadWorkerAttempt, JudgeWorkers, ReadVerifier,
         CreatePlannerStep
  <1>8. ASSUME NEW i \in Iterations, RunStep(i) \/ ApproveBatch(i) \/ DenyBatch(i) PROVE UNCHANGED runVars
    BY <1>8 DEF RunStep, ClaimPlanner, FailPlanner, FinishPlanner, RunWorker, ClaimVerifier, FailVerifier, FinishVerifier,
       ApproveBatch, DenyBatch
  <1>9. UNCHANGED coordVars \/ CompleteExecution \/ CancelTeam \/ ForeignPatch
        \/ (\E l \in {"deadline", "budget", "connection"} : LoseAuthority(l)) => UNCHANGED runVars
    BY DEF CompleteExecution, CancelTeam, ForeignPatch, LoseAuthority, coordVars
  <1> QED BY <1>1, <1>2, <1>3, <1>6, <1>7, <1>8, <1>9 DEF CoordNext

\* The workers ever bound to a run are counted once each and stay within its
\* total (bindIteration, validateTaskBatchProposal), whatever the order in
\* which reconcilers submit and limits are met.
THEOREM WorkersAreBoundedHolds == CoordSpec => []WorkersAreBounded
PROOF
  <1>1. CoordInit => BindingInv
    <2> SUFFICES ASSUME CoordInit PROVE BindingInv
      OBVIOUS
    <2>1. \A i \in Iterations : manifest[i] = {}
      BY DEF CoordInit
    <2>2. Bound = {}
      BY <2>1 DEF Bound
    <2> QED BY <2>1, <2>2, FS_EmptySet DEF BindingInv, CoordInit
  <1>2. LoopInv /\ BindingInv => WorkersAreBounded
    BY LoopTypes DEF BindingInv, Bound, WorkersAreBounded
  <1>3. LoopInv /\ BindingInv /\ [CoordNext]_coordVars => BindingInv'
    BY BindingStep
  <1> QED BY <1>1, <1>2, <1>3, LoopInvariance, PTL DEF CoordSpec

\* Iterations are decided one after the other, and the execution does not
\* complete under a loop that is still alive, for any number of reconcilers
\* that commit what they read before.
THEOREM LoopIsOrderlyHolds == CoordSpec => []LoopIsOrderly
PROOF
  <1>1. LoopInv => LoopIsOrderly
    BY DEF LoopInv, PhaseInv, LoopIsOrderly, LoopHoldsExecution, LivePhase
  <1> QED BY <1>1, LoopInvariance, PTL

\* No decision and no outcome of the run is rewritten, and a batch is bound
\* only on the revision its planner was frozen on.
THEOREM LoopHistoryStandsHolds == CoordSpec => LoopHistoryStands
PROOF
  <1> USE DEF runVars, engineVars, limitVars
  <1>1. ASSUME LoopInv, CoordNext PROVE DecisionsAreFinal
    <2>1. ASSUME NEW r \in Replicas, ConsumeDecision(r) PROVE DecisionsAreFinal
      <3>1. decided \in [Iterations -> Actions \cup {"NONE"}]
        BY <1>1 DEF LoopInv, LoopTypeOK, CoordTypeOK
      <3> QED BY <2>1, <3>1 DEF ConsumeDecision, Consumes, DecisionsAreFinal
    <2>2. CASE decided' = decided
      BY <2>2 DEF DecisionsAreFinal
    <2>3. ASSUME NEW r \in Replicas, SubmitIterationBatch(r) PROVE decided' = decided
      BY <2>3 DEF SubmitIterationBatch, FailStaleBatch, BindIteration
    <2>4. ASSUME NEW r \in Replicas, ReconcileLoop(r), ~ConsumeDecision(r) PROVE decided' = decided
      BY <2>3, <2>4 DEF ReconcileLoop, Observe, ReadPlanner, ReadWorkerStep, ReadWorkerAttempt, JudgeWorkers, ReadVerifier,
         TransitionRun, FailRunAndExecution, CreatePlannerStep
    <2>5. ASSUME NEW i \in Iterations, RunStep(i) \/ ApproveBatch(i) \/ DenyBatch(i) PROVE decided' = decided
      BY <2>5 DEF RunStep, ClaimPlanner, FailPlanner, FinishPlanner, RunWorker, ClaimVerifier, FailVerifier, FinishVerifier,
         ApproveBatch, DenyBatch
    <2> QED
      BY <1>1, <2>1, <2>2, <2>4, <2>5 DEF CoordNext, StartRun, ResolveWait, CompleteExecution, CancelTeam,
         ForeignPatch, LoseAuthority
  <1>2. ASSUME LoopInv, CoordNext PROVE RunOutcomeIsFinal
    <2> SUFFICES ASSUME phase \in TerminalPhase PROVE phase' = phase
      BY DEF RunOutcomeIsFinal
    <2>1. phase \notin {"NONE", "PLANNING", "VERIFYING", "WAITING_FOR_HUMAN"}
      BY DEF TerminalPhase
    <2>2. ASSUME NEW r \in Replicas, SubmitIterationBatch(r) PROVE phase' = phase
      BY <2>1, <2>2 DEF SubmitIterationBatch
    <2>3. ASSUME NEW r \in Replicas, ReconcileLoop(r) PROVE phase' = phase
      BY <2>1, <2>2, <2>3 DEF ReconcileLoop, Observe, ReadPlanner, ReadWorkerStep, ReadWorkerAttempt, JudgeWorkers, ReadVerifier,
         TransitionRun, FailRunAndExecution, ApplyPhaseTransition, CreatePlannerStep, ConsumeDecision, Consumes
    <2>4. ASSUME NEW i \in Iterations, RunStep(i) \/ ApproveBatch(i) \/ DenyBatch(i) PROVE phase' = phase
      BY <2>4 DEF RunStep, ClaimPlanner, FailPlanner, FinishPlanner, RunWorker, ClaimVerifier, FailVerifier, FinishVerifier,
         ApproveBatch, DenyBatch
    <2> QED
      BY <1>2, <2>1, <2>3, <2>4 DEF CoordNext, StartRun, ResolveWait, CompleteExecution, CancelTeam,
         ForeignPatch, LoseAuthority
  <1>3. ASSUME LoopInv, CoordNext PROVE BatchKeepsItsBase
    <2>1. CASE manifest' = manifest
      BY <2>1 DEF BatchKeepsItsBase
    <2>2. ASSUME NEW r \in Replicas, SubmitIterationBatch(r) PROVE BatchKeepsItsBase
      <3> DEFINE i == replica[r].n
      <3>1. \/ manifest' = manifest
            \/ OnItsBase(i) /\ ActivateBatch(i) /\ manifest' = [manifest EXCEPT ![i] = planner[i].tasks]
        BY <2>2 DEF SubmitIterationBatch, FailStaleBatch, BindIteration
      <3>2. manifest \in [Iterations -> SUBSET Tasks]
        BY <1>3 DEF LoopInv, LoopTypeOK, CoordTypeOK
      <3> QED BY <2>1, <3>1, <3>2 DEF BatchKeepsItsBase, OnItsBase, ActivateBatch
    <2>3. ASSUME NEW r \in Replicas, ReconcileLoop(r), ~SubmitIterationBatch(r) PROVE manifest' = manifest
      BY <2>3 DEF ReconcileLoop, Observe, ReadPlanner, ReadWorkerStep, ReadWorkerAttempt, JudgeWorkers, ReadVerifier,
         TransitionRun, FailRunAndExecution, CreatePlannerStep, ConsumeDecision
    <2>4. ASSUME NEW i \in Iterations, RunStep(i) \/ ApproveBatch(i) \/ DenyBatch(i) PROVE manifest' = manifest
      BY <2>4 DEF RunStep, ClaimPlanner, FailPlanner, FinishPlanner, RunWorker, ClaimVerifier, FailVerifier, FinishVerifier,
         ApproveBatch, DenyBatch
    <2> QED
      BY <1>3, <2>1, <2>2, <2>3, <2>4 DEF CoordNext, StartRun, ResolveWait, CompleteExecution, CancelTeam,
         ForeignPatch, LoseAuthority
  <1>4. LoopInv /\ [CoordNext]_coordVars => [DecisionsAreFinal /\ RunOutcomeIsFinal /\ BatchKeepsItsBase]_coordVars
    BY <1>1, <1>2, <1>3
  <1> QED BY <1>4, LoopInvariance, PTL DEF CoordSpec, LoopHistoryStands
=============================================================================
