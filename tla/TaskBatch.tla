----------------------------- MODULE TaskBatch -----------------------------
(***************************************************************************)
(* A Planner's TaskBatch against the frozen team: parseCoordinationConfig, *)
(* parseTaskBatchProposal, validateTaskBatchProposal, and the PlanPatch    *)
(* that compileIterationPlanPatch makes of an accepted batch, judged in    *)
(* turn by the plan rules.                                                 *)
(*                                                                         *)
(* The second half is what the Verifier of the iteration is shown.         *)
(*                                                                         *)
(* A selection is [kind, name, agent]; a task is [id, agent, conn, model,  *)
(* deps, ok].  "" stands for a field that is not given.                    *)
(***************************************************************************)
EXTENDS PlanRules

CONSTANTS
  Teams,        \* CoordinationConfigs: [planner, verifier, workers, targets, perIteration, total, ok]
  TaskBatches,     \* TaskBatchProposals: sequences of tasks
  Transport,    \* toTransportAgent: routing name of a connection or agent name
  MaxBatch      \* COORDINATION_BOUNDS.maxWorkersPerIteration

\* A patch that fits PLAN_PATCH_BOUNDS (20 operations) fits the plan rules,
\* even as one chain (MAX_DEPTH 20), one fan (MAX_FANOUT 20) or alone in a plan
\* (MAX_STEPS 100).  A batch (up to 64 tasks) need not fit a patch.
ASSUME BatchAssumption ==
  /\ MaxBatch \in Nat
  /\ MaxOperations <= MaxPlanDepth /\ MaxOperations <= MaxFanout + 1 /\ MaxOperations <= MaxSteps
  /\ \A t \in Teams : t.total \in Nat /\ t.targets \in Seq([conn : STRING, model : STRING])
  /\ \A b \in TaskBatches : b \in Seq([id : STRING, agent : STRING, conn : STRING, model : STRING, deps : Seq(STRING), ok : BOOLEAN])

VARIABLES team, batch, workers, outcome, compiled
batchVars == <<team, batch, workers, outcome, compiled>>

\* A field that is left out.
NotGiven == ""

\* parseCoordinationConfig: a role target is the role's own connection, and a
\* worker target one of the allowed connection workers.
RoleTarget(role, target) == target.conn # NotGiven => role.kind = "connection" /\ role.name = target.conn

ValidTeam(t) ==
  /\ t.ok /\ t.workers # {} /\ t.perIteration \in 1 .. MaxBatch
  /\ RoleTarget(t.planner, t.plannerTarget) /\ RoleTarget(t.verifier, t.verifierTarget)
  /\ \A i \in DOMAIN t.targets : \E w \in t.workers : w.kind = "connection" /\ w.name = t.targets[i].conn

TaskIds(b) == {b[i].id : i \in DOMAIN b}

\* parseTaskProposal: distinct dependencies, no self; a model needs a connection.
ParsedTask(k) ==
  /\ k.ok
  /\ IsInjective(k.deps) /\ ~Contains(k.deps, k.id)
  /\ k.model # NotGiven => k.conn # NotGiven

\* assertAcyclic: visiting and visited sets shared by the whole walk; the walk
\* stops at the first task met while it is being visited.
Acyclic(b) ==
  LET ids == TaskIds(b)
      visit[at \in Seq(ids) \X (SUBSET ids) \X (SUBSET ids)] ==
        LET todo == at[1]
            visiting == at[2]
            visited == at[3]
            id == Head(todo)
            task == b[CHOOSE i \in DOMAIN b : b[i].id = id]
        IN IF todo = <<>> THEN [ok |-> TRUE, visited |-> visited]
           ELSE IF id \in visited THEN visit[<<Tail(todo), visiting, visited>>]
           ELSE IF id \in visiting THEN [ok |-> FALSE, visited |-> visited]
           ELSE LET below == visit[<<task.deps, visiting \cup {id}, visited>>]
                IN IF ~below.ok THEN below ELSE visit[<<Tail(todo), visiting, below.visited \cup {id}>>]
  IN visit[<<[i \in DOMAIN b |-> b[i].id], {}, {}>>].ok

ParsedBatch(b) ==
  /\ Len(b) \in 1 .. MaxBatch
  /\ \A i \in DOMAIN b : ParsedTask(b[i])
  /\ Cardinality(TaskIds(b)) = Len(b)
  /\ \A i \in DOMAIN b : ToSet(b[i].deps) \subseteq TaskIds(b)
  /\ Acyclic(b)

WithinLimits(t, b, n) == Len(b) <= t.perIteration /\ n + Len(b) <= t.total

\* The agent of a connection worker: its declared one, or the routing name.
RouteOf(w) == IF w.agent # NotGiven THEN w.agent ELSE Transport[w.name]
Selected(t, k) ==
  IF k.conn # NotGiven THEN {w \in t.workers : w.kind = "connection" /\ w.name = k.conn}
  ELSE {w \in t.workers : w.kind = "agent" /\ w.name = k.agent}
TargetsFor(t, conn) == {i \in DOMAIN t.targets : t.targets[i].conn = conn}

ModelAllowed(t, k) ==
  k.conn # NotGiven =>
    IF k.model # NotGiven THEN \E i \in TargetsFor(t, k.conn) : t.targets[i].model = k.model
    ELSE Cardinality(TargetsFor(t, k.conn)) <= 1

IsRole(role, k) ==
  \/ role.kind = "agent" /\ k.conn = NotGiven /\ k.agent = role.name
  \/ role.kind = "connection" /\ k.conn = role.name

\* Mutant: only the agent name of a task is compared with the allowlist.
AgentAllowed(t, k) == \E w \in t.workers : k.agent = IF w.kind = "agent" THEN w.name ELSE RouteOf(w)

TaskAllowed(t, k) ==
  /\ Selected(t, k) # {}
  /\ k.conn # NotGiven => k.agent = RouteOf(CHOOSE w \in Selected(t, k) : TRUE)
  /\ ModelAllowed(t, k)
  /\ ~IsRole(t.planner, k) /\ ~IsRole(t.verifier, k)

\* deterministicWorkerModel: the single target's model.
WorkerModel(t, k) ==
  IF k.model # NotGiven \/ Cardinality(TargetsFor(t, k.conn)) # 1 THEN k.model
  ELSE t.targets[CHOOSE i \in TargetsFor(t, k.conn) : TRUE].model

WorkerStep(t, k) ==
  [id |-> k.id, deps |-> k.deps, reads |-> {}, writes |-> {}, ok |-> TRUE, conn |-> k.conn,
   agent |-> IF k.conn # NotGiven THEN RouteOf(CHOOSE w \in Selected(t, k) : TRUE) ELSE k.agent,
   model |-> IF k.conn # NotGiven THEN WorkerModel(t, k) ELSE NotGiven]

\* The Coordinator's own step, behind every task of the batch.
VerifierStep(t, b) ==
  [id |-> "verify", deps |-> [i \in DOMAIN b |-> b[i].id], reads |-> {}, writes |-> {}, ok |-> TRUE,
   conn |-> IF t.verifier.kind = "connection" THEN t.verifier.name ELSE NotGiven,
   agent |-> LET n == IF t.verifier.agent # NotGiven THEN t.verifier.agent ELSE t.verifier.name
             IN IF t.verifier.kind = "connection" THEN Transport[n] ELSE n,
   model |-> IF t.verifier.kind = "connection" THEN t.verifierTarget.model ELSE NotGiven]

CompileIterationPlanPatch(t, b) ==
  [i \in 1 .. Len(b) + 1 |-> IF i <= Len(b) THEN WorkerStep(t, b[i]) ELSE VerifierStep(t, b)]

\* The patch that is proposed: one addition per step.
Additions(steps) == [i \in DOMAIN steps |-> [op |-> "addStep", step |-> steps[i]]]

\* submitIterationBatch: the batch is parsed and held against the team, its
\* patch is parsed, which throws, and activation validates the plan.
SubmitBatch ==
  /\ outcome = "none"
  /\ \E b \in TaskBatches, n \in 0 .. team.total :
       /\ batch' = b /\ workers' = n
       /\ outcome' = IF ~ParsedBatch(b) THEN "invalid"
                     ELSE IF ~WithinLimits(team, b, n) THEN "limit"
                     ELSE IF \E i \in DOMAIN b : ~TaskAllowed(team, b[i]) THEN "denied"
                     ELSE IF ~ParsePlanPatch(Additions(CompileIterationPlanPatch(team, b))) THEN "thrown"
                     ELSE IF ~ValidateSteps(CompileIterationPlanPatch(team, b)) THEN "REJECTED"
                     ELSE "accepted"
       /\ compiled' = IF outcome' = "accepted" THEN CompileIterationPlanPatch(team, b) ELSE <<>>
  /\ UNCHANGED team

BatchInit ==
  /\ team \in {t \in Teams : ValidTeam(t)}
  /\ batch = <<>> /\ workers = 0 /\ outcome = "none" /\ compiled = <<>>

-----------------------------------------------------------------------------
(***************************************************************************)
(* An accepted batch never exceeds the frozen team: every compiled worker  *)
(* runs on an allowed worker, with a model frozen for that connection (or  *)
(* none where the team froze none), and never on the connection or agent   *)
(* of the Planner or the Verifier.                                         *)
(***************************************************************************)
BatchStaysInAuthority ==
  outcome = "accepted" =>
    /\ workers + Len(batch) <= team.total
    /\ \A i \in 1 .. Len(batch) :
         LET s == compiled[i] IN
         /\ \E w \in team.workers :
              \/ s.conn = NotGiven /\ w.kind = "agent" /\ w.name = s.agent
              \/ s.conn # NotGiven /\ w.kind = "connection" /\ w.name = s.conn
         /\ IF s.model # NotGiven THEN \E j \in DOMAIN team.targets : team.targets[j] = [conn |-> s.conn, model |-> s.model]
            ELSE s.conn = NotGiven \/ \A j \in DOMAIN team.targets : team.targets[j].conn # s.conn \/ team.targets[j].model = NotGiven
         /\ \A role \in {team.planner, team.verifier} :
              role.kind = "connection" => s.conn # role.name

\* What was admitted as a batch and parsed as a patch is a plan the validation
\* accepts, unless a task takes the Verifier's step id, and the Verifier runs
\* after every task: the two cycle checks share no code, and agree.
BatchCompilesToValidPlan ==
  /\ outcome = "REJECTED" => "verify" \in TaskIds(batch)
  /\ outcome = "accepted" => \A i \in 1 .. Len(batch) : Upstream(compiled, "verify", batch[i].id)

\* A batch within the frozen limits (maxWorkersPerIteration up to 64) becomes a
\* patch; past PLAN_PATCH_BOUNDS.maxOperations it cannot.
AdmittedBatchIsProposed == outcome # "thrown"

-----------------------------------------------------------------------------
(***************************************************************************)
(* The aggregation a Verifier step is given: buildVerifierInput reads the  *)
(* last terminal attempt of each worker of the iteration at claim time,    *)
(* buildVerifierContext cuts it to the bounds of domain/coordination.ts    *)
(* and notes what it left out.  Sizes stand for contents.                  *)
(***************************************************************************)
CONSTANTS
  Manifest,       \* the iteration's workers, in order
  WorkerResults,  \* what an attempt may return: [status, fields, refs]
  MaxFieldBytes, MaxRefs, MaxOmitted, MaxAggregateWorkers, MaxAggregateBytes, MarkBytes,
  MaxWorkerAttempts
ASSUME ContextBoundsAssumption ==
  /\ {MaxFieldBytes, MaxRefs, MaxOmitted, MaxAggregateWorkers, MaxAggregateBytes, MarkBytes,
      MaxWorkerAttempts} \subseteq Nat
  /\ MarkBytes <= MaxFieldBytes
  /\ Manifest \in Seq(ToSet(Manifest))
  /\ WorkerResults \subseteq [status : STRING, fields : Seq(Nat), refs : Nat]

VARIABLES
  ended,    \* worker -> its terminal attempts, oldest first
  context,  \* what the Verifier's attempt froze
  verified  \* "no", "claimed" or "refused" (the run fails)
verifierVars == <<ended, context, verified>>

NoContext == [workers |-> <<>>, omitted |-> <<>>]
\* attemptStatus: a worker without a terminal attempt is reported as failed.
NoResult == [status |-> "FAILED", fields |-> <<>>, refs |-> 0]

VerifierInit ==
  /\ ended = [w \in ToSet(Manifest) |-> <<>>]
  /\ context = NoContext /\ verified = "no"

\* External: an attempt of a worker ends.
WorkerEnds(w) ==
  /\ Len(ended[w]) < MaxWorkerAttempts
  /\ \E r \in WorkerResults : ended' = [ended EXCEPT ![w] = Append(@, r)]
  /\ UNCHANGED <<context, verified>>

\* boundedFields and boundedArtifactRefs, of the last terminal attempt.
ResultOf(w) == IF ended[w] = <<>> THEN NoResult ELSE Last(ended[w])

\* The byte check of one selected field.
Oversized(bytes) == bytes > MaxFieldBytes

\* One worker's entry: an oversized field is replaced by a mark, the artifact
\* references are cut without one.
WorkerEntry(w) ==
  LET r == ResultOf(w) IN
  [worker |-> w, status |-> r.status,
   fields |-> [i \in DOMAIN r.fields |-> IF Oversized(r.fields[i]) THEN MarkBytes ELSE r.fields[i]],
   refs |-> IF r.refs > MaxRefs THEN MaxRefs ELSE r.refs]

\* The omissions, in the order they are found.
OmissionsOf(w) ==
  LET r == ResultOf(w)
  IN FlattenSeq([i \in DOMAIN r.fields |-> IF Oversized(r.fields[i]) THEN <<<<w, i>>>> ELSE <<>>])

FirstOf(s, n) == SubSeq(s, 1, IF Len(s) < n THEN Len(s) ELSE n)

\* The aggregate, and its size.
BuildVerifierContext ==
  [workers |-> [i \in DOMAIN Manifest |-> WorkerEntry(Manifest[i])],
   omitted |-> FirstOf(FlattenSeq([i \in DOMAIN Manifest |-> OmissionsOf(Manifest[i])]), MaxOmitted)]

Bytes(c) ==
  FoldLeft(LAMBDA n, e : n + e.refs + FoldLeft(LAMBDA k, b : k + b, 0, e.fields), 0, c.workers)

\* AGGREGATION_INVALID: too many workers, or too large after all the cuts.
AggregationInvalid(c) == Len(c.workers) > MaxAggregateWorkers \/ Bytes(c) > MaxAggregateBytes

\* The claim of the Verifier step freezes the aggregate; an aggregation that
\* is refused is an input that cannot be resolved, and fails the execution.
FreezeVerifierInput ==
  /\ verified = "no"
  /\ \A w \in ToSet(Manifest) : ended[w] # <<>>
  /\ IF AggregationInvalid(BuildVerifierContext)
     THEN verified' = "refused" /\ UNCHANGED context
     ELSE verified' = "claimed" /\ context' = BuildVerifierContext
  /\ UNCHANGED ended

VerifierNext == FreezeVerifierInput \/ \E w \in ToSet(Manifest) : WorkerEnds(w)
VerifierSpec == VerifierInit /\ [][VerifierNext]_verifierVars

---------------------------------------------------------------------------
\* Everything in an entry that is not the worker's own content is named among
\* the omissions, unless that list itself is full; and nothing is named that
\* is there (buildVerifierContext, "Omissions are recorded as metadata").
FieldOmissionsAreRecorded ==
  verified = "claimed" =>
    \A k \in DOMAIN context.workers :
      LET e == context.workers[k] IN
      \A i \in DOMAIN e.fields :
        LET named == <<e.worker, i>> \in ToSet(context.omitted)
            own == \E n \in DOMAIN ended[e.worker] :
                     i \in DOMAIN ended[e.worker][n].fields /\ ended[e.worker][n].fields[i] <= MaxFieldBytes
        IN /\ named => e.fields[i] = MarkBytes
           /\ ~named => own \/ Len(context.omitted) = MaxOmitted

\* The same for everything a worker returned, its artifact references too.
OmissionsAreRecorded ==
  verified = "claimed" =>
    \A k \in DOMAIN context.workers :
      LET e == context.workers[k]
          cut == \A n \in DOMAIN ended[e.worker] : ended[e.worker][n].refs > e.refs IN
      cut => \E o \in ToSet(context.omitted) : o[1] = e.worker
=============================================================================
