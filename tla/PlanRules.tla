----------------------------- MODULE PlanRules -----------------------------
(***************************************************************************)
(* PipelineValidationService (validateSteps, validateStep, validateGraph,  *)
(* isTransitiveDependency) and the PlanPatch domain (parsePlanPatch,       *)
(* applyPlanPatch): what a plan must satisfy to be published, and what a   *)
(* chain of patches may make of it while its steps are being claimed.      *)
(*                                                                         *)
(* A step is [id, deps, reads, writes, ok]: dependsOn as declared (a       *)
(* sequence, duplicates included), the fromStep of its artifact selectors, *)
(* the state keys it writes, and whether every other field is well formed. *)
(***************************************************************************)
EXTENDS Naturals, Sequences, FiniteSets, SequencesExt, FiniteSetsExt

CONSTANTS
  Candidates,    \* the plans a caller may publish: sequences of steps
  Patches,       \* the patches a planner may propose: sequences of operations
  MaxSteps,      \* MAX_STEPS
  MaxPlanDepth,  \* MAX_DEPTH
  MaxFanout,     \* MAX_FANOUT
  MaxOperations  \* PLAN_PATCH_BOUNDS.maxOperations

\* The steps that callers write.
Drafts == UNION {ToSet(c) : c \in Candidates} \cup UNION {{p[i].step : i \in DOMAIN p} : p \in Patches}

ASSUME PlanRulesAssumption ==
  /\ {MaxSteps, MaxPlanDepth, MaxFanout, MaxOperations} \subseteq Nat \ {0}
  /\ Candidates \subseteq Seq(Drafts)
  /\ \A s \in Drafts : s \in [id : STRING, deps : Seq(STRING), reads : SUBSET STRING, writes : SUBSET STRING, ok : BOOLEAN]
  /\ Patches \subseteq Seq([op : {"addStep", "replaceUnfrozenStep"}, step : Drafts, stepId : STRING])

VARIABLES
  currentPlan,  \* the active plan, <<>> before it is published
  claimed,      \* ids of the steps that own an attempt: frozen
  offer,        \* the last candidate the validation judged
  verdict       \* "none", "accepted", "rejected" or "unparsed"

planVars == <<currentPlan, claimed, offer, verdict>>

Ids(steps) == {steps[i].id : i \in DOMAIN steps}

\* byId: the last step with the id.
StepOf(steps, id) == steps[CHOOSE i \in DOMAIN steps : steps[i].id = id]

\* validateStep: fields are checked one by one; none depends on another step.
ValidStep(s) == s.ok

DuplicateFree(steps) ==
  /\ Cardinality(Ids(steps)) = Len(steps)
  /\ \A i \in DOMAIN steps : IsInjective(steps[i].deps)

StepFanout(steps, id) == Quantify(DOMAIN steps, LAMBDA i : Contains(steps[i].deps, id))

FanoutBounded(steps) ==
  \A i \in DOMAIN steps : \A d \in ToSet(steps[i].deps) :
    d \in Ids(steps) /\ StepFanout(steps, d) <= MaxFanout

\* The ids a plan mentions.
Named(steps) == Ids(steps) \cup UNION {ToSet(steps[i].deps) : i \in DOMAIN steps}

\* visit: depth first over the dependencies, sharing one set of seen ids.  It
\* returns whether the candidate was met and the ids seen so far.
Visit(steps, start, candidate) ==
  LET visit[at \in Seq(Named(steps)) \X SUBSET Named(steps)] ==
        LET deps == at[1]
            seen == at[2]
            d == Head(deps)
        IN IF deps = <<>> THEN [found |-> FALSE, seen |-> seen]
           ELSE IF d = candidate THEN [found |-> TRUE, seen |-> seen]
           ELSE IF d \in seen THEN visit[<<Tail(deps), seen>>]
           ELSE LET below == IF d \in Ids(steps) THEN visit[<<StepOf(steps, d).deps, seen \cup {d}>>]
                             ELSE [found |-> FALSE, seen |-> seen \cup {d}]
                IN IF below.found THEN below ELSE visit[<<Tail(deps), below.seen>>]
  IN visit[<<start.deps, {start.id}>>]

IsTransitiveDependency(steps, s, candidate) == Visit(steps, s, candidate).found

SelectorsAreUpstream(steps) ==
  \A i \in DOMAIN steps : \A from \in steps[i].reads :
    from # steps[i].id /\ IsTransitiveDependency(steps, steps[i], from)

WritersAreOrdered(steps) ==
  \A i, j \in DOMAIN steps :
    i < j /\ steps[i].writes \cap steps[j].writes # {} =>
      \/ IsTransitiveDependency(steps, steps[i], steps[j].id)
      \/ IsTransitiveDependency(steps, steps[j], steps[i].id)

\* depth: a memoised depth-first walk; 0 stands for the error it throws when it
\* meets a step it is still visiting.
Depth(steps, start) ==
  LET depth[at \in Ids(steps) \X SUBSET Ids(steps)] ==
        LET id == at[1]
            visiting == at[2]
            below == {depth[<<d, visiting \cup {id}>>] : d \in ToSet(StepOf(steps, id).deps)}
        IN IF id \in visiting \/ 0 \in below THEN 0 ELSE 1 + Max(below \cup {0})
  IN depth[<<start, {}>>]

DepthBounded(steps) == \A id \in Ids(steps) : Depth(steps, id) \in 1 .. MaxPlanDepth

\* validateSteps: bounds, every step, then the graph.  The rules after the
\* dependency check look steps up by id, so they are only reached behind it.
ValidateSteps(steps) ==
  /\ Len(steps) \in 1 .. MaxSteps
  /\ \A i \in DOMAIN steps : ValidStep(steps[i])
  /\ DuplicateFree(steps)
  /\ FanoutBounded(steps)
  /\ SelectorsAreUpstream(steps)
  /\ WritersAreOrdered(steps)
  /\ DepthBounded(steps)

\* parsePlanPatch: a replacement names the step it carries.
ParsePlanPatch(ops) ==
  /\ Len(ops) \in 1 .. MaxOperations
  /\ \A i \in DOMAIN ops : ops[i].op = "replaceUnfrozenStep" => ops[i].step.id = ops[i].stepId

\* findIndex of the id.
FirstNamed(steps, id) ==
  CHOOSE i \in DOMAIN steps : steps[i].id = id /\ \A j \in 1 .. i - 1 : steps[j].id # id

\* applyPlanPatch: additions append, a replacement swaps the first step with its
\* id.  <<>> stands for TARGET_NOT_FOUND and TARGET_FROZEN.
ApplyOperation(steps, frozenIds, o) ==
  IF steps = <<>> THEN steps
  ELSE IF o.op = "addStep" THEN Append(steps, o.step)
  ELSE IF o.stepId \notin Ids(steps) \/ o.stepId \in frozenIds THEN <<>>
  ELSE [steps EXCEPT ![FirstNamed(steps, o.stepId)] = o.step]

ApplyPlanPatch(steps, frozenIds, ops) ==
  LET after[n \in 0 .. Len(ops)] ==
        IF n = 0 THEN steps ELSE ApplyOperation(after[n - 1], frozenIds, ops[n])
  IN after[Len(ops)]

Judge(candidate) ==
  /\ offer' = candidate
  /\ verdict' = IF ValidateSteps(candidate) THEN "accepted" ELSE "rejected"
  /\ currentPlan' = IF ValidateSteps(candidate) THEN candidate ELSE currentPlan

PublishPlan ==
  /\ currentPlan = <<>>
  /\ \E c \in Candidates : Judge(c)
  /\ UNCHANGED claimed

PatchPlan ==
  /\ currentPlan # <<>>
  /\ \E ops \in Patches :
       IF ~ParsePlanPatch(ops) \/ ApplyPlanPatch(currentPlan, claimed, ops) = <<>>
         THEN verdict' = "unparsed" /\ offer' = <<>> /\ UNCHANGED currentPlan
         ELSE Judge(ApplyPlanPatch(currentPlan, claimed, ops))
  /\ UNCHANGED claimed

\* External: a step is claimed once its dependencies own a finished attempt.
ClaimPlanned ==
  /\ \E i \in DOMAIN currentPlan :
       /\ currentPlan[i].id \notin claimed
       /\ ToSet(currentPlan[i].deps) \subseteq claimed
       /\ claimed' = claimed \cup {currentPlan[i].id}
  /\ offer' = <<>> /\ verdict' = "none"
  /\ UNCHANGED currentPlan

PlanInit == currentPlan = <<>> /\ claimed = {} /\ offer = <<>> /\ verdict = "none"
PlanNext == PublishPlan \/ PatchPlan \/ ClaimPlanned

-----------------------------------------------------------------------------
\* The reference: paths of the dependency relation, with no traversal.
Edge(steps, a, b) == a \in Ids(steps) /\ b \in Ids(steps) /\ Contains(StepOf(steps, a).deps, b)

Path(steps, a, b, n) ==
  LET ends[k \in 0 .. n] == IF k = 0 THEN {a} ELSE {d \in Ids(steps) : \E c \in ends[k - 1] : Edge(steps, c, d)}
  IN b \in ends[n]

Upstream(steps, a, b) == \E n \in 1 .. Len(steps) : Path(steps, a, b, n)

SafePlan(steps) ==
  /\ Len(steps) \in 1 .. MaxSteps /\ \A i \in DOMAIN steps : steps[i].ok
  /\ \A i, j \in DOMAIN steps : i # j => steps[i].id # steps[j].id
  /\ \A i \in DOMAIN steps :
       /\ ToSet(steps[i].deps) \subseteq Ids(steps) /\ IsInjective(steps[i].deps)
       /\ Cardinality({j \in DOMAIN steps : Contains(steps[j].deps, steps[i].id)}) <= MaxFanout
       /\ \A from \in steps[i].reads : Upstream(steps, steps[i].id, from)
       /\ \A j \in DOMAIN steps \ {i} :
            steps[i].writes \cap steps[j].writes # {} =>
              Upstream(steps, steps[i].id, steps[j].id) \/ Upstream(steps, steps[j].id, steps[i].id)
  /\ \A a, b \in Ids(steps) : ~Path(steps, a, b, MaxPlanDepth)

(***************************************************************************)
(* The validation accepts exactly the plans that are safe: no cycle, no    *)
(* chain longer than MAX_DEPTH, artifacts only from upstream steps, and    *)
(* every two writers of one state key ordered by the graph.  The traversal *)
(* shares one `seen` set between branches and runs before the cycle check. *)
(***************************************************************************)
ValidatorIsExact ==
  verdict \in {"accepted", "rejected"} => (verdict = "accepted" <=> SafePlan(offer))

\* Whatever patches are accepted meanwhile, a claimed step stays in the plan
\* with the configuration it was claimed under, and so do its dependencies,
\* which were claimed before it (addStep never checks the frozen set).
ClaimedStepsAreFixed ==
  \A id \in claimed : /\ id \in Ids(currentPlan')
                      /\ StepOf(currentPlan', id) = StepOf(currentPlan, id)
                      /\ ToSet(StepOf(currentPlan', id).deps) \subseteq claimed'

PlanSpec == PlanInit /\ [][PlanNext]_planVars
=============================================================================
