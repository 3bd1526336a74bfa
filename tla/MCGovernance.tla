---------------------------- MODULE MCGovernance ---------------------------
(***************************************************************************)
(* The orchestrator's rules side by side for TLC.  The variable            *)
(* focus says which component a behaviour is about: that component takes   *)
(* its steps from its initial states, the others rest in one initial       *)
(* state, so that the states of the run are the sum of the components'.    *)
(***************************************************************************)
EXTENDS Coordination, TaskBatch, Policy, ContextFlow, Conditions, Capsules, TLC

CONSTANTS Focus, r1, r2, t1, e1, e2, w1

VARIABLE focus

-----------------------------------------------------------------------------
(* Coordination: the planner proposes one task. *)
OneTask == {{t1}}

(* Plans: two steps a and b, patched by c and d. *)
PlanStep(i, deps, reads, writes) == [id |-> i, deps |-> deps, reads |-> reads, writes |-> writes, ok |-> TRUE]
Plain(i) == PlanStep(i, <<>>, {}, {})
StepsNamed(i, deps) == {PlanStep(i, d, {}, w) : d \in deps, w \in {{}, {"k"}}} \cup {PlanStep(i, d, {"a"}, {}) : d \in deps}
TwoStepPlans ==
  {<<>>, <<[Plain("a") EXCEPT !.ok = FALSE]>>, <<Plain("a"), Plain("a")>>}
  \cup {<<x, y>> : x \in StepsNamed("a", {<<>>, <<"b">>}), y \in StepsNamed("b", {<<>>, <<"a">>, <<"b">>, <<"a", "a">>})}
Add(s) == [op |-> "addStep", step |-> s, stepId |-> ""]
Swap(s, i) == [op |-> "replaceUnfrozenStep", step |-> s, stepId |-> i]
AddedSteps == StepsNamed("c", {<<>>, <<"b">>, <<"a", "b">>})
Chained3 == <<Add(PlanStep("c", <<"b">>, {}, {})), Add(PlanStep("d", <<"c">>, {"a"}, {"k"}))>>
Fanned3 == <<Add(PlanStep("c", <<"a">>, {}, {})), Add(PlanStep("d", <<"a">>, {}, {}))>>
PlanPatches ==
  {<<>>, Chained3, Fanned3, Chained3 \o Fanned3, <<Swap(Plain("a"), "b")>>,
   <<Add(Plain("c")), Swap(PlanStep("c", <<"a", "b">>, {}, {"k"}), "c")>>}
  \cup {<<Add(s)>> : s \in AddedSteps}
  \cup {<<Swap(s, s.id)>> : s \in {Plain("a"), PlanStep("a", <<"c">>, {}, {}), PlanStep("b", <<"a">>, {}, {"k"})}}

(* Teams and task batches. *)
Selector(kind, name, agent) == [kind |-> kind, name |-> name, agent |-> agent]
TargetOf(conn, model) == [conn |-> conn, model |-> model]
Allowed == {Selector("connection", "c:1", ""), Selector("connection", "c:2", "x"), Selector("agent", "a", ""),
            Selector("connection", "c:v", "")}
Team(byPlanner, byVerifier, targets) ==
  [planner |-> byPlanner, verifier |-> byVerifier, workers |-> Allowed, targets |-> targets, perIteration |-> 3,
   total |-> 4, ok |-> TRUE, plannerTarget |-> TargetOf("", ""), verifierTarget |-> TargetOf("", "")]
ConnectionTeam == Team(Selector("connection", "c:1", ""), Selector("connection", "c:v", ""), <<TargetOf("c:2", "m")>>)
AgentTeam(targets) == Team(Selector("agent", "p", ""), Selector("agent", "a", ""), targets)
SomeTeams ==
  {AgentTeam(ts) : ts \in {<<>>, <<TargetOf("c:1", "m")>>, <<TargetOf("c:1", "m"), TargetOf("c:1", "n")>>,
                           <<TargetOf("zz", "m")>>}}
  \cup {ConnectionTeam, [ConnectionTeam EXCEPT !.verifierTarget = TargetOf("c:v", "m")],
        [Team(Selector("agent", "p", ""), Selector("agent", "v", ""), <<>>) EXCEPT !.plannerTarget = TargetOf("c:1", "m")]}
TransportNames == [n \in {"c:1", "c:2", "c:v", "a", "p"} |-> IF n \in {"c:1", "c:2"} THEN "c__1" ELSE n]
Assignments == {<<"a", "", "">>, <<"p", "", "">>, <<"c__1", "c:1", "">>, <<"c__1", "c:1", "m">>, <<"x", "c:2", "m">>,
                <<"x", "c:2", "">>, <<"c:v", "c:v", "">>, <<"a", "", "m">>, <<"x", "c:1", "">>}
Assigned(i, to, deps) == [id |-> i, agent |-> to[1], conn |-> to[2], model |-> to[3], deps |-> deps, ok |-> TRUE]
TaskDeps == {<<>>, <<"t">>, <<"u">>}
SomeBatches ==
  {<<>>, <<Assigned("t", <<"a", "", "">>, <<>>), Assigned("t", <<"a", "", "">>, <<>>)>>,
   <<Assigned("verify", <<"x", "c:2", "m">>, <<>>)>>}
  \cup {[i \in 1 .. n |-> Assigned(<<"t", "u", "v", "w">>[i], <<"x", "c:2", "m">>, <<>>)] : n \in 3 .. 4}
  \cup {<<Assigned("t", to, d)>> : to \in Assignments, d \in TaskDeps}
  \cup {<<Assigned("t", to, d), Assigned("u", also, f)>> : to, also \in Assignments, d, f \in TaskDeps}

(* Results the verifier sees. *)
Result(status, fields, refs) == [status |-> status, fields |-> fields, refs |-> refs]
SomeResults == {Result("SUCCESS", <<1, 3>>, 1), Result("SUCCESS", <<2, 2>>, 2), Result("SUCCESS", <<4>>, 0),
                Result("FAILED", <<>>, 0)}
TwoWorkers == <<"u", "w">>

(* Policy documents, one of them malformed. *)
Rule(effect, agents) == [action |-> "dispatch", effect |-> effect, agents |-> agents, executors |-> Unconstrained]
Document(v, rules) == [version |-> v, rules |-> rules, ok |-> TRUE]
SomeDocuments ==
  {Document(1, <<Rule("DENY", {"a"}), Rule("ALLOW", Unconstrained)>>),
   Document(1, <<Rule("ALLOW", Unconstrained), Rule("DENY", {"a"})>>),
   Document(2, <<Rule("DENY", Unconstrained), Rule("REQUIRE_APPROVAL", {"a"})>>),
   [Document(2, <<>>) EXCEPT !.ok = FALSE]}
Proposal(agent, ok) == [action |-> "dispatch", agent |-> agent, executor |-> "e", ok |-> ok]
SomeProposals == {Proposal("a", TRUE), Proposal("b", TRUE), Proposal("b", FALSE)}

(* Execution state and context. *)
Values2(x, y) == [k1 |-> x, k2 |-> y]
SomePatches == {[set |-> Values2(0, 1), delete |-> <<>>, ok |-> TRUE],
                [set |-> Values2(1, 0), delete |-> <<"k2">>, ok |-> TRUE], [set |-> Values2(2, 2), delete |-> <<>>, ok |-> TRUE],
                [set |-> Values2(1, 0), delete |-> <<"k1">>, ok |-> TRUE]}
SomeOutputs == {[values |-> [a |-> 1, b |-> 2], names |-> <<"x">>], [values |-> [a |-> 2, b |-> 0], names |-> <<"x", "y">>]}
BothWritten == [p |-> <<[key |-> "k1", from |-> "a"], [key |-> "k2", from |-> "b"]>>]
Projected(keys, selectors) == [keys |-> keys, selectors |-> selectors, ok |-> TRUE]
SomeProjections == {Projected({"k1"}, <<>>), Projected({"k2"}, <<[from |-> "p", name |-> "x"]>>),
                    Projected({}, <<[from |-> "p", name |-> "y"], [from |-> "p", name |-> ""]>>)}

(* Conditions: c waits for a; what b and c say is varied. *)
Ref(path) == [ref |-> path]
Always == [op |-> "eq", left |-> Number(1), right |-> Number(1)]
OutputOfA == [op |-> "gt", left |-> Ref(<<"steps", "a", "output", "k">>), right |-> Number(1)]
Legacy(path) == [op |-> "legacy", symbol |-> "==", left |-> Ref(path), right |-> Text(1)]
Compound == [op |-> "or", conditions |->
  <<[op |-> "not", condition |-> [op |-> "ne", left |-> Ref(<<"steps", "a", "error">>), right |-> Null]],
    [op |-> "in", value |-> Ref(<<"steps", "a", "attempt">>), values |-> <<Number(2)>>]>>]
ConditionsOfC == {OutputOfA, Legacy(<<"steps", "a", "status">>), Legacy(<<"env", "x">>), Compound,
                  [op |-> "exists", value |-> Ref(<<"steps", "b", "output">>)]}
Exact(path) == [k |-> "exact", ref |-> path]
InputsOfC == {[k |-> "text", ref |-> <<"steps", "a", "output", "k">>], Exact(<<"steps", "a", "error">>),
              [k |-> "literal", value |-> Text(5)]}
StepSpec(deps, onFailure) == [dependsOn |-> deps, onFailure |-> onFailure, retries |-> 1]
ThreeSteps == [a |-> StepSpec({}, "continue"), b |-> StepSpec({}, "retry"), c |-> StepSpec({"a"}, "retry")]
Writings == [a |-> {[condition |-> Always, input |-> Exact(<<"pipeline", "input", "k">>)]},
             b |-> {[condition |-> x, input |-> Exact(<<"steps", "a", "output">>)] : x \in {Always, OutputOfA}},
             c |-> {[condition |-> x, input |-> y] : x \in ConditionsOfC, y \in InputsOfC}]
Object(n) == [t |-> "object", v |-> n, f |-> [k |-> Number(n)]]
SomeStepOutputs == {Object(1), Object(2), Text(3)}
OneInput == Object(1)

(* Capsules of a plain and of a looping execution. *)
PlansOfBoth == [a |-> <<[x |-> 1]>>, b |-> <<[x |-> 2], [x |-> 1]>>]
TwoAndNone == [a |-> 2, b |-> 0]

\* Reconcilers, policy replicas and capsule calls bear the same names.
Symmetry == Permutations(Replicas)

-----------------------------------------------------------------------------
Frozen(c, v) == focus # c => UNCHANGED v

OthersRest ==
  /\ UNCHANGED focus
  /\ Frozen("coordination", coordVars) /\ Frozen("plan", planVars)
  /\ Frozen("batch", batchVars) /\ Frozen("verifier", verifierVars) /\ Frozen("policy", policyVars)
  /\ Frozen("context", contextVars) /\ Frozen("condition", conditionVars) /\ Frozen("capsule", capsuleVars)

GovernanceInit ==
  /\ focus \in Focus
  /\ CoordInit /\ (focus # "coordination" => ~gated)
  /\ PlanInit /\ VerifierInit /\ ContextInit /\ CapsuleInit
  /\ BatchInit /\ (focus # "batch" => team = ConnectionTeam)
  /\ PolicyInit /\ (focus # "policy" => document = [r \in PolicyReplicas |-> Unset])
  /\ ConditionInit /\ (focus # "condition" => written = [s \in PlanSteps |-> CHOOSE w \in StepSources[s] : TRUE])

GovernanceNext ==
  \/ focus = "coordination" /\ CoordNext /\ OthersRest
  \/ focus = "plan" /\ PlanNext /\ OthersRest
  \/ focus = "batch" /\ SubmitBatch /\ OthersRest
  \/ focus = "verifier" /\ VerifierNext /\ OthersRest
  \/ focus = "policy" /\ PolicyNext /\ OthersRest
  \/ focus = "context" /\ ContextNext /\ OthersRest
  \/ focus = "condition" /\ ConditionNext /\ OthersRest
  \/ focus = "capsule" /\ CapsuleNext /\ OthersRest

governanceVars == <<focus, coordVars, planVars, batchVars, verifierVars, policyVars, contextVars,
                   conditionVars, capsuleVars>>

GovernanceSpec == GovernanceInit /\ [][GovernanceNext]_governanceVars

-----------------------------------------------------------------------------
\* The loop's phases, rows and reconcilers and the capsules of every call have
\* their types: no iteration or revision is past its limit.
GovernanceTypeOK == CoordTypeOK /\ CapsuleTypeOK

\* Whatever plan or task batch the validators let through is one the
\* compiler, the limits and the team allow, and they let every such one
\* through.
BatchesAreAdmissible == ValidatorIsExact /\ BatchStaysInAuthority /\ BatchCompilesToValidPlan

\* A decision can be traced to the records it was taken from: the verifier's
\* context names the fields it left out, a policy verdict follows the frozen
\* rules, an envelope is the reader's own and of the state it was hashed for,
\* a condition is decided once its dependencies are, and the loop's
\* iterations are decided in turn.
DecisionsFollowRecords ==
  /\ FieldOmissionsAreRecorded /\ DecisionsFollowFrozenRules /\ EnvelopeIsOwnAndFresh
  /\ DecisionsFollowDependencies /\ LoopIsOrderly

\* A capsule tells what the execution did: its projections are complete, a
\* replay runs the final plan, evidence identifies the capsule it is of and a
\* comparison does not call unlike captures alike.
CapsulesAreFaithful ==
  /\ ProjectionsAreComplete /\ ReplayRunsTheFinalPlan /\ EvidenceIdentifiesCapsules
  /\ ComparisonIsHonest

\* Nothing that work was already built on is rewritten: claimed steps, frozen
\* policy versions, state written by another replica and the loop's history.
NothingIsRewritten ==
  [][/\ ClaimedStepsAreFixed /\ FrozenVersionsStay /\ NoLostUpdate /\ StateChangesAreCounted
     /\ DecisionsAreFinal /\ RunOutcomeIsFinal /\ BatchKeepsItsBase]_governanceVars
=============================================================================
