----------------------------- MODULE Conditions -----------------------------
(***************************************************************************)
(* Conditions and input templates of a plan's steps: the evaluator of      *)
(* condition-evaluator.service.ts, the template resolution of              *)
(* engine.service.ts, and the two moments at which they read the step      *)
(* rows.  A scheduling pass reads the rows once and resolves the input     *)
(* templates of every due step from that reading; the condition is         *)
(* evaluated later, under the claim's lock, on the rows of that moment.    *)
(* A value is a record with a tag t; text is represented by a number.      *)
(***************************************************************************)
EXTENDS Naturals, Sequences, SequencesExt

CONSTANTS
  PlanSteps,    \* the steps of the plan
  SpecOf,       \* step -> [dependsOn, onFailure, retries]
  StepSources,  \* step -> set of [condition, input] its author may write
  RunInput,     \* the execution's input
  StepOutputs,  \* outputs an attempt may return
  Passes,       \* reconciliation passes that may overlap
  MaxConditionDepth
ASSUME ConditionAssumption ==
  /\ MaxConditionDepth \in Nat \ {0}
  /\ \A s \in PlanSteps : SpecOf[s].dependsOn \subseteq PlanSteps \ {s}

Undefined == [t |-> "undefined", v |-> 0]
Null == [t |-> "null", v |-> 0]
Text(n) == [t |-> "text", v |-> n]
Number(n) == [t |-> "number", v |-> n]
Rejected == [op |-> "rejected"]

\* The words a row's columns hold, as text values.
StatusText(status) ==
  Text(CASE status = "COMPLETED" -> 1 [] status = "FAILED" -> 2
         [] status = "SKIPPED" -> 3 [] OTHER -> 4)

---------------------------------------------------------------------------
\* isRecord, and one step of a path.
Field(value, key) ==
  IF value.t = "object" /\ key \in DOMAIN value.f THEN value.f[key] ELSE Undefined

\* conditionContext and buildTemplateContext: a step's row as the expressions
\* see it; a column without a value is null, not undefined.
RowField(row, field) ==
  CASE field \in {"result", "output"} -> row.output
    [] field = "status" -> StatusText(row.status)
    [] field = "error" -> row.error
    [] field = "attempt" -> Number(row.attempt)
    [] OTHER -> Undefined

\* resolve and getValueFromPath, on the context of the given rows.
Walk(value, path, from) == FoldLeft(Field, value, SubSeq(path, from, Len(path)))
LookupPath(path, rowsNow) ==
  CASE path[1] = "pipeline" /\ path[2] = "input" -> Walk(RunInput, path, 3)
    [] path[1] = "steps" /\ path[2] \in PlanSteps -> Walk(RowField(rowsNow[path[2]], path[3]), path, 4)
    [] OTHER -> Undefined

\* The REFERENCE pattern.
IsReference(path) ==
  \/ Len(path) >= 2 /\ path[1] = "pipeline" /\ path[2] = "input"
  \/ Len(path) >= 3 /\ path[1] = "steps"
     /\ path[3] \in {"result", "output", "status", "error", "attempt"}

\* validateOperand: a scalar literal or a supported reference.
IsOperand(x) ==
  IF "ref" \in DOMAIN x THEN IsReference(x.ref)
  ELSE x.t \in {"text", "number", "boolean", "null"}

Comparisons == {"eq", "ne", "gt", "gte", "lt", "lte"}

\* The conditions directly below one, and all down to the depth the
\* validation looks at.
Parts(e) ==
  CASE e.op \in {"and", "or"} -> ToSet(e.conditions)
    [] e.op = "not" -> {e.condition}
    [] OTHER -> {}

Subexpressions(e) ==
  LET level[n \in 0 .. MaxConditionDepth] ==
        IF n = 0 THEN {e} ELSE UNION {Parts(x) : x \in level[n - 1]}
  IN UNION {level[n] : n \in 0 .. MaxConditionDepth}

\* The operands of one condition, those of its parts aside.
Operands(e) ==
  CASE e.op \in {"and", "or", "not"} -> {}
    [] e.op = "exists" -> {e.value}
    [] e.op = "in" -> {e.value} \cup ToSet(e.values)
    [] OTHER -> {e.left, e.right}

\* validateExpression.
ValidExpression(expression) ==
  LET valid[e \in Subexpressions(expression), depth \in 1 .. MaxConditionDepth + 1] ==
        /\ depth <= MaxConditionDepth
        /\ CASE e.op \in {"and", "or"} ->
                  Len(e.conditions) > 0 /\ \A i \in 1 .. Len(e.conditions) : valid[e.conditions[i], depth + 1]
             [] e.op = "not" -> valid[e.condition, depth + 1]
             [] e.op = "exists" -> IsOperand(e.value)
             [] e.op = "in" -> IsOperand(e.value) /\ Len(e.values) > 0
                               /\ \A i \in 1 .. Len(e.values) : IsOperand(e.values[i])
             [] e.op \in Comparisons -> IsOperand(e.left) /\ IsOperand(e.right)
             [] OTHER -> FALSE
  IN valid[expression, 1]

\* parseLegacyOperand: a word that is no reference and no literal is refused.
LegacyOperand(word) ==
  IF "ref" \in DOMAIN word /\ ~IsReference(word.ref) THEN [t |-> "refused", v |-> 0] ELSE word

\* compileLegacy: one comparison, written with the symbols of the language.
LegacyOperator(symbol) ==
  CASE symbol \in {"===", "=="} -> "eq" [] symbol \in {"!==", "!="} -> "ne"
    [] symbol = ">" -> "gt" [] symbol = ">=" -> "gte"
    [] symbol = "<" -> "lt" [] symbol = "<=" -> "lte"
    [] OTHER -> "none"

\* compile: what the plan keeps of the author's condition.
Compile(written) ==
  LET e == IF written.op # "legacy" THEN written
           ELSE [op |-> LegacyOperator(written.symbol),
                 left |-> LegacyOperand(written.left), right |-> LegacyOperand(written.right)]
  IN IF ValidExpression(e) THEN e ELSE Rejected

\* resolve.
Resolve(x, rowsNow) == IF "ref" \in DOMAIN x THEN LookupPath(x.ref, rowsNow) ELSE x

\* comparable.
Comparable(a, b) == a.t = b.t /\ a.t \in {"number", "text"}

\* evaluate, given what every operand resolves to.
Truth(expression, value) ==
  LET holds[e \in Subexpressions(expression)] ==
        CASE e.op = "and" -> \A i \in 1 .. Len(e.conditions) : holds[e.conditions[i]]
          [] e.op = "or" -> \E i \in 1 .. Len(e.conditions) : holds[e.conditions[i]]
          [] e.op = "not" -> ~holds[e.condition]
          [] e.op = "exists" -> value[e.value] # Undefined
          [] e.op = "in" -> \E i \in 1 .. Len(e.values) : value[e.values[i]] = value[e.value]
          [] OTHER ->
               LET a == value[e.left]  b == value[e.right] IN
               CASE e.op = "eq" -> a = b
                 [] e.op = "ne" -> a # b
                 [] e.op = "gt" -> Comparable(a, b) /\ a.v > b.v
                 [] e.op = "gte" -> Comparable(a, b) /\ a.v >= b.v
                 [] e.op = "lt" -> Comparable(a, b) /\ a.v < b.v
                 [] e.op = "lte" -> Comparable(a, b) /\ a.v <= b.v
  IN holds[expression]

\* evaluate: every operand is resolved on the same rows.
OperandsOf(e) == UNION {Operands(x) : x \in Subexpressions(e)}
Evaluate(e, rowsNow) == Truth(e, [x \in OperandsOf(e) |-> Resolve(x, rowsNow)])

\* buildTemplateContext, resolveTemplateExpression and getValueFromPath: the
\* same rows and the same walk, for any path at all.
TemplateExpression(path, rowsNow) ==
  IF Len(path) < 2 \/ (path[1] = "steps" /\ Len(path) < 3) THEN Undefined
  ELSE LookupPath(path, rowsNow)

\* resolveTemplateValue for one input field: a template that is nothing but a
\* placeholder keeps the value's type, with null for what is missing; inside
\* a text, what is missing leaves no trace.
ResolveTemplate(template, rowsNow) ==
  CASE template.k = "literal" -> template.value
    [] template.k = "exact" ->
         LET value == TemplateExpression(template.ref, rowsNow) IN IF value = Undefined THEN Null ELSE value
    [] template.k = "text" ->
         LET value == TemplateExpression(template.ref, rowsNow) IN
         [t |-> "spliced", v |-> IF value \in {Undefined, Null} THEN Text(0) ELSE value]

\* getMaxAttempts.
GetMaxAttempts(s) == 1 + SpecOf[s].retries

---------------------------------------------------------------------------
VARIABLES
  written,  \* step -> the [condition, input] its author wrote
  rows,     \* step -> its logical step row
  reading,  \* pass -> the rows it read
  frozen,   \* step -> what its last claim decided
  running   \* whether the execution is RUNNING
conditionVars == <<written, rows, reading, frozen, running>>

Row(status) == [status |-> status, output |-> Null, error |-> Null, attempt |-> 0]
FreshRows == [s \in PlanSteps |-> Row(IF SpecOf[s].dependsOn = {} THEN "READY" ELSE "PENDING")]
Unclaimed == [run |-> "no", input |-> Undefined]

ConditionInit ==
  /\ written \in [PlanSteps -> UNION {StepSources[s] : s \in PlanSteps}]
  /\ \A s \in PlanSteps : written[s] \in StepSources[s]
  /\ rows = FreshRows
  /\ reading = [p \in Passes |-> FreshRows]
  /\ frozen = [s \in PlanSteps |-> Unclaimed]
  \* A plan with a condition that does not compile is never started.
  /\ running = \A s \in PlanSteps : Compile(written[s].condition) # Rejected

\* dependenciesResolved.
Resolved(s, rowsNow) ==
  \A d \in SpecOf[s].dependsOn :
    \/ rowsNow[d].status \in {"COMPLETED", "SKIPPED"}
    \/ rowsNow[d].status = "FAILED" /\ SpecOf[d].onFailure = "continue"

\* The reconciliation marks a step whose dependencies are resolved.
MarkReady(s) ==
  /\ running
  /\ rows[s].status = "PENDING"
  /\ Resolved(s, rows)
  /\ rows' = [rows EXCEPT ![s].status = "READY"]
  /\ UNCHANGED <<written, reading, frozen, running>>

\* reconcilePass reads the steps it will schedule from.
BeginPass(p) ==
  /\ running
  /\ reading' = [reading EXCEPT ![p] = rows]
  /\ UNCHANGED <<written, rows, frozen, running>>

\* The due steps are those of the pass's own reading.
Due(p, s) == reading[p][s].status \in {"READY", "RETRYING"}

\* The templates, then the claim under its lock: a false condition skips the
\* step, a true one starts the next attempt with the input resolved before.
ClaimStep(p, s) ==
  /\ running
  /\ Due(p, s)
  /\ rows[s].status \in {"READY", "RETRYING"}
  /\ Resolved(s, rows)
  /\ LET input == ResolveTemplate(written[s].input, reading[p])
         run == Evaluate(Compile(written[s].condition), rows) IN
     IF run
     THEN /\ rows' = [rows EXCEPT ![s] = [status |-> "RUNNING", output |-> Null,
                                          error |-> Null, attempt |-> @.attempt + 1]]
          /\ frozen' = [frozen EXCEPT ![s] = [run |-> "run", input |-> input]]
     ELSE /\ rows' = [rows EXCEPT ![s].status = "SKIPPED"]
          /\ frozen' = [frozen EXCEPT ![s] = [run |-> "skip", input |-> Undefined]]
  /\ UNCHANGED <<written, reading, running>>

\* The result inbox applies an attempt's outcome and the failure policy.
EndStep(s) ==
  /\ running
  /\ rows[s].status = "RUNNING"
  /\ \/ /\ \E out \in StepOutputs :
             rows' = [rows EXCEPT ![s].status = "COMPLETED", ![s].output = out]
        /\ UNCHANGED running
     \/ LET retry == SpecOf[s].onFailure = "retry" /\ rows[s].attempt < GetMaxAttempts(s) IN
        /\ rows' = [rows EXCEPT ![s].status = IF retry THEN "RETRYING" ELSE "FAILED",
                                ![s].error = Text(9)]
        /\ running' = (retry \/ SpecOf[s].onFailure = "continue")
  /\ UNCHANGED <<written, reading, frozen>>

ConditionNext ==
  \/ \E s \in PlanSteps : MarkReady(s) \/ EndStep(s)
  \/ \E p \in Passes : BeginPass(p) \/ \E s \in PlanSteps : ClaimStep(p, s)
ConditionSpec == ConditionInit /\ [][ConditionNext]_conditionVars

---------------------------------------------------------------------------
\* The steps an expression refers to.
RefsOf(e) == {x.ref[2] : x \in {y \in OperandsOf(e) : "ref" \in DOMAIN y /\ y.ref[1] = "steps"}}

TemplateRefs(template) ==
  IF template.k = "literal" \/ template.ref[1] # "steps" THEN {} ELSE {template.ref[2]}

\* A step that refers only to its own dependencies gets one answer: whichever
\* pass claims it, however old that pass's reading is and however often it is
\* retried, its condition and its input are those of the dependencies' final
\* rows (reconcilePass reads, claimRunnableStep decides).
DecisionsFollowDependencies ==
  \A s \in PlanSteps :
    LET e == Compile(written[s].condition) IN
    (/\ frozen[s].run # "no"
     /\ RefsOf(e) \cup TemplateRefs(written[s].input) \subseteq SpecOf[s].dependsOn)
    => /\ frozen[s].run = "run" <=> Evaluate(e, rows)
       /\ frozen[s].run = "run" => frozen[s].input = ResolveTemplate(written[s].input, rows)
=============================================================================
