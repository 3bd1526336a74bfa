---------------------------- MODULE SampleAgents ----------------------------
(* The two Kafka agents of the repository, the code reviewer and the        *)
(* observability agent: each consumes its task topic one record at a time,  *)
(* normalises the invocation, calls the Agent Runner under the invocation's *)
(* remaining time, and publishes a result.  eachMessage swallows whatever   *)
(* escapes, so a record is never retried by the agent; offsets are committed *)
(* now and then, so a crash delivers records a second time.                 *)
EXTENDS Naturals, Sequences

CONSTANTS SampleAgentNames,  \* "code-reviewer", "observability"
          Topic,             \* agent -> its sequence of task records:
                             \* [id, form, input]
          AgentCrashes,      \* bound: crashes
          BrokerErrors       \* bound: sends that fail

Forms == {"canonical", "legacy", "foreign", "incomplete", "unreadable", "empty"}

ASSUME SampleAssumption ==
  /\ SampleAgentNames \subseteq {"code-reviewer", "observability"}
  /\ \A a \in SampleAgentNames : \A i \in 1..Len(Topic[a]) :
       Topic[a][i].form \in Forms /\ Topic[a][i].input \in {"object", "other"}
  /\ AgentCrashes \in Nat /\ BrokerErrors \in Nat

VARIABLES position,    \* agent -> records it has finished with
          committed,   \* agent -> records it will not be given again
          doing,       \* agent -> [at, status, body]
          answered,    \* results on the result topics: [id, status, body]
          unsent,      \* tasks one of whose results the broker did not take
          downs, errs  \* crashes and failed sends so far

sampleVars == <<position, committed, doing, answered, unsent, downs, errs>>

IdleAgent == [at |-> "idle", status |-> "-", body |-> "-"]
Task(a) == Topic[a][position[a] + 1]

SampleInit ==
  /\ position = [a \in SampleAgentNames |-> 0] /\ committed = position
  /\ doing = [a \in SampleAgentNames |-> IdleAgent]
  /\ answered = {} /\ unsent = {} /\ downs = 0 /\ errs = 0

AgentGoes(a, d) == doing' = [doing EXCEPT ![a] = d]
Done(a) == AgentGoes(a, IdleAgent) /\ position' = [position EXCEPT ![a] = @ + 1]

\* normalizeInvocation: a canonical invocation for this agent, or a legacy one
\* with its identifiers; the rest is logged and dropped.
Normalized(t) == t.form \in {"canonical", "legacy"}

\* logInvalidInvocation: nothing is published for what is dropped.
Dropped(a) == Done(a)

\* processTask up to the runner: what is not readable ends here.
ReceiveTask(a) ==
  /\ doing[a].at = "idle" /\ position[a] < Len(Topic[a])
  /\ IF Normalized(Task(a))
     THEN AgentGoes(a, [IdleAgent EXCEPT !.at = "running"]) /\ UNCHANGED position
     ELSE Dropped(a)
  /\ UNCHANGED <<committed, answered, unsent, downs, errs>>

\* The input must be an object; otherwise the task fails, and says so.
Prepare(a) ==
  /\ doing[a].at = "running"
  /\ AgentGoes(a, IF Task(a).input = "object" THEN [doing[a] EXCEPT !.at = "calling"]
             ELSE [at |-> "failing", status |-> "failed", body |-> "error"])
  /\ UNCHANGED <<position, committed, answered, unsent, downs, errs>>

\* The body of the result, by the runner's output: a JSON object is taken as
\* it is; text and broken JSON become findings under a lower score.
ReviewerBody(out) ==
  CASE out = "json" -> "as the runner graded it"
    [] out = "text" -> "score 90"
    [] out = "broken" -> "score 80"

\* The observability agent calls text and broken JSON degraded.
ObservabilityBody(out) == IF out = "json" THEN "as the runner judged it" ELSE "DEGRADED"

\* callRunner: an output, an error, or the abort when the remaining time is up.
RunnerAnswers(a) ==
  /\ doing[a].at = "calling"
  /\ \/ \E out \in {"json", "text", "broken"} :
          AgentGoes(a, [at |-> "publishing", status |-> "succeeded",
                   body |-> IF a = "code-reviewer" THEN ReviewerBody(out)
                                                   ELSE ObservabilityBody(out)])
     \/ AgentGoes(a, [at |-> "failing", status |-> "failed", body |-> "error"])
     \/ AgentGoes(a, [at |-> "failing", status |-> "timed_out", body |-> "error"])
  /\ UNCHANGED <<position, committed, answered, unsent, downs, errs>>

\* publishResult.
Publish(a) ==
  /\ doing[a].at \in {"publishing", "failing"}
  /\ answered' = answered \cup
       {[id |-> Task(a).id, status |-> doing[a].status, body |-> doing[a].body]}
  /\ Done(a)
  /\ UNCHANGED <<committed, unsent, downs, errs>>

\* A send that fails, though the broker may have kept it: a success is then
\* reported as a failure, a failure is given up with the record.
PublishFails(a) ==
  /\ doing[a].at \in {"publishing", "failing"} /\ errs < BrokerErrors
  /\ errs' = errs + 1
  /\ \E kept \in BOOLEAN :
       answered' = answered \cup
         {r \in {[id |-> Task(a).id, status |-> doing[a].status, body |-> doing[a].body]} : kept}
  /\ IF doing[a].at = "publishing"
     THEN /\ AgentGoes(a, [at |-> "failing", status |-> "failed", body |-> "error"])
          /\ UNCHANGED <<position, unsent>>
     ELSE /\ Done(a) /\ unsent' = unsent \cup {Task(a).id}
  /\ UNCHANGED <<committed, downs>>

\* The consumer commits what eachMessage has returned from.
Commit(a) ==
  /\ committed[a] < position[a]
  /\ committed' = [committed EXCEPT ![a] = position[a]]
  /\ UNCHANGED <<position, doing, answered, unsent, downs, errs>>

AgentCrashesNow(a) ==
  /\ downs < AgentCrashes /\ downs' = downs + 1
  /\ position' = [position EXCEPT ![a] = committed[a]] /\ AgentGoes(a, IdleAgent)
  /\ UNCHANGED <<committed, answered, unsent, errs>>

SampleNext ==
  \E a \in SampleAgentNames :
    \/ ReceiveTask(a) \/ Prepare(a) \/ RunnerAnswers(a) \/ Publish(a)
    \/ PublishFails(a) \/ Commit(a) \/ AgentCrashesNow(a)

SampleSpec == SampleInit /\ [][SampleNext]_sampleVars

------------------------------------------------------------------------------
\* A task record that the agent will not be given again was answered, unless
\* it was not an invocation for this agent or the broker refused the failure
\* result as well (processTask, and eachMessage's swallowing catch).
CommittedTaskIsAnswered ==
  \A a \in SampleAgentNames : \A i \in 1..committed[a] :
    LET t == Topic[a][i] IN
    Normalized(t) /\ t.id \notin unsent => \E r \in answered : r.id = t.id
=============================================================================
