------------------------------ MODULE Capsules ------------------------------
(***************************************************************************)
(* ExecutionCapsuleService: the bounded read model of a run (build, one    *)
(* REPEATABLE READ snapshot), the export manifests and controlled replays  *)
(* pinned to its content hash, and the structural comparison of two        *)
(* capsules.  Every call captures first and commits in a later             *)
(* transaction, while the run, its late evidence and the global policy     *)
(* move on.                                                                *)
(*                                                                         *)
(* A plan maps steps to the hash of their configuration, 0 where absent.   *)
(***************************************************************************)
EXTENDS Naturals, Sequences, FiniteSets, SequencesExt, FiniteSetsExt

CONSTANTS
  CapsuleRuns,                  \* source executions
  Looping,                      \* those driven by a coordination run
  StepNames,
  PlansOf,                      \* the plans a run activates, in order
  CapsuleRequests,              \* export, replay and compare calls
  MaxRevisions, MaxAttempts,    \* CAPSULE_BOUNDS
  AttemptLimit,                 \* per execution
  LateLimit, PolicyLimit,
  MaxNodes, MaxEdges, MaxSpans  \* of the derived graphs

ASSUME CapsuleAssumption ==
  /\ Looping \subseteq CapsuleRuns
  /\ {MaxNodes, MaxEdges, MaxSpans} \subseteq Nat \ {0} /\ MaxEdges >= 2 * MaxNodes /\ MaxSpans > MaxAttempts
  /\ {MaxRevisions, MaxAttempts} \subseteq Nat \ {0}
  /\ AttemptLimit \in [CapsuleRuns -> Nat] /\ {LateLimit, PolicyLimit} \subseteq Nat
  /\ \A e \in CapsuleRuns : PlansOf[e] \in Seq([StepNames -> Nat]) /\ PlansOf[e] # <<>>

VARIABLES
  runStatus,  \* "RUNNING", "COMPLETED" or "FAILED"
  plans,      \* plan revisions, oldest first; the last is active
  attempts,   \* attempts, oldest first: [step, status, revision]
  late,       \* rows that reach a run after its end: conflicts, events, lease moves
  policy,     \* the latest frozen policy snapshot, global
  capture,    \* a call between its capture and its commit
  exports, replays, comparison

capsuleVars == <<runStatus, plans, attempts, late, policy, capture, exports, replays, comparison>>

NoCapsule == [run |-> "none"]
EndedRun == {"COMPLETED", "FAILED"}
EndedAttempt == {"SUCCESS", "FAILED", "CANCELLED", "TIMED_OUT"}
\* Mutant: the row read to see whether there is more is kept.
NewestAndOne(s, n) == Reverse(SubSeq(s, (IF Len(s) > n THEN Len(s) - n - 1 ELSE 0) + 1, Len(s)))

Newest(s, n) == Reverse(SubSeq(s, (IF Len(s) > n THEN Len(s) - n ELSE 0) + 1, Len(s)))

\* build: bounded sections, newest first, with a completeness warning for every
\* bound that bit; counts and evidence sections are one number here.
BuildCapsule(e) ==
  [run |-> e, status |-> runStatus[e],
   revisions |-> Newest(plans[e], MaxRevisions), revisionCount |-> Len(plans[e]),
   attempts |-> Newest(attempts[e], MaxAttempts), attemptCount |-> Len(attempts[e]),
   evidence |-> late[e], policy |-> policy]

\* Mutant: only a run without attempts counts as not settled yet.
LiveIfUnattempted(c) == c.status \notin EndedRun /\ c.attempts = <<>>

CapsuleLive(c) == c.status \notin EndedRun
PlansTruncated(c) == c.revisionCount > MaxRevisions
AttemptsTruncated(c) == c.attemptCount > MaxAttempts

\* The stable hash leaves out the capture time and the global policy snapshot.
ContentHash(c) == [c EXCEPT !.policy = 0]

---------------------------------------------------------------------------
\* The content of a capsule, as its readers see it.
ExecutionCapsuleV1 ==
  [run : CapsuleRuns, status : {"RUNNING"} \cup EndedRun,
   revisions : Seq([StepNames -> Nat]), revisionCount : Nat,
   attempts : Seq([step : StepNames, status : {"RUNNING"} \cup EndedAttempt, revision : Nat]),
   attemptCount : Nat, evidence : Nat, policy : Nat]

Root == <<"execution", 0>>

\* provenance: the nodes in the order they are added, up to the bound.
AdmittedNodes(c) ==
  LET all == <<Root>>
             \o [i \in DOMAIN c.revisions |-> <<"revision", c.revisionCount + 1 - i>>]
             \o [i \in DOMAIN c.attempts |-> <<"attempt", c.attemptCount + 1 - i>>]
             \o [i \in 1 .. c.policy |-> <<"policy", i>>]
  IN SubSeq(all, 1, IF Len(all) < MaxNodes THEN Len(all) ELSE MaxNodes)

ProvenanceNodes(c) == ToSet(AdmittedNodes(c))

BoundedEdges(es) == SubSeq(es, 1, IF Len(es) < MaxEdges THEN Len(es) ELSE MaxEdges)

\* The edges added with a node, between nodes that were admitted: everything
\* belongs to the execution, and an attempt to the revision it was claimed under.
EdgesOf(c, n) ==
  IF n = Root THEN <<>>
  ELSE IF n[1] # "attempt" THEN <<<<n, Root>>>>
  ELSE LET r == <<"revision", c.attempts[c.attemptCount + 1 - n[2]].revision>>
       IN IF r \in ProvenanceNodes(c) THEN <<<<n, Root>>, <<n, r>>>> ELSE <<<<n, Root>>>>

ProvenanceEdges(c) ==
  ToSet(BoundedEdges(FlattenSeq([k \in DOMAIN AdmittedNodes(c) |-> EdgesOf(c, AdmittedNodes(c)[k])])))

\* projectTelemetry: a root span, then one for every attempt that has ended.
EndedAttempts(c) ==
  FlattenSeq([i \in DOMAIN c.attempts |-> IF c.attempts[i].status \in EndedAttempt THEN <<c.attempts[i]>> ELSE <<>>])

TelemetrySpans(c) ==
  LET ended == EndedAttempts(c)
      all == <<[name |-> "pipeline.execute", failed |-> c.status = "FAILED"]>>
             \o [i \in DOMAIN ended |-> [name |-> "step.execute", failed |-> ended[i].status # "SUCCESS"]]
  IN SubSeq(all, 1, IF Len(all) < MaxSpans THEN Len(all) ELSE MaxSpans)

---------------------------------------------------------------------------
\* External: the run itself, until it ends.
AddAttempt(e) ==
  /\ runStatus[e] = "RUNNING" /\ Len(attempts[e]) < AttemptLimit[e]
  /\ \E s \in StepNames :
       /\ Last(plans[e])[s] # 0
       /\ attempts' = [attempts EXCEPT ![e] = Append(@, [step |-> s, status |-> "RUNNING",
                                                             revision |-> Len(plans[e])])]
  /\ UNCHANGED <<runStatus, plans, late, policy, capture, exports, replays, comparison>>

EndAttempt(e) ==
  /\ \E i \in DOMAIN attempts[e] :
       /\ attempts[e][i].status = "RUNNING"
       /\ \E s \in {"SUCCESS", "FAILED"} : attempts' = [attempts EXCEPT ![e][i].status = s]
  /\ UNCHANGED <<runStatus, plans, late, policy, capture, exports, replays, comparison>>

AddRevision(e) ==
  /\ runStatus[e] = "RUNNING" /\ Len(plans[e]) < Len(PlansOf[e])
  /\ plans' = [plans EXCEPT ![e] = SubSeq(PlansOf[e], 1, Len(@) + 1)]
  /\ UNCHANGED <<runStatus, attempts, late, policy, capture, exports, replays, comparison>>

FinishRun(e) ==
  /\ runStatus[e] = "RUNNING" /\ \A i \in DOMAIN attempts[e] : attempts[e][i].status # "RUNNING"
  /\ \E s \in EndedRun : runStatus' = [runStatus EXCEPT ![e] = s]
  /\ UNCHANGED <<plans, attempts, late, policy, capture, exports, replays, comparison>>

LateEvidence(e) ==
  /\ runStatus[e] \in EndedRun /\ late[e] < LateLimit
  /\ late' = [late EXCEPT ![e] = @ + 1]
  /\ UNCHANGED <<runStatus, plans, attempts, policy, capture, exports, replays, comparison>>

PublishPolicy ==
  /\ policy < PolicyLimit /\ policy' = policy + 1
  /\ UNCHANGED <<runStatus, plans, attempts, late, capture, exports, replays, comparison>>

\* The capture every call, an export, a replay or a comparison, starts with.
Capture(q) ==
  /\ capture[q].at = "new"
  /\ \E e \in CapsuleRuns : capture' = [capture EXCEPT ![q] = [at |-> "captured", capsule |-> BuildCapsule(e)]]
  /\ UNCHANGED <<runStatus, plans, attempts, late, policy, exports, replays, comparison>>

CloseRequest(q) == capture' = [capture EXCEPT ![q] = [at |-> "done", capsule |-> NoCapsule]]

\* createExport: under the execution lock, one manifest per content hash.
CommitExport(q) ==
  /\ capture[q].at = "captured" /\ CloseRequest(q)
  /\ exports' = exports \cup {ContentHash(capture[q].capsule)}
  /\ UNCHANGED <<runStatus, plans, attempts, late, policy, replays, comparison>>

Replayable(c) == c.status \in EndedRun

\* replayWithManager: an existing row for the hash is returned; otherwise the
\* revision with the captured hash becomes the plan of a new execution, and a
\* coordinated source gets a new run in PLANNING at iteration 0.
CommitReplay(q) ==
  LET c == capture[q].capsule IN
  /\ capture[q].at = "captured" /\ CloseRequest(q)
  /\ replays' = IF ~Replayable(c) \/ \E i \in DOMAIN replays : replays[i].hash = ContentHash(c)
                  THEN replays
                  ELSE Append(replays, [hash |-> ContentHash(c), run |-> c.run, plan |-> Head(c.revisions),
                                        loop |-> IF c.run \in Looping THEN "planning" ELSE "none",
                                        iterations |-> 0, passed |-> FALSE])
  /\ UNCHANGED <<runStatus, plans, attempts, late, policy, exports, comparison>>

\* A reconciliation pass over a replayed run's loop: past the loop deadline it
\* ends; in PLANNING createPlannerStep needs the row of the current iteration and
\* throws ITERATION_NOT_FOUND, leaving the run as it was, where there is none.
\* "passed" records that a pass was made before the deadline.
ReconcileReplay ==
  /\ \E i \in DOMAIN replays, expired \in BOOLEAN :
       /\ replays[i].loop = "planning"
       /\ replays' = [replays EXCEPT ![i].passed = @ \/ ~expired,
                                     ![i].loop = IF expired THEN "limit"
                                               ELSE IF replays[i].iterations > 0 THEN "planner" ELSE @]
  /\ UNCHANGED <<runStatus, plans, attempts, late, policy, capture, exports, comparison>>

\* compare: the status of a step is that of the first terminal attempt in a
\* newest-first list; null when there is none.
Outcome(c, s) ==
  LET ends == {i \in DOMAIN c.attempts : c.attempts[i].step = s /\ c.attempts[i].status \in EndedAttempt}
  IN IF ends = {} THEN "null" ELSE c.attempts[Min(ends)].status

Compared(a, b) ==
  LET ids == {s \in StepNames : Head(a.revisions)[s] # 0 \/ Head(b.revisions)[s] # 0} IN
  [plan |-> \A s \in ids : Head(a.revisions)[s] = Head(b.revisions)[s],
   planUnavailable |-> PlansTruncated(a) \/ PlansTruncated(b),
   outcome |-> \A s \in ids : Outcome(a, s) = Outcome(b, s),
   outcomeUnavailable |-> AttemptsTruncated(a) \/ AttemptsTruncated(b) \/ CapsuleLive(a) \/ CapsuleLive(b),
   left |-> a.run, right |-> b.run]

CommitCompare(q) ==
  /\ capture[q].at = "captured" /\ CloseRequest(q)
  /\ \E e \in CapsuleRuns : comparison' = Compared(capture[q].capsule, BuildCapsule(e))
  /\ UNCHANGED <<runStatus, plans, attempts, late, policy, exports, replays>>

NoComparison == [plan |-> TRUE, planUnavailable |-> TRUE, outcome |-> TRUE, outcomeUnavailable |-> TRUE,
                 left |-> CHOOSE e \in CapsuleRuns : TRUE, right |-> CHOOSE e \in CapsuleRuns : TRUE]

CapsuleInit ==
  /\ runStatus = [e \in CapsuleRuns |-> "RUNNING"]
  /\ plans = [e \in CapsuleRuns |-> <<Head(PlansOf[e])>>]
  /\ attempts = [e \in CapsuleRuns |-> <<>>] /\ late = [e \in CapsuleRuns |-> 0]
  /\ policy = 0 /\ exports = {} /\ replays = <<>> /\ comparison = NoComparison
  /\ capture = [q \in CapsuleRequests |-> [at |-> "new", capsule |-> NoCapsule]]

CapsuleNext ==
  \/ \E e \in CapsuleRuns : AddAttempt(e) \/ EndAttempt(e) \/ AddRevision(e) \/ FinishRun(e) \/ LateEvidence(e)
  \/ \E q \in CapsuleRequests : Capture(q) \/ CommitExport(q) \/ CommitReplay(q) \/ CommitCompare(q)
  \/ PublishPolicy \/ ReconcileReplay

CapsuleSpec == CapsuleInit /\ [][CapsuleNext]_capsuleVars

-----------------------------------------------------------------------------
\* Every capsule is well formed and within its bounds (ExecutionCapsuleV1).
CapsuleTypeOK ==
  \A q \in CapsuleRequests : LET c == capture[q].capsule IN
    capture[q].at = "captured" =>
      c \in ExecutionCapsuleV1 /\ Len(c.revisions) <= MaxRevisions /\ Len(c.attempts) <= MaxAttempts

\* The bounds of the derived graphs fit together: whatever the node bound cuts
\* off, each remaining node hangs on the graph by an edge, and an attempt with
\* its revision by both of its edges; the telemetry has a span for every ended
\* attempt the capsule shows (provenance, projectTelemetry).
ProjectionsAreComplete ==
  \A e \in CapsuleRuns :
    LET c == BuildCapsule(e)  nodes == ProvenanceNodes(c)  edges == ProvenanceEdges(c) IN
    /\ \A n \in nodes \ {Root} : <<n, Root>> \in edges
    /\ \A i \in DOMAIN c.attempts :
         LET a == <<"attempt", c.attemptCount + 1 - i>>  r == <<"revision", c.attempts[i].revision>> IN
         {a, r} \subseteq nodes => <<a, r>> \in edges
    /\ Len(TelemetrySpans(c)) = 1 + Cardinality({i \in DOMAIN c.attempts : c.attempts[i].status \in EndedAttempt})

\* A replay runs the plan its source ended with: the source is terminal when it
\* is captured, so nothing can be activated between the capture and the commit.
ReplayRunsTheFinalPlan ==
  \A i \in DOMAIN replays : /\ runStatus[replays[i].run] \in EndedRun
                            /\ replays[i].plan = Last(plans[replays[i].run])

\* Publishing a policy never makes a second replay or manifest of an ended run:
\* two rows of one run differ in the run's own evidence.
EvidenceIdentifiesCapsules ==
  /\ \A i, j \in DOMAIN replays : i # j /\ replays[i].run = replays[j].run =>
       replays[i].hash.evidence # replays[j].hash.evidence
  /\ \A x, y \in exports : x # y => [x EXCEPT !.policy = 0] # [y EXCEPT !.policy = 0]

(***************************************************************************)
(* A conclusion of `compare` that is not marked unavailable is true of the *)
(* runs' whole histories, not of their bounded newest sections: both ended *)
(* and, step by step, with the same last terminal attempt.                 *)
(***************************************************************************)
ComparisonIsHonest ==
  LET LastOf(e, s) ==
        LET ends == {i \in DOMAIN attempts[e] : attempts[e][i].step = s /\ attempts[e][i].status \in EndedAttempt}
        IN IF ends = {} THEN "null" ELSE attempts[e][CHOOSE i \in ends : \A j \in ends : j <= i].status
      ids == {s \in StepNames : Last(plans[comparison.left])[s] # 0 \/ Last(plans[comparison.right])[s] # 0}
  IN ~comparison.outcomeUnavailable =>
       /\ {runStatus[comparison.left], runStatus[comparison.right]} \subseteq EndedRun
       /\ comparison.outcome <=> \A s \in ids : LastOf(comparison.left, s) = LastOf(comparison.right, s)

(***************************************************************************)
(* The replay of a coordinated run drives its own loop: "entering PLANNING *)
(* with a new iteration materializes the trusted Planner step", on the     *)
(* first pass made before the deadline.  The replay creates the run but,   *)
(* unlike startTeamRun and continueRun, no first iteration.                *)
(***************************************************************************)
ReplayedLoopStarts ==
  \A i \in DOMAIN replays : replays[i].passed => replays[i].loop = "planner"
=============================================================================
