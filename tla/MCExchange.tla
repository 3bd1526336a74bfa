----------------------------- MODULE MCExchange -----------------------------
(***************************************************************************)
(* Work on its way from the coordination loop to an agent and back, for    *)
(* TLC: the loop of one execution through two full iterations, the routes  *)
(* of its invocations, the sample agents behind the broker, and the        *)
(* callbacks and records that come back.  As in MCGovernance, the          *)
(* component in focus takes its steps and the others rest, so the fairness *)
(* assumption is one about the loop.                                       *)
(***************************************************************************)
EXTENDS Coordination, Routing, SampleAgents, Ingress, TLC

CONSTANTS Focus, t1, t2, t3

VARIABLE focus

-----------------------------------------------------------------------------
(* The planner proposes one task or two, or three, which no patch can hold. *)
OneToThree == {{t1}, {t2, t3}, {t1, t2, t3}}

(* Callback posts and records: one event posted twice, another event with  *)
(* its sequence number, results in both forms, bodies that are refused.    *)
EventOf(i, s, h) == [kind |-> "event", id |-> i, seq |-> s, hash |-> h, active |-> TRUE]
Other(k) == [kind |-> k, id |-> 9, seq |-> 9, hash |-> 0, active |-> FALSE]
PostDelivery == [p \in Posts |-> CASE p \in {"p1", "p2"} -> "d1" [] p = "p3" -> "d2" [] OTHER -> "d3"]
PostContent == [d1 |-> EventOf(0, 0, 1), d2 |-> Other("invalid"), d3 |-> Other("too_large")]
RecordedAs == [k \in KafkaRecords |-> CASE k = "k1" -> Other("result") [] k = "k2" -> Other("legacy")
                                       [] k = "k3" -> EventOf(1, 0, 2) [] OTHER -> Other("too_large")]

(* An agent that moves between executors, one behind the bridge, and a row *)
(* an earlier version left.                                                *)
KafkaExecutor == [kind |-> "kafka", unknownField |-> FALSE, delegationModes |-> "absent", connectionId |-> "absent"]
HttpExecutor(url) ==
  [kind |-> "http", unknownField |-> FALSE, delegationModes |-> "valid", connectionId |-> "absent", scheme |-> "https",
   submitUrl |-> url, outbound |-> "bearer", callback |-> "keyed", requestTimeoutMs |-> 1, maxResponseBytes |-> 1]
Deployed(executor) ==
  [allowInsecure |-> FALSE, maxSkew |-> 1, replayTtl |-> 0, callbackBase |-> "https", agents |-> [a |-> executor],
   explicitTopics |-> FALSE, bridgeCredentials |-> TRUE]
SomeEnvironments == {Deployed(HttpExecutor("u1")), Deployed(HttpExecutor("u2")), Deployed(KafkaExecutor),
                     [Deployed(HttpExecutor("u1")) EXCEPT !.callbackBase = "none"],
                     [Deployed(HttpExecutor("u1")) EXCEPT !.bridgeCredentials = FALSE]}
RoutedAgent == [x \in Routed |-> CASE x = "r1" -> "a" [] x = "r2" -> "conn__x" [] OTHER -> "b"]
StoredForm == [x \in Routed |-> IF x = "r3" THEN "legacy" ELSE "fresh"]

SampleTask(id, form, input) == [id |-> id, form |-> form, input |-> input]
SampleTopics ==
  ("code-reviewer" :> <<SampleTask(1, "canonical", "object"), SampleTask(2, "foreign", "object"),
                        SampleTask(3, "legacy", "other")>>)
  @@ ("observability" :> <<SampleTask(4, "canonical", "object")>>)

-----------------------------------------------------------------------------
Frozen(c, v) == focus # c => UNCHANGED v

OthersRest ==
  /\ UNCHANGED focus
  /\ Frozen("coordination", coordVars) /\ Frozen("routing", routingVars)
  /\ Frozen("sample", sampleVars) /\ Frozen("ingress", ingressVars)

ExchangeInit ==
  /\ focus \in Focus /\ SampleInit /\ IngressInit
  /\ CoordInit /\ (focus # "coordination" => ~gated)
  /\ RoutingInit /\ (focus # "routing" => env = Deployed(KafkaExecutor))

ExchangeNext ==
  \/ focus = "coordination" /\ CoordNext /\ OthersRest
  \/ focus = "routing" /\ RoutingNext /\ OthersRest
  \/ focus = "sample" /\ SampleNext /\ OthersRest
  \/ focus = "ingress" /\ IngressNext /\ OthersRest

exchangeVars == <<focus, coordVars, routingVars, sampleVars, ingressVars>>

\* RuntimeRecoveryService.recover reconciles the loop on every tick and time
\* passes; nothing is assumed of the agents.
LoopFairness ==
  /\ \A r \in Replicas : WF_coordVars(focus = "coordination" /\ ReconcileLoop(r))
  /\ WF_coordVars(focus = "coordination" /\ LoseAuthority("deadline"))

ExchangeSpec == ExchangeInit /\ [][ExchangeNext]_exchangeVars /\ LoopFairness

-----------------------------------------------------------------------------
\* Routes, deliveries, inbox rows and the loop's state have their types, and
\* the loop's workers stay within its total, batch by batch.
ExchangeTypeOK == CoordTypeOK /\ WorkersAreBounded /\ RoutingTypeOK /\ IngressTypeOK

\* Whatever is acknowledged is kept: callbacks and records are acknowledged
\* when stored, evidence of a conflict names one delivery, work is delivered
\* to the executor its claim froze and again only after a transient failure,
\* and a committed task is answered.
DeliveriesAreKept ==
  /\ CallbackAckIsDurable /\ CanonicalRecordIsDurable /\ EvidenceIsUnambiguous
  /\ DeliveredAsFrozen /\ OnlyTransientFailuresAreRetried /\ HttpOnlyBootsWithoutBroker
  /\ CommittedTaskIsAnswered
=============================================================================
