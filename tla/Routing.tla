------------------------------ MODULE Routing ------------------------------
(***************************************************************************)
(* Where an invocation goes: the transport configuration an orchestrator   *)
(* parses when it boots, the executor descriptor a claim freezes on the    *)
(* attempt, and the router, HTTP and Kafka adapters that deliver an outbox *)
(* row.  The configuration changes between two processes only, while the   *)
(* attempts and their snapshots outlive both.                              *)
(***************************************************************************)
EXTENDS Naturals, FiniteSets

CONSTANTS
  Routed,         \* attempts waiting for dispatch
  AgentOf,        \* the agent each one targets
  StoredAs,       \* "fresh", or the snapshot an earlier version left:
                  \* "legacy" ({ agent }), "foreign" (unknown schema)
  Environments,   \* the environments the orchestrator is started with
  BridgeAgents,   \* agents named conn__... that have no entry of their own
  RedeployLimit,  \* processes after the first one
  SendLimit,      \* deliveries of one attempt that are followed
  ReviseLimit     \* revisions of the Runtime Connection
ASSUME RoutingAssumption ==
  /\ AgentOf \in [Routed -> STRING]
  /\ StoredAs \in [Routed -> {"fresh", "legacy", "foreign"}]
  /\ RedeployLimit \in Nat /\ SendLimit \in Nat \ {0} /\ ReviseLimit \in Nat

VARIABLES
  env,         \* the environment of the running (or last) process
  router,      \* "down", "started", or "refused": it did not come up
  kafkaLink,   \* "off", "idle", "connected"
  redeploys,
  descriptor,  \* attempt -> the snapshot stored with it
  row,         \* attempt -> status of its outbox row
  sending,     \* attempt -> what the dispatcher has under way for it
  sent,        \* attempt -> the deliveries that reached an executor
  retryCause,  \* attempt -> the error that returned its row to PENDING
  revision,    \* current revision of the Runtime Connection
  connRevoked  \* whether the connection is revoked
routingVars == <<env, router, kafkaLink, redeploys, descriptor, row, sending,
                 sent, retryCause, revision, connRevoked>>

---------------------------------------------------------------------------
\* validatedUrl: http only when HTTP_AGENT_ALLOW_INSECURE is set.
ValidatedUrl(scheme, e) ==
  scheme = "https" \/ (scheme = "http" /\ e.allowInsecure)

\* parseDelegationModes, parseConnectionId: absent, or within the vocabulary.
ParseDelegationModes(entry) == entry.delegationModes # "invalid"
ParseConnectionId(entry) == entry.connectionId # "invalid"

\* parseOutboundAuthentication: none, or a bearer token whose variable is set.
ParseOutboundAuthentication(entry) == entry.outbound \in {"none", "bearer"}

\* parseCallbackAuthentication: a key id within its bound and a set secret.
ParseCallbackAuthentication(entry) == entry.callback = "keyed"

\* One agent's entry: a Kafka entry carries nothing but its modes and its
\* connection; an HTTP entry must be complete.
ParseEntry(entry, e) ==
  /\ entry.kind \in {"kafka", "http"}
  /\ ~entry.unknownField
  /\ ParseDelegationModes(entry)
  /\ ParseConnectionId(entry)
  /\ entry.kind = "http" =>
       /\ ValidatedUrl(entry.scheme, e)
       /\ ParseOutboundAuthentication(entry)
       /\ ParseCallbackAuthentication(entry)
       /\ entry.requestTimeoutMs > 0
       /\ entry.maxResponseBytes > 0

HasAgents(e, kind) == \E n \in DOMAIN e.agents : e.agents[n].kind = kind

\* The replay window: its default covers the skew window exactly, a set one
\* has to cover it.
ReplayWindow(e) == IF e.replayTtl = 0 THEN e.maxSkew ELSE e.replayTtl

\* parseAgentTransportConfiguration, in the constructor of the service: the
\* process does not come up with anything else.
ParseAgentTransportConfiguration(e) ==
  /\ e.maxSkew > 0
  /\ ReplayWindow(e) >= e.maxSkew
  /\ e.callbackBase # "none" => ValidatedUrl(e.callbackBase, e)
  /\ \A n \in DOMAIN e.agents : ParseEntry(e.agents[n], e)
  /\ HasAgents(e, "http") => e.callbackBase # "none"

---------------------------------------------------------------------------
\* forAgent: the agent's own entry; an agent named after a connection goes to
\* the local bridge, whose credentials come from the environment; any other
\* agent goes to Kafka.
KafkaRoute == [ok |-> TRUE, kind |-> "kafka", url |-> "topic"]
ForAgent(agent, e) ==
  IF agent \in DOMAIN e.agents
  THEN IF e.agents[agent].kind = "kafka" THEN KafkaRoute
       ELSE [ok |-> TRUE, kind |-> "http", url |-> e.agents[agent].submitUrl]
  ELSE IF agent \in BridgeAgents
       THEN [ok |-> e.bridgeCredentials, kind |-> "http", url |-> "bridge"]
       ELSE KafkaRoute

\* buildExecutorDescriptor: the secret-free routing facts of that answer.
BuildExecutorDescriptor(agent, e) ==
  [form |-> "v1", kind |-> ForAgent(agent, e).kind, url |-> ForAgent(agent, e).url]

\* The claim of an agent bound to a Runtime Connection, by its entry or by
\* its name, freezes the connection's current revision.
BoundToConnection(agent, e) ==
  \/ agent \in BridgeAgents
  \/ agent \in DOMAIN e.agents /\ e.agents[agent].connectionId = "valid"

\* attachLocalExecutorProfile and the connection reference; 0 without one.
AttachLocalExecutorProfile(d, rev) ==
  [form |-> d.form, kind |-> d.kind, url |-> d.url, rev |-> rev]

\* What the strict parse refuses: an unknown schema version or field, a local
\* profile, argument list or reference map out of its bounds.
Unreadable(d) == d.form = "foreign"

\* parseHttpProfile: an absolute submit URL with its limits.
ParseHttpProfile(d) == d.url # "topic"

\* parseExecutorDescriptor: an HTTP profile is there exactly for HTTP.
ParseExecutorDescriptor(d) ==
  /\ d.kind \in {"kafka", "http"}
  /\ (d.kind = "http") = ParseHttpProfile(d)

\* readExecutorDescriptor: a version-1 snapshot is used as it was frozen, a
\* legacy one is routed by the live configuration (which may throw a plain
\* error), anything else fails for good.
ReadExecutorDescriptor(d, agent, e) ==
  CASE Unreadable(d) -> [ok |-> FALSE, error |-> "permanent"]
    [] d.form = "v1" /\ ParseExecutorDescriptor(d) ->
         [ok |-> TRUE, pinned |-> [kind |-> d.kind, url |-> d.url, rev |-> d.rev]]
    [] d.form = "legacy" /\ ForAgent(agent, e).ok ->
         [ok |-> TRUE, pinned |-> [kind |-> ForAgent(agent, e).kind,
                                   url |-> ForAgent(agent, e).url, rev |-> d.rev]]
    [] d.form = "legacy" /\ ~ForAgent(agent, e).ok ->
         [ok |-> FALSE, error |-> "unclassified"]
    [] OTHER -> [ok |-> FALSE, error |-> "permanent"]

---------------------------------------------------------------------------
IdleSend == "idle"

\* KafkaAgentAdapter.start: no broker is needed unless an agent is explicitly
\* on Kafka or topics are named.
NeedsBroker(e) == HasAgents(e, "kafka") \/ e.explicitTopics

RoutingInit ==
  /\ env \in Environments
  /\ router = "down" /\ kafkaLink = "off" /\ redeploys = 0
  /\ descriptor = [a \in Routed |->
       [form |-> StoredAs[a], kind |-> "none", url |-> "none", rev |-> 0]]
  /\ row = [a \in Routed |-> IF StoredAs[a] = "fresh" THEN "none" ELSE "PENDING"]
  /\ sending = [a \in Routed |-> IdleSend]
  /\ sent = [a \in Routed |-> {}]
  /\ retryCause = [a \in Routed |-> "none"]
  /\ revision = 1 /\ connRevoked = FALSE

\* The process comes up: configuration, then Kafka, then HTTP; a broker that
\* cannot be reached, or topics that cannot be subscribed, fail the start.
StartRouter ==
  /\ router = "down"
  /\ \/ /\ ~ParseAgentTransportConfiguration(env)
        /\ router' = "refused" /\ UNCHANGED kafkaLink
     \/ /\ ParseAgentTransportConfiguration(env) /\ ~NeedsBroker(env)
        /\ router' = "started" /\ kafkaLink' = "idle"
     \/ /\ ParseAgentTransportConfiguration(env) /\ NeedsBroker(env)
        /\ \/ router' = "started" /\ kafkaLink' = "connected"
           \/ router' = "refused" /\ kafkaLink' = "off"
  /\ UNCHANGED <<env, redeploys, descriptor, row, sending, sent, retryCause,
                 revision, connRevoked>>

\* The process stops (HTTP requests are aborted, Kafka is disconnected) or
\* dies, and the next one starts with an environment of the operator's
\* choice; a delivery under way leaves its row leased.
Redeploy ==
  /\ router # "down"
  /\ redeploys < RedeployLimit
  /\ redeploys' = redeploys + 1
  /\ env' \in Environments
  /\ router' = "down" /\ kafkaLink' = "off"
  /\ sending' = [a \in Routed |-> IdleSend]
  /\ UNCHANGED <<descriptor, row, sent, retryCause, revision, connRevoked>>

\* The connection is revised or revoked by its operator.
ReviseRuntime ==
  /\ ~connRevoked
  /\ \/ revision <= ReviseLimit /\ revision' = revision + 1 /\ UNCHANGED connRevoked
     \/ connRevoked' = TRUE /\ UNCHANGED revision
  /\ UNCHANGED <<env, router, kafkaLink, redeploys, descriptor, row, sending,
                 sent, retryCause>>

\* resolveExecutorDescriptor in the claim: a route that throws, or a revoked
\* connection, leaves the step unclaimed.
FreezeDescriptor(a) ==
  /\ router = "started"
  /\ row[a] = "none"
  /\ ForAgent(AgentOf[a], env).ok
  /\ connRevoked => ~BoundToConnection(AgentOf[a], env)
  /\ descriptor' = [descriptor EXCEPT ![a] = AttachLocalExecutorProfile(
       BuildExecutorDescriptor(AgentOf[a], env),
       IF BoundToConnection(AgentOf[a], env) THEN revision ELSE 0)]
  /\ row' = [row EXCEPT ![a] = "PENDING"]
  /\ UNCHANGED <<env, router, kafkaLink, redeploys, sending, sent, retryCause,
                 revision, connRevoked>>

FailFor(a, permanent, cause) ==
  /\ row' = [row EXCEPT ![a] = IF permanent THEN "FAILED" ELSE "PENDING"]
  /\ retryCause' = [retryCause EXCEPT ![a] = IF permanent THEN @ ELSE cause]
  /\ sending' = [sending EXCEPT ![a] = IdleSend]
  /\ UNCHANGED sent

\* A dispatcher leases the row and reads its descriptor.  Only an adapter
\* error that says so fails the row for good; everything else is redelivered.
PinInvocation(a) ==
  LET read == ReadExecutorDescriptor(descriptor[a], AgentOf[a], env) IN
  /\ router = "started"
  /\ row[a] \in {"PENDING", "LEASED"}
  /\ sending[a] = IdleSend
  /\ Cardinality(sent[a]) < SendLimit
  /\ IF ~read.ok THEN FailFor(a, read.error = "permanent", read.error)
     ELSE IF connRevoked /\ read.pinned.rev > 0 THEN FailFor(a, TRUE, "revoked")
     ELSE /\ row' = [row EXCEPT ![a] = "LEASED"]
          /\ sending' = [sending EXCEPT ![a] = "pinned"]
          /\ UNCHANGED <<sent, retryCause>>
  /\ UNCHANGED <<env, router, kafkaLink, redeploys, descriptor, revision, connRevoked>>

Pinned(a) == ReadExecutorDescriptor(descriptor[a], AgentOf[a], env).pinned

\* External: what the other side of a request does with it.  A refusal is
\* permanent unless it is a 408, a 429 or a 5xx.
HttpAnswers == {"accepted", "refused", "busy", "mismatched", "garbled", "silent"}
Reached(answer) == answer \in {"accepted", "mismatched", "garbled", "silent"}

\* The request is made and its answer read within the time and the size the
\* pinned profile allows: 202 with the invocation's own id completes the row;
\* a timeout, a broken connection or a retryable status returns it; every
\* other answer, an unreadable or foreign acceptance too, fails it for good.
Answered(a, answer) ==
  /\ sent' = IF Reached(answer) THEN [sent EXCEPT ![a] = @ \cup {Pinned(a)}] ELSE sent
  /\ sending' = [sending EXCEPT ![a] = IdleSend]
  /\ row' = [row EXCEPT ![a] =
       CASE answer = "accepted" -> "COMPLETED"
         [] answer \in {"busy", "silent"} -> "PENDING"
         [] OTHER -> "FAILED"]
  /\ retryCause' = [retryCause EXCEPT ![a] =
       IF answer \in {"busy", "silent"} THEN "transient" ELSE @]

\* HttpAgentAdapter.invoke: the live profile only contributes the secrets, so
\* its absence is an error, a plain one for a bridge without credentials.
InvokeHttp(a, answer) ==
  LET live == ForAgent(AgentOf[a], env) IN
  IF ~live.ok THEN FailFor(a, FALSE, "unclassified")
  ELSE IF live.kind # "http" THEN FailFor(a, TRUE, "mismatch")
  ELSE Answered(a, answer)

\* kafka.publish: one that throws may have been written.
PublishKafka(a, answer) ==
  /\ answer \in {"accepted", "silent", "busy"}
  /\ Answered(a, answer)

\* KafkaAgentAdapter.invoke: an idle transport fails for good.
InvokeKafka(a, answer) ==
  IF kafkaLink = "idle" THEN FailFor(a, TRUE, "idle") ELSE PublishKafka(a, answer)

\* AgentAdapterRouter.invoke: the pinned descriptor chooses the executor.
InvokePinned(a) ==
  /\ sending[a] = "pinned"
  /\ \E answer \in HttpAnswers :
       IF Pinned(a).kind = "http" THEN InvokeHttp(a, answer) ELSE InvokeKafka(a, answer)
  /\ UNCHANGED <<env, router, kafkaLink, redeploys, descriptor, revision, connRevoked>>

RoutingNext ==
  \/ StartRouter \/ Redeploy \/ ReviseRuntime
  \/ \E a \in Routed : FreezeDescriptor(a) \/ PinInvocation(a) \/ InvokePinned(a)

RoutingSpec == RoutingInit /\ [][RoutingNext]_routingVars

---------------------------------------------------------------------------
RoutingTypeOK ==
  /\ env \in Environments /\ router \in {"down", "started", "refused"}
  /\ kafkaLink \in {"off", "idle", "connected"} /\ redeploys \in 0..RedeployLimit
  /\ row \in [Routed -> {"none", "PENDING", "LEASED", "COMPLETED", "FAILED"}]
  /\ sending \in [Routed -> {"idle", "pinned"}]
  /\ \A a \in Routed : descriptor[a].form \in {"fresh", "legacy", "foreign", "v1"}

\* Every delivery of an attempt claimed with a descriptor, whichever process
\* makes it and however often the row is redelivered, goes to the executor,
\* the URL and the connection revision that its claim froze: a configuration
\* rotated meanwhile reroutes nothing (executor-descriptor.ts, router.invoke).
DeliveredAsFrozen ==
  \A a \in Routed : descriptor[a].form = "v1" =>
    \A r \in sent[a] : r = [kind |-> descriptor[a].kind, url |-> descriptor[a].url,
                            rev |-> descriptor[a].rev]

\* A row goes back to PENDING only for a cause that may pass: a missing or
\* rotated profile and an unreadable snapshot fail the attempt instead of
\* being redelivered every second (http-agent.adapter.ts invoke).  The one
\* exception is the bridge without its credentials, where forAgent throws an
\* error nobody has classified.
OnlyTransientFailuresAreRetried ==
  \A a \in Routed : retryCause[a] = "unclassified" => AgentOf[a] \in BridgeAgents

\* A deployment whose agents all speak HTTP never needs a broker: it is
\* refused only for its configuration (KafkaAgentAdapter.start).
HttpOnlyBootsWithoutBroker ==
  router = "refused" /\ ~HasAgents(env, "kafka") /\ ~env.explicitTopics
    => ~ParseAgentTransportConfiguration(env)
=============================================================================
