------------------------------- MODULE Ingress -------------------------------
(***************************************************************************)
(* What workers send back: signed HTTP callbacks through the adapter with  *)
(* its process-local replay cache, and Kafka records, both ending in the   *)
(* durable application of an agent event or an agent result.  A sender     *)
(* stops retrying once it is answered, so an answer is a promise.  One     *)
(* step attempt is modelled; its result inbox is module ResultInbox.       *)
(***************************************************************************)
EXTENDS Naturals, Sequences, FiniteSets, SequencesExt

CONSTANTS
    Posts,         \* HTTP callback requests; a retry is a request of its own
    DeliveryOf,    \* the signed delivery id of each
    ContentOf,     \* the body of a delivery: an event, a result, or neither
    ReplayMax,     \* HTTP_AGENT_REPLAY_MAX_ENTRIES
    KafkaRecords,  \* records of the result and event topics
    RecordContent, \* their bodies; legacy marks a result without schemaVersion 1
    FailLimit      \* bound: transactions that fail

Bodies == Range(ContentOf) \cup Range(RecordContent)

ASSUME IngressAssumption ==
    /\ DOMAIN DeliveryOf = Posts /\ DOMAIN ContentOf = Range(DeliveryOf)
    /\ DOMAIN RecordContent = KafkaRecords
    /\ ReplayMax \in Nat \ {0} /\ FailLimit \in Nat
    /\ \A b \in Bodies : b.kind \in {"event", "result", "legacy", "invalid", "too_large"}

VARIABLES
    up,         \* the adapters have their handlers
    post,       \* each request: new, awaiting its handler, or answered
    replay,     \* replayEntries, oldest first
    record,     \* each Kafka record: new, awaiting its handler, or committed
    events,     \* rows of agent_events for the attempt
    conflicts,  \* rows of agent_event_conflicts
    results,    \* results the inbox has accepted
    status,     \* the attempt's status
    failures

ingressVars == <<up, post, replay, record, events, conflicts, results, status, failures>>

ReplayEntries == [key : Range(DeliveryOf), state : {"in-flight", "completed"}]

IngressTypeOK ==
    /\ up \in BOOLEAN
    /\ post \in [Posts -> {"new", "handling", "processed", "duplicate", "retry", "rejected"}]
    /\ replay \in Seq(ReplayEntries)
    /\ record \in [KafkaRecords -> {"new", "looking", "handling", "committed"}]
    /\ events \subseteq Bodies /\ conflicts \subseteq Bodies /\ results \subseteq Bodies
    /\ status \in {"DISPATCHED", "RUNNING", "SUCCESS"}
    /\ failures \in 0..FailLimit

IngressInit ==
    /\ up = TRUE
    /\ post = [p \in Posts |-> "new"] /\ replay = << >>
    /\ record = [k \in KafkaRecords |-> "new"]
    /\ events = {} /\ conflicts = {} /\ results = {} /\ status = "DISPATCHED"
    /\ failures = 0

-----------------------------------------------------------------------------
(* AgentEventService.apply and ResultInboxService, one transaction each. *)

Recorded(b) == b \in events \cup conflicts \cup results

\* The canonical row of an event id decides; then the owner of its sequence.
Conflicting(e) == \E f \in events : f # e /\ (f.id = e.id \/ f.seq = e.seq)

\* Mutant: an active event writes RUNNING without the status predicate.
ProjectedAlways(e) == IF e.active THEN "RUNNING" ELSE status

\* projectLiveness: heartbeat, progress, log and artifact move DISPATCHED on.
Projected(e) == IF e.active /\ status = "DISPATCHED" THEN "RUNNING" ELSE status

ApplyEvent(e) ==
    /\ IF e \in events THEN UNCHANGED <<events, conflicts, status>>
       ELSE IF Conflicting(e)
       THEN conflicts' = conflicts \cup {e} /\ UNCHANGED <<events, status>>
       ELSE events' = events \cup {e} /\ status' = Projected(e) /\ UNCHANGED conflicts
    /\ UNCHANGED results

\* The inbox accepts the result: first terminal result, duplicate or conflict.
ApplyResult(b) ==
    /\ results' = results \cup {b}
    /\ status' = "SUCCESS"
    /\ UNCHANGED <<events, conflicts>>

Apply(b) == IF b.kind = "event" THEN ApplyEvent(b) ELSE ApplyResult(b)

Fail == failures < FailLimit /\ failures' = failures + 1

-----------------------------------------------------------------------------
(* HttpAgentAdapter.handleCallback and its controller. *)

Body(p) == ContentOf[DeliveryOf[p]]

\* Map.delete: the entry of the key goes, if there is one.
Without(q, key) ==
    IF \E k \in DOMAIN q : q[k].key = key
    THEN RemoveAt(q, CHOOSE k \in DOMAIN q : q[k].key = key)
    ELSE q

Entry(key, state) == [key |-> key, state |-> state]
Known(key, state) == \E k \in DOMAIN replay : replay[k] = Entry(key, state)

\* Map.set keeps the place of a key that is there.
Put(key) ==
    IF \E k \in DOMAIN replay : replay[k].key = key
    THEN [k \in DOMAIN replay |-> IF replay[k].key = key THEN Entry(key, "completed") ELSE replay[k]]
    ELSE Append(replay, Entry(key, "completed"))

\* reserveReplayEntry evicts the oldest entry at the limit, in flight or not.
Reserve(key) ==
    Append(IF Len(replay) >= ReplayMax THEN Tail(replay) ELSE replay, Entry(key, "in-flight"))

\* Mutant: a delivery that is in flight counts as processed.
AnsweredBeforeOrNow(key) == Known(key, "completed") \/ Known(key, "in-flight")

\* Only a completed delivery is answered from memory.
AnsweredBefore(key) == Known(key, "completed")

\* Up to the await of the handler.  The signature is checked first; a body that
\* is neither event nor result is refused for good and leaves no entry.
TakePost(p) ==
    LET key == DeliveryOf[p] IN
    /\ post[p] = "new"
    /\ \/ /\ post' = [post EXCEPT ![p] = "rejected"]           \* signature or skew
          /\ UNCHANGED replay
       \/ /\ ~up
          /\ post' = [post EXCEPT ![p] = "retry"]
          /\ UNCHANGED replay
       \/ /\ up /\ AnsweredBefore(key)
          /\ post' = [post EXCEPT ![p] = "duplicate"]
          /\ UNCHANGED replay
       \/ /\ up /\ ~AnsweredBefore(key) /\ Body(p).kind \in {"invalid", "legacy"}
          /\ post' = [post EXCEPT ![p] = "rejected"]
          /\ replay' = Without(IF Known(key, "in-flight") THEN replay ELSE Reserve(key), key)
       \/ /\ up /\ ~AnsweredBefore(key) /\ Body(p).kind \notin {"invalid", "legacy"}
          /\ post' = [post EXCEPT ![p] = "handling"]
          /\ replay' = IF Known(key, "in-flight") THEN replay ELSE Reserve(key)
    /\ UNCHANGED <<up, record, events, conflicts, results, status, failures>>

\* The handler committed: 204, and later copies are answered from memory.
FinishPost(p) ==
    /\ post[p] = "handling" /\ Body(p).kind # "too_large"
    /\ Apply(Body(p))
    /\ post' = [post EXCEPT ![p] = "processed"]
    /\ replay' = Put(DeliveryOf[p])
    /\ UNCHANGED <<up, record, failures>>

\* The handler threw: 503 or 500 for the sender to retry, 400 for an event
\* over the size limit.
FailPost(p) ==
    /\ post[p] = "handling"
    /\ \/ /\ Body(p).kind = "too_large"
          /\ post' = [post EXCEPT ![p] = "rejected"]
          /\ UNCHANGED failures
       \/ /\ Body(p).kind # "too_large" /\ Fail
          /\ post' = [post EXCEPT ![p] = "retry"]
    /\ replay' = Without(replay, DeliveryOf[p])
    /\ UNCHANGED <<up, record, events, conflicts, results, status>>

\* The worker's next attempt with the same delivery id.
RetryPost(p) ==
    /\ post[p] = "retry"
    /\ post' = [post EXCEPT ![p] = "new"]
    /\ UNCHANGED <<up, replay, record, events, conflicts, results, status, failures>>

\* cleanupReplayEntries: the TTL of the oldest entry has passed.
ExpireReplay ==
    /\ replay # << >>
    /\ replay' = Tail(replay)
    /\ UNCHANGED <<up, post, record, events, conflicts, results, status, failures>>

\* stop() and the start of the next process: the cache is empty, requests
\* that were in the handler are cut off and will be retried.
RestartAdapters ==
    /\ up' = ~up
    /\ IF up THEN /\ replay' = << >>
                  /\ post' = [p \in Posts |-> IF post[p] = "handling" THEN "retry" ELSE post[p]]
                  /\ record' = [k \in KafkaRecords |->
                                  IF record[k] \in {"looking", "handling"} THEN "new" ELSE record[k]]
             ELSE UNCHANGED <<replay, post, record>>
    /\ UNCHANGED <<events, conflicts, results, status, failures>>

-----------------------------------------------------------------------------
(* KafkaAgentAdapter.handleKafkaMessage: returning commits the offset. *)

\* A record that does not parse is poison: logged and acknowledged.  A legacy
\* result is normalised first, which reads the step from the database.
TakeRecord(k) ==
    /\ up /\ record[k] = "new"
    /\ record' = [record EXCEPT ![k] =
                    CASE RecordContent[k].kind = "invalid" -> "committed"
                      [] RecordContent[k].kind = "legacy"  -> "looking"
                      [] OTHER                             -> "handling"]
    /\ UNCHANGED <<up, post, replay, events, conflicts, results, status, failures>>

\* normalizeResult: the step is found (a legacy result of an unknown step is
\* dropped, and is not modelled); or the query fails, and what it throws
\* is no AgentAdapterError, so the catch treats it as a poison record.
Normalise(k) ==
    /\ record[k] = "looking"
    /\ \/ /\ record' = [record EXCEPT ![k] = "handling"]
          /\ UNCHANGED failures
       \/ /\ Fail
          /\ record' = [record EXCEPT ![k] = "committed"]
    /\ UNCHANGED <<up, post, replay, events, conflicts, results, status>>

FinishRecord(k) ==
    /\ record[k] = "handling" /\ RecordContent[k].kind # "too_large"
    /\ Apply(RecordContent[k])
    /\ record' = [record EXCEPT ![k] = "committed"]
    /\ UNCHANGED <<up, post, replay, failures>>

\* A retryable failure escapes the callback and the record is redelivered.
AfterHandlerError(k) == IF RecordContent[k].kind = "too_large" THEN "committed" ELSE "new"

FailRecord(k) ==
    /\ record[k] = "handling"
    /\ \/ RecordContent[k].kind = "too_large" /\ UNCHANGED failures
       \/ RecordContent[k].kind # "too_large" /\ Fail
    /\ record' = [record EXCEPT ![k] = AfterHandlerError(k)]
    /\ UNCHANGED <<up, post, replay, events, conflicts, results, status>>

IngressNext ==
    \/ ExpireReplay \/ RestartAdapters
    \/ \E p \in Posts : TakePost(p) \/ FinishPost(p) \/ FailPost(p) \/ RetryPost(p)
    \/ \E k \in KafkaRecords : TakeRecord(k) \/ Normalise(k) \/ FinishRecord(k) \/ FailRecord(k)

IngressSpec == IngressInit /\ [][IngressNext]_ingressVars

-----------------------------------------------------------------------------
(* Properties. *)

\* A callback is answered as processed or duplicate only when its body is
\* durably recorded: concurrent copies, a copy that fails while another is in
\* flight, eviction, expiry and a restart never lose what the worker will not
\* send again (handleCallback and its replay cache).
CallbackAckIsDurable ==
    \A p \in Posts : post[p] \in {"processed", "duplicate"} => Recorded(Body(p))

\* Committing the offset of a canonical record means it is recorded
\* (handleKafkaMessage rethrows what is retryable).
CanonicalRecordIsDurable ==
    \A k \in KafkaRecords :
        record[k] = "committed" /\ RecordContent[k].kind \in {"event", "result"}
            => Recorded(RecordContent[k])

\* The same of a legacy result, which is a result like any other: only schema
\* failures are acknowledged unrecorded (the comment in handleKafkaMessage).
LegacyRecordIsDurable ==
    \A k \in KafkaRecords :
        record[k] = "committed" /\ RecordContent[k].kind = "legacy"
            => Recorded(RecordContent[k])

\* Evidence that arrives after the terminal result never reopens the attempt,
\* and no event terminalises one (projectLiveness).
EventsNeverDecide ==
    [][status' # status =>
         \/ status = "DISPATCHED" /\ status' = "RUNNING"
         \/ status' = "SUCCESS" /\ results' # results]_ingressVars

\* One row per event id and per sequence, first one wins, whatever order the
\* two transports deliver in (the identity and sequence checks of apply).
EvidenceIsUnambiguous ==
    /\ \A e, f \in events : e # f => e.id # f.id /\ e.seq # f.seq
    /\ \A c \in conflicts : \E e \in events : e.id = c.id \/ e.seq = c.seq

=============================================================================
