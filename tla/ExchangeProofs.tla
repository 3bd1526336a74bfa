---------------------------- MODULE ExchangeProofs ----------------------------
(***************************************************************************)
(* Work on its way to an agent and back, for every number of deliveries,   *)
(* records, redeployments, crashes and failures: what is acknowledged is   *)
(* recorded, what is delivered goes where its claim froze it, and what is  *)
(* committed was answered.  Each component has its inductive invariant;    *)
(* the exchange as a whole implements each component, so what is proved    *)
(* of one, the loop included, holds of the whole.                          *)
(***************************************************************************)
EXTENDS MCExchange, CoordinationProofs

-----------------------------------------------------------------------------
(***************************************************************************)
(* Callbacks and records (Ingress)                                         *)
(***************************************************************************)

\* The replay cache as a map: one entry per delivery, and what it calls
\* completed is among the bodies in durable.
CacheOK(q, durable) ==
  /\ q \in Seq(ReplayEntries)
  /\ \A j, k \in DOMAIN q : q[j].key = q[k].key => j = k
  /\ \A k \in DOMAIN q : q[k].state = "completed" => ContentOf[q[k].key] \in durable

Durable == events \cup conflicts \cup results

\* Where a Kafka record is tells what it can be, and only a legacy result is
\* ever looked up.
RecordStages ==
  \A k \in KafkaRecords : record[k] = "looking" => RecordContent[k].kind = "legacy"

IngressInv ==
  /\ IngressTypeOK
  /\ CacheOK(replay, Durable)
  /\ RecordStages
  /\ CallbackAckIsDurable /\ CanonicalRecordIsDurable /\ EvidenceIsUnambiguous
  /\ results # {} => status = "SUCCESS"

\* An entry taken from the front leaves a sound cache.
LEMMA CacheTail ==
  ASSUME NEW q, NEW durable, CacheOK(q, durable), q # << >>
  PROVE  CacheOK(Tail(q), durable)
PROOF
  <1>1. /\ Tail(q) \in Seq(ReplayEntries) /\ Len(Tail(q)) = Len(q) - 1
        /\ \A k \in 1 .. Len(Tail(q)) : Tail(q)[k] = q[k + 1]
    BY DEF CacheOK
  <1>2. DOMAIN Tail(q) = 1 .. Len(Tail(q)) /\ DOMAIN q = 1 .. Len(q) /\ Len(q) \in Nat
    BY <1>1 DEF CacheOK
  <1> QED
    BY <1>1, <1>2 DEF CacheOK

\* A new delivery is appended to a sound cache.
LEMMA CacheAppend ==
  ASSUME NEW q, NEW durable, CacheOK(q, durable), NEW e \in ReplayEntries,
         \A k \in DOMAIN q : q[k].key # e.key,
         e.state = "completed" => ContentOf[e.key] \in durable
  PROVE  CacheOK(Append(q, e), durable)
PROOF
  <1>1. /\ Append(q, e) \in Seq(ReplayEntries) /\ Len(Append(q, e)) = Len(q) + 1
        /\ \A k \in 1 .. Len(q) : Append(q, e)[k] = q[k]
        /\ Append(q, e)[Len(q) + 1] = e
    BY DEF CacheOK
  <1>2. DOMAIN Append(q, e) = 1 .. Len(q) + 1 /\ DOMAIN q = 1 .. Len(q) /\ Len(q) \in Nat
    BY <1>1 DEF CacheOK
  <1> QED
    BY <1>1, <1>2 DEF CacheOK

\* What is left of a sequence when one place is removed.
LEMMA RemoveAtProperties ==
  ASSUME NEW S, NEW q \in Seq(S), NEW i \in 1 .. Len(q)
  PROVE  /\ RemoveAt(q, i) \in Seq(S)
         /\ Len(RemoveAt(q, i)) = Len(q) - 1
         /\ \A k \in 1 .. Len(q) - 1 : RemoveAt(q, i)[k] = IF k < i THEN q[k] ELSE q[k + 1]
PROOF
  <1> DEFINE front == SubSeq(q, 1, i - 1)
             rest == SubSeq(q, i + 1, Len(q))
  <1> HIDE DEF front, rest
  <1>1. /\ Len(q) \in Nat /\ i \in Int /\ i - 1 \in Int /\ i + 1 \in Int /\ 1 \in Int /\ Len(q) \in Int
        /\ \A k \in 1 .. Len(q) : q[k] \in S
    OBVIOUS
  <1>2. \A k \in 1 .. i - 1 : q[k] \in S
    BY <1>1
  <1>3. \A k \in i + 1 .. Len(q) : q[k] \in S
    BY <1>1
  <1>4. /\ front \in Seq(S)
        /\ Len(front) = IF 1 <= i - 1 THEN (i - 1) - 1 + 1 ELSE 0
        /\ \A k \in 1 .. (i - 1) - 1 + 1 : front[k] = q[1 + k - 1]
    BY <1>1, <1>2, SubSeqProperties DEF front
  <1>5. /\ rest \in Seq(S)
        /\ Len(rest) = IF i + 1 <= Len(q) THEN Len(q) - (i + 1) + 1 ELSE 0
        /\ \A k \in 1 .. Len(q) - (i + 1) + 1 : rest[k] = q[(i + 1) + k - 1]
    BY <1>1, <1>3, SubSeqProperties DEF rest
  <1>6. Len(front) = i - 1 /\ Len(rest) = Len(q) - i
    BY <1>1, <1>4, <1>5
  <1>7. /\ front \o rest \in Seq(S)
        /\ Len(front \o rest) = Len(front) + Len(rest)
        /\ \A k \in 1 .. Len(front) + Len(rest) :
             (front \o rest)[k] = IF k <= Len(front) THEN front[k] ELSE rest[k - Len(front)]
    BY <1>4, <1>5, ConcatProperties, Zenon
  <1>8. RemoveAt(q, i) = front \o rest
    BY DEF RemoveAt, front, rest
  <1>9. \A k \in 1 .. Len(q) - 1 :
          (front \o rest)[k] = IF k < i THEN q[k] ELSE q[k + 1]
    <2> SUFFICES ASSUME NEW k \in 1 .. Len(q) - 1
                 PROVE  (front \o rest)[k] = IF k < i THEN q[k] ELSE q[k + 1]
      OBVIOUS
    <2>1. (front \o rest)[k] = IF k <= i - 1 THEN front[k] ELSE rest[k - (i - 1)]
      BY <1>1, <1>6, <1>7
    <2>2. k <= i - 1 => front[k] = q[k]
      BY <1>1, <1>4
    <2>3. ~(k <= i - 1) => k - (i - 1) \in 1 .. Len(q) - (i + 1) + 1
                           /\ (i + 1) + (k - (i - 1)) - 1 = k + 1
      BY <1>1
    <2>4. ~(k <= i - 1) => rest[k - (i - 1)] = q[k + 1]
      BY <1>5, <2>3
    <2> QED
      BY <1>1, <2>1, <2>2, <2>4
  <1>10. Len(front \o rest) = Len(q) - 1
    BY <1>1, <1>6, <1>7
  <1> QED
    BY <1>7, <1>8, <1>9, <1>10, Zenon

\* Map.delete leaves a sound cache.
LEMMA CacheWithout ==
  ASSUME NEW q, NEW durable, CacheOK(q, durable), NEW key
  PROVE  CacheOK(Without(q, key), durable)
PROOF
  <1>1. CASE ~ \E k \in DOMAIN q : q[k].key = key
    BY <1>1 DEF Without
  <1>2. CASE \E k \in DOMAIN q : q[k].key = key
    <2> DEFINE i == CHOOSE k \in DOMAIN q : q[k].key = key
    <2>1. i \in DOMAIN q
      BY <1>2
    <2>2. q \in Seq(ReplayEntries) /\ DOMAIN q = 1 .. Len(q) /\ Len(q) \in Nat
      BY DEF CacheOK
    <2>3. i \in 1 .. Len(q)
      BY <2>1, <2>2
    <2>4. Without(q, key) = RemoveAt(q, i)
      BY <1>2 DEF Without
    <2> HIDE DEF i
    <2>5. /\ RemoveAt(q, i) \in Seq(ReplayEntries)
          /\ Len(RemoveAt(q, i)) = Len(q) - 1
          /\ \A k \in 1 .. Len(q) - 1 : RemoveAt(q, i)[k] = IF k < i THEN q[k] ELSE q[k + 1]
      BY <2>2, <2>3, RemoveAtProperties, Zenon
    <2> DEFINE w == RemoveAt(q, i)
    <2>6. w \in Seq(ReplayEntries) /\ DOMAIN w = 1 .. Len(q) - 1
      BY <2>5
    <2>7. \A k \in 1 .. Len(q) - 1 : w[k] = IF k < i THEN q[k] ELSE q[k + 1]
      BY <2>5
    <2> HIDE DEF w
    <2>8. \A k \in DOMAIN w : \E j \in DOMAIN q : w[k] = q[j] /\ j = (IF k < i THEN k ELSE k + 1)
      BY <2>2, <2>3, <2>6, <2>7
    <2>9. \A j, k \in DOMAIN w : w[j].key = w[k].key => j = k
      BY <2>2, <2>3, <2>6, <2>8 DEF CacheOK
    <2>10. \A k \in DOMAIN w : w[k].state = "completed" => ContentOf[w[k].key] \in durable
      BY <2>8 DEF CacheOK
    <2>11. CacheOK(w, durable)
      BY <2>6, <2>9, <2>10 DEF CacheOK
    <2> QED
      BY <2>4, <2>11 DEF w
  <1> QED
    BY <1>1, <1>2

\* An entry that is there changes its state in place.
LEMMA CacheMark ==
  ASSUME NEW q, NEW durable, CacheOK(q, durable), NEW key \in Range(DeliveryOf),
         ContentOf[key] \in durable
  PROVE  CacheOK([k \in DOMAIN q |-> IF q[k].key = key THEN Entry(key, "completed") ELSE q[k]], durable)
PROOF
  <1> DEFINE m == [k \in DOMAIN q |-> IF q[k].key = key THEN Entry(key, "completed") ELSE q[k]]
  <1>1. q \in Seq(ReplayEntries) /\ DOMAIN q = 1 .. Len(q) /\ Len(q) \in Nat
    BY DEF CacheOK
  <1>2. Entry(key, "completed") \in ReplayEntries
    BY DEF Entry, ReplayEntries
  <1>3. \A k \in DOMAIN q : q[k] \in ReplayEntries
    BY <1>1
  <1>4. m \in [1 .. Len(q) -> ReplayEntries]
    BY <1>1, <1>2, <1>3
  <1>5. m \in Seq(ReplayEntries) /\ DOMAIN m = DOMAIN q
    BY <1>1, <1>4
  <1>6. \A k \in DOMAIN q : m[k].key = q[k].key
    BY <1>1 DEF Entry
  <1>7. \A k \in DOMAIN q : m[k].state = "completed" => ContentOf[q[k].key] \in durable
    BY <1>1 DEF Entry, CacheOK
  <1> HIDE DEF m
  <1>8. CacheOK(m, durable)
    BY <1>5, <1>6, <1>7 DEF CacheOK
  <1> QED
    BY <1>8 DEF m

\* What is recorded stays recorded, so a sound cache stays sound.
LEMMA CacheGrows ==
  ASSUME NEW q, NEW durable, NEW more, CacheOK(q, durable), durable \subseteq more
  PROVE  CacheOK(q, more)
PROOF
  BY DEF CacheOK

\* Requests carry bodies of signed deliveries, records bodies of their topics.
LEMMA BodiesAreKnown ==
  /\ \A p \in Posts : DeliveryOf[p] \in Range(DeliveryOf) /\ Body(p) \in Bodies
  /\ \A k \in KafkaRecords : RecordContent[k] \in Bodies
PROOF
  BY IngressAssumption DEF Body, Bodies, Range

\* What one transaction of the event service or the inbox does to evidence,
\* results and status.
Transaction(b) ==
  /\ b \in Durable' /\ Durable \subseteq Durable'
  /\ events' \subseteq Bodies /\ conflicts' \subseteq Bodies /\ results' \subseteq Bodies
  /\ status' \in {"DISPATCHED", "RUNNING", "SUCCESS"}
  /\ EvidenceIsUnambiguous'
  /\ results' # {} => status' = "SUCCESS"
  /\ status' # status =>
       \/ status = "DISPATCHED" /\ status' = "RUNNING"
       \/ status' = "SUCCESS" /\ results' # results

\* apply() of an event, and the acceptance of a result.
LEMMA ApplyIsTransaction ==
  ASSUME IngressInv, NEW b \in Bodies, Apply(b)
  PROVE  Transaction(b)
PROOF
  <1>1. CASE b.kind = "event" /\ b \in events
    BY <1>1 DEF Apply, ApplyEvent, Transaction, IngressInv, IngressTypeOK, Durable, EvidenceIsUnambiguous
  <1>2. CASE b.kind = "event" /\ b \notin events /\ Conflicting(b)
    BY <1>2 DEF Apply, ApplyEvent, Transaction, IngressInv, IngressTypeOK, Durable,
       EvidenceIsUnambiguous, Conflicting
  <1>3. CASE b.kind = "event" /\ b \notin events /\ ~Conflicting(b)
    <2>1. events' = events \cup {b} /\ status' = Projected(b) /\ UNCHANGED <<conflicts, results>>
      BY <1>3 DEF Apply, ApplyEvent
    <2>2. EvidenceIsUnambiguous'
      BY <1>3, <2>1 DEF IngressInv, EvidenceIsUnambiguous, Conflicting
    <2> QED
      BY <2>1, <2>2 DEF Transaction, IngressInv, IngressTypeOK, Durable, Projected
  <1>4. CASE b.kind # "event"
    BY <1>4 DEF Apply, ApplyResult, Transaction, IngressInv, IngressTypeOK, Durable, EvidenceIsUnambiguous
  <1> QED
    BY <1>1, <1>2, <1>3, <1>4

\* Nothing is recorded before the first request.
LEMMA IngressInitially == IngressInit => IngressInv
PROOF
  BY IngressAssumption DEF IngressInit, IngressInv, IngressTypeOK, CacheOK, Durable, RecordStages, CallbackAckIsDurable,
     CanonicalRecordIsDurable, EvidenceIsUnambiguous

\* A request that the handler has not seen changes the cache and its own
\* answer only; it is called a duplicate when a completed entry says so.
LEMMA TakePostKeeps ==
  ASSUME IngressInv, NEW p \in Posts, TakePost(p)
  PROVE  IngressInv'
PROOF
  <1> DEFINE key == DeliveryOf[p]
  <1>1. key \in Range(DeliveryOf) /\ replay \in Seq(ReplayEntries) /\ CacheOK(replay, Durable)
    BY BodiesAreKnown DEF IngressInv, CacheOK
  <1>2. UNCHANGED <<up, record, events, conflicts, results, status, failures>>
    BY DEF TakePost
  <1>3. ASSUME ~Known(key, "completed"), ~Known(key, "in-flight")
        PROVE  CacheOK(Reserve(key), Durable)
    <2> DEFINE q == IF Len(replay) >= ReplayMax THEN Tail(replay) ELSE replay
    <2>1. \A k \in DOMAIN replay : replay[k].key # key
      <3> SUFFICES ASSUME NEW k \in DOMAIN replay, replay[k].key = key
                   PROVE  FALSE
        OBVIOUS
      <3>1. replay[k] \in ReplayEntries
        BY <1>1
      <3> QED
        BY <1>3, <3>1 DEF Known, Entry, ReplayEntries
    <2>2. Len(replay) >= ReplayMax => replay # << >>
      BY IngressAssumption
    <2>3. CacheOK(q, Durable)
      BY <1>1, <2>2, CacheTail
    <2>4. \A k \in DOMAIN q : q[k].key # key
      <3>1. CASE Len(replay) >= ReplayMax
        <4>1. /\ Tail(replay) \in Seq(ReplayEntries) /\ Len(Tail(replay)) = Len(replay) - 1
              /\ \A k \in 1 .. Len(Tail(replay)) : Tail(replay)[k] = replay[k + 1]
          BY <1>1, <2>2, <3>1
        <4>2. /\ DOMAIN Tail(replay) = 1 .. Len(Tail(replay))
              /\ DOMAIN replay = 1 .. Len(replay) /\ Len(replay) \in Nat
          BY <1>1, <4>1
        <4>3. \A k \in DOMAIN Tail(replay) : Tail(replay)[k].key # key
          BY <2>1, <4>1, <4>2
        <4> QED
          BY <3>1, <4>3
      <3>2. CASE ~(Len(replay) >= ReplayMax)
        BY <2>1, <3>2
      <3> QED
        BY <3>1, <3>2
    <2>5. Entry(key, "in-flight") \in ReplayEntries /\ Entry(key, "in-flight").key = key
          /\ Entry(key, "in-flight").state # "completed"
      BY <1>1 DEF Entry, ReplayEntries
    <2> HIDE DEF q
    <2>6. CacheOK(Append(q, Entry(key, "in-flight")), Durable)
      BY <2>3, <2>4, <2>5, CacheAppend
    <2> QED
      BY <2>6 DEF Reserve, q
  <1>4. CacheOK(replay', Durable)
    <2>1. CASE replay' = replay
      BY <1>1, <2>1
    <2> DEFINE q == IF Known(key, "in-flight") THEN replay ELSE Reserve(key)
    <2>2. ~AnsweredBefore(key) => CacheOK(q, Durable)
      BY <1>1, <1>3 DEF AnsweredBefore
    <2>3. \/ replay' = replay
          \/ ~AnsweredBefore(key) /\ replay' = q
          \/ ~AnsweredBefore(key) /\ replay' = Without(q, key)
      BY DEF TakePost
    <2> HIDE DEF q
    <2> QED
      BY <1>1, <2>2, <2>3, CacheWithout
  <1>5. post' \in [Posts -> {"new", "handling", "processed", "duplicate", "retry", "rejected"}]
    BY DEF TakePost, IngressInv, IngressTypeOK
  <1>6. CallbackAckIsDurable'
    <2> SUFFICES ASSUME NEW x \in Posts, post'[x] \in {"processed", "duplicate"}
                 PROVE  Recorded(Body(x))'
      BY DEF CallbackAckIsDurable
    <2>1. \/ post'[x] = post[x]
          \/ x = p /\ AnsweredBefore(key)
      BY DEF TakePost, IngressInv, IngressTypeOK
    <2>2. CASE post'[x] = post[x]
      BY <1>2, <2>2 DEF IngressInv, CallbackAckIsDurable, Recorded, Body
    <2>3. CASE x = p /\ AnsweredBefore(key)
      <3>1. PICK k \in DOMAIN replay : replay[k] = Entry(key, "completed")
        BY <2>3 DEF AnsweredBefore, Known
      <3>2. ContentOf[key] \in Durable
        BY <1>1, <3>1 DEF CacheOK, Entry
      <3> QED
        BY <1>2, <2>3, <3>2 DEF Recorded, Body, Durable
    <2> QED
      BY <2>1, <2>2, <2>3
  <1> QED
    BY <1>2, <1>4, <1>5, <1>6 DEF IngressInv, IngressTypeOK, CacheOK, Durable, RecordStages, CanonicalRecordIsDurable,
       EvidenceIsUnambiguous, Recorded

\* A handler that committed has its body recorded before anyone is told.
LEMMA FinishPostKeeps ==
  ASSUME IngressInv, NEW p \in Posts, FinishPost(p)
  PROVE  IngressInv' /\ Transaction(Body(p))
PROOF
  <1> DEFINE key == DeliveryOf[p]
  <1>1. key \in Range(DeliveryOf) /\ Body(p) \in Bodies /\ Body(p) = ContentOf[key]
    BY BodiesAreKnown DEF Body
  <1>2. Transaction(Body(p)) /\ UNCHANGED <<up, record, failures>>
    BY <1>1, ApplyIsTransaction DEF FinishPost
  <1>3. CacheOK(replay, Durable')
    BY <1>2, CacheGrows DEF IngressInv, Transaction
  <1>4. ContentOf[key] \in Durable'
    BY <1>1, <1>2 DEF Transaction
  <1>5. CacheOK(Put(key), Durable')
    <2>1. CASE \E k \in DOMAIN replay : replay[k].key = key
      BY <1>1, <1>3, <1>4, <2>1, CacheMark DEF Put
    <2>2. CASE ~ \E k \in DOMAIN replay : replay[k].key = key
      <3>1. Entry(key, "completed") \in ReplayEntries /\ Entry(key, "completed").key = key
        BY <1>1 DEF Entry, ReplayEntries
      <3>2. CacheOK(Append(replay, Entry(key, "completed")), Durable')
        BY <1>3, <1>4, <2>2, <3>1, CacheAppend
      <3> QED
        BY <2>2, <3>2 DEF Put
    <2> QED
      BY <2>1, <2>2
  <1>6. CacheOK(replay', Durable')
    BY <1>5 DEF FinishPost
  <1>7. post' \in [Posts -> {"new", "handling", "processed", "duplicate", "retry", "rejected"}]
    BY DEF FinishPost, IngressInv, IngressTypeOK
  <1>8. CallbackAckIsDurable'
    <2> SUFFICES ASSUME NEW x \in Posts, post'[x] \in {"processed", "duplicate"}
                 PROVE  Body(x) \in Durable'
      BY DEF CallbackAckIsDurable, Recorded, Durable, Body
    <2>1. x = p \/ post'[x] = post[x]
      BY DEF FinishPost, IngressInv, IngressTypeOK
    <2> QED
      BY <1>2, <2>1 DEF Transaction, IngressInv, CallbackAckIsDurable, Recorded, Durable
  <1>9. RecordStages' /\ CanonicalRecordIsDurable'
    BY <1>2 DEF IngressInv, RecordStages, CanonicalRecordIsDurable, Recorded, Durable, Transaction
  <1> QED
    BY <1>2, <1>6, <1>7, <1>8, <1>9 DEF IngressInv, IngressTypeOK, CacheOK, Durable, Transaction

\* What neither transport records changes requests and the cache only.
LEMMA FailPostKeeps ==
  ASSUME IngressInv, NEW p \in Posts, FailPost(p) \/ RetryPost(p)
  PROVE  IngressInv'
PROOF
  <1>1. UNCHANGED <<up, record, events, conflicts, results, status>>
    BY DEF FailPost, RetryPost
  <1>2. /\ post' \in [Posts -> {"new", "handling", "processed", "duplicate", "retry", "rejected"}]
        /\ \A x \in Posts : post'[x] \in {"processed", "duplicate"} => post'[x] = post[x]
    BY DEF FailPost, RetryPost, IngressInv, IngressTypeOK
  <1>3. CacheOK(replay', Durable)
    BY CacheWithout DEF FailPost, RetryPost, IngressInv
  <1>4. failures' \in 0 .. FailLimit
    BY IngressAssumption DEF FailPost, RetryPost, Fail, IngressInv, IngressTypeOK
  <1>5. CallbackAckIsDurable'
    BY <1>1, <1>2 DEF IngressInv, CallbackAckIsDurable, Recorded, Body
  <1> QED
    BY <1>1, <1>2, <1>3, <1>4, <1>5 DEF IngressInv, IngressTypeOK, CacheOK, Durable, RecordStages,
       CanonicalRecordIsDurable, EvidenceIsUnambiguous, Recorded

\* Expiry, eviction by restart: the cache forgets, nothing else does.
LEMMA ForgettingKeeps ==
  ASSUME IngressInv, ExpireReplay \/ RestartAdapters
  PROVE  IngressInv'
PROOF
  <1>1. UNCHANGED <<events, conflicts, results, status, failures>>
    BY DEF ExpireReplay, RestartAdapters
  <1>2. /\ up' \in BOOLEAN
        /\ post' \in [Posts -> {"new", "handling", "processed", "duplicate", "retry", "rejected"}]
        /\ \A x \in Posts : post'[x] \in {"processed", "duplicate"} => post'[x] = post[x]
    BY DEF ExpireReplay, RestartAdapters, IngressInv, IngressTypeOK
  <1>3. /\ record' \in [KafkaRecords -> {"new", "looking", "handling", "committed"}]
        /\ \A k \in KafkaRecords : record'[k] # "new" => record'[k] = record[k]
    BY DEF ExpireReplay, RestartAdapters, IngressInv, IngressTypeOK
  <1>4. CacheOK(replay', Durable)
    <2>1. CacheOK(<< >>, Durable)
      BY DEF CacheOK
    <2> QED
      BY <2>1, CacheTail DEF ExpireReplay, RestartAdapters, IngressInv
  <1>5. CallbackAckIsDurable' /\ CanonicalRecordIsDurable' /\ RecordStages'
    BY <1>1, <1>2, <1>3 DEF IngressInv, CallbackAckIsDurable, CanonicalRecordIsDurable, RecordStages, Recorded, Body
  <1> QED
    BY <1>1, <1>2, <1>3, <1>4, <1>5 DEF IngressInv, IngressTypeOK, CacheOK, Durable, EvidenceIsUnambiguous

\* A record's offset is committed with its body recorded, or for poison.
LEMMA RecordKeeps ==
  ASSUME IngressInv, NEW k \in KafkaRecords, TakeRecord(k) \/ Normalise(k) \/ FailRecord(k)
  PROVE  IngressInv'
PROOF
  <1>1. UNCHANGED <<up, post, replay, events, conflicts, results, status>>
    BY DEF TakeRecord, Normalise, FailRecord
  <1>2. /\ record' \in [KafkaRecords -> {"new", "looking", "handling", "committed"}]
        /\ \A x \in KafkaRecords \ {k} : record'[x] = record[x]
    BY DEF TakeRecord, Normalise, FailRecord, AfterHandlerError, IngressInv, IngressTypeOK
  <1>3. /\ record'[k] = "looking" => RecordContent[k].kind = "legacy"
        /\ record'[k] = "committed" => RecordContent[k].kind \notin {"event", "result"}
    BY DEF TakeRecord, Normalise, FailRecord, AfterHandlerError, IngressInv, IngressTypeOK, RecordStages
  <1>4. failures' \in 0 .. FailLimit
    BY IngressAssumption DEF TakeRecord, Normalise, FailRecord, Fail, IngressInv, IngressTypeOK
  <1>5. RecordStages' /\ CanonicalRecordIsDurable'
    BY <1>1, <1>2, <1>3 DEF IngressInv, RecordStages, CanonicalRecordIsDurable, Recorded
  <1> QED
    BY <1>1, <1>2, <1>4, <1>5 DEF IngressInv, IngressTypeOK, CacheOK, Durable, CallbackAckIsDurable,
       EvidenceIsUnambiguous, Recorded, Body

LEMMA FinishRecordKeeps ==
  ASSUME IngressInv, NEW k \in KafkaRecords, FinishRecord(k)
  PROVE  IngressInv' /\ Transaction(RecordContent[k])
PROOF
  <1>1. Transaction(RecordContent[k]) /\ UNCHANGED <<up, post, replay, failures>>
    BY BodiesAreKnown, ApplyIsTransaction DEF FinishRecord
  <1>2. /\ record' \in [KafkaRecords -> {"new", "looking", "handling", "committed"}]
        /\ \A x \in KafkaRecords \ {k} : record'[x] = record[x]
        /\ record'[k] = "committed"
    BY DEF FinishRecord, IngressInv, IngressTypeOK
  <1>3. CacheOK(replay', Durable')
    BY <1>1, CacheGrows DEF IngressInv, Transaction
  <1>4. RecordStages' /\ CanonicalRecordIsDurable' /\ CallbackAckIsDurable'
    BY <1>1, <1>2 DEF IngressInv, RecordStages, CanonicalRecordIsDurable, CallbackAckIsDurable, Recorded, Body,
       Transaction, Durable
  <1> QED
    BY <1>1, <1>2, <1>3, <1>4 DEF IngressInv, IngressTypeOK, Transaction

\* Every step of the ingress keeps the invariant, and decides as it may.
LEMMA IngressStep ==
  ASSUME IngressInv, [IngressNext]_ingressVars
  PROVE  /\ IngressInv'
         /\ status' # status =>
              \/ status = "DISPATCHED" /\ status' = "RUNNING"
              \/ status' = "SUCCESS" /\ results' # results
PROOF
  <1>1. CASE ExpireReplay \/ RestartAdapters
    BY <1>1, ForgettingKeeps DEF ExpireReplay, RestartAdapters
  <1>2. ASSUME NEW p \in Posts, TakePost(p) \/ FinishPost(p) \/ FailPost(p) \/ RetryPost(p)
        PROVE  /\ IngressInv'
               /\ status' # status =>
                    \/ status = "DISPATCHED" /\ status' = "RUNNING"
                    \/ status' = "SUCCESS" /\ results' # results
    <2>1. CASE TakePost(p)
      BY <2>1, TakePostKeeps DEF TakePost
    <2>2. CASE FinishPost(p)
      BY <2>2, FinishPostKeeps DEF Transaction
    <2>3. CASE FailPost(p) \/ RetryPost(p)
      BY <2>3, FailPostKeeps DEF FailPost, RetryPost
    <2> QED
      BY <1>2, <2>1, <2>2, <2>3
  <1>3. ASSUME NEW k \in KafkaRecords, TakeRecord(k) \/ Normalise(k) \/ FinishRecord(k) \/ FailRecord(k)
        PROVE  /\ IngressInv'
               /\ status' # status =>
                    \/ status = "DISPATCHED" /\ status' = "RUNNING"
                    \/ status' = "SUCCESS" /\ results' # results
    <2>1. CASE FinishRecord(k)
      BY <2>1, FinishRecordKeeps DEF Transaction
    <2>2. CASE TakeRecord(k) \/ Normalise(k) \/ FailRecord(k)
      BY <2>2, RecordKeeps DEF TakeRecord, Normalise, FailRecord
    <2> QED
      BY <1>3, <2>1, <2>2
  <1>4. CASE UNCHANGED ingressVars
    BY <1>4 DEF ingressVars, IngressInv, IngressTypeOK, CacheOK, Durable, RecordStages, CallbackAckIsDurable,
       CanonicalRecordIsDurable, EvidenceIsUnambiguous, Recorded, Body
  <1> QED
    BY <1>1, <1>2, <1>3, <1>4 DEF IngressNext

\* Two transports, concurrent copies, eviction, expiry and restarts: the
\* invariant of what is acknowledged and what is recorded.
THEOREM IngressInvariance == IngressSpec => []IngressInv
PROOF
  <1>1. IngressInv /\ [IngressNext]_ingressVars => IngressInv'
    BY IngressStep
  <1> QED
    BY <1>1, IngressInitially, PTL DEF IngressSpec

\* Evidence that arrives after the terminal result never reopens the attempt
\* (projectLiveness and the result inbox), for every set of deliveries.
THEOREM EventsNeverDecideHolds == IngressSpec => EventsNeverDecide
PROOF
  <1>1. IngressInv /\ [IngressNext]_ingressVars =>
          [status' # status =>
             \/ status = "DISPATCHED" /\ status' = "RUNNING"
             \/ status' = "SUCCESS" /\ results' # results]_ingressVars
    BY IngressStep
  <1> QED
    BY <1>1, IngressInvariance, PTL DEF IngressSpec, EventsNeverDecide

-----------------------------------------------------------------------------
(***************************************************************************)
(* Routes and deliveries (Routing)                                         *)
(***************************************************************************)

Readable(a) == ReadExecutorDescriptor(descriptor[a], AgentOf[a], env).ok

\* A delivery under way was readable when it was leased, and neither its
\* snapshot nor the environment can change before it ends; an attempt that is
\* not claimed has sent nothing.
RoutingInv ==
  /\ RoutingTypeOK
  /\ descriptor = [a \in Routed |-> descriptor[a]]
  /\ sent = [a \in Routed |-> sent[a]] /\ retryCause = [a \in Routed |-> retryCause[a]]
  /\ \A a \in Routed : sending[a] = "pinned" => row[a] = "LEASED" /\ Readable(a)
  /\ \A a \in Routed : row[a] = "none" => sent[a] = {}
  /\ DeliveredAsFrozen /\ OnlyTransientFailuresAreRetried /\ HttpOnlyBootsWithoutBroker

\* A version-1 snapshot that can be read pins exactly what it froze.
LEMMA PinsWhatWasFrozen ==
  ASSUME NEW d, NEW agent, NEW e, d.form = "v1", ReadExecutorDescriptor(d, agent, e).ok
  PROVE  ReadExecutorDescriptor(d, agent, e).pinned = [kind |-> d.kind, url |-> d.url, rev |-> d.rev]
PROOF
  <1>1. ~Unreadable(d) /\ d.form # "legacy"
    BY DEF Unreadable
  <1>2. CASE ParseExecutorDescriptor(d)
    BY <1>1, <1>2 DEF ReadExecutorDescriptor
  <1>3. CASE ~ParseExecutorDescriptor(d)
    BY <1>1, <1>3 DEF ReadExecutorDescriptor
  <1> QED
    BY <1>2, <1>3

\* Only the bridge without its credentials throws what nobody classified.
LEMMA UnclassifiedIsBridge ==
  ASSUME NEW d, NEW agent, NEW e, ~ReadExecutorDescriptor(d, agent, e).ok,
         ReadExecutorDescriptor(d, agent, e).error = "unclassified"
  PROVE  agent \in BridgeAgents
PROOF
  <1>1. ForAgent(agent, e).ok \/ agent \in BridgeAgents
    BY DEF ForAgent, KafkaRoute
  <1>2. CASE ForAgent(agent, e).ok
    BY <1>2 DEF ReadExecutorDescriptor
  <1> QED
    BY <1>1, <1>2

LEMMA RouteOrBridge ==
  ASSUME NEW agent, NEW e
  PROVE  ForAgent(agent, e).ok \/ agent \in BridgeAgents
PROOF
  BY DEF ForAgent, KafkaRoute

LEMMA RoutingInitially == RoutingInit => RoutingInv
PROOF
  BY RoutingAssumption DEF RoutingInit, RoutingInv, RoutingTypeOK, IdleSend, DeliveredAsFrozen,
     OnlyTransientFailuresAreRetried, HttpOnlyBootsWithoutBroker, Readable

\* A process comes up, is replaced, or the connection is revised.
LEMMA ProcessKeeps ==
  ASSUME RoutingInv, StartRouter \/ Redeploy \/ ReviseRuntime
  PROVE  RoutingInv'
PROOF
  <1>1. CASE StartRouter
    <2>1. UNCHANGED <<env, redeploys, descriptor, row, sending, sent, retryCause>>
      BY <1>1 DEF StartRouter
    <2>2. router' \in {"down", "started", "refused"} /\ kafkaLink' \in {"off", "idle", "connected"}
      BY <1>1 DEF StartRouter, RoutingInv, RoutingTypeOK
    <2>3. router' = "refused" => ~ParseAgentTransportConfiguration(env) \/ NeedsBroker(env)
      BY <1>1 DEF StartRouter
    <2>4. HttpOnlyBootsWithoutBroker'
      BY <2>1, <2>3 DEF HttpOnlyBootsWithoutBroker, NeedsBroker
    <2> QED
      BY <2>1, <2>2, <2>4 DEF RoutingInv, RoutingTypeOK, Readable, DeliveredAsFrozen, OnlyTransientFailuresAreRetried
  <1>2. CASE Redeploy
    BY <1>2, RoutingAssumption DEF Redeploy, RoutingInv, RoutingTypeOK, IdleSend, Readable, DeliveredAsFrozen,
       OnlyTransientFailuresAreRetried, HttpOnlyBootsWithoutBroker
  <1>3. CASE ReviseRuntime
    BY <1>3 DEF ReviseRuntime, RoutingInv, RoutingTypeOK, Readable, DeliveredAsFrozen,
       OnlyTransientFailuresAreRetried, HttpOnlyBootsWithoutBroker
  <1> QED
    BY <1>1, <1>2, <1>3

\* A claim freezes the descriptor of an attempt that has sent nothing.
LEMMA FreezeKeeps ==
  ASSUME RoutingInv, NEW a \in Routed, FreezeDescriptor(a)
  PROVE  RoutingInv'
PROOF
  <1>1. UNCHANGED <<env, router, kafkaLink, redeploys, sending, sent, retryCause>>
    BY DEF FreezeDescriptor
  <1>2. /\ \A x \in Routed \ {a} : descriptor'[x] = descriptor[x] /\ row'[x] = row[x]
        /\ descriptor'[a].form = "v1" /\ row[a] = "none" /\ row'[a] = "PENDING"
        /\ descriptor' = [x \in Routed |-> descriptor'[x]]
        /\ row' \in [Routed -> {"none", "PENDING", "LEASED", "COMPLETED", "FAILED"}]
    BY DEF FreezeDescriptor, RoutingInv, RoutingTypeOK, AttachLocalExecutorProfile, BuildExecutorDescriptor
  <1>3. sending[a] # "pinned" /\ sent[a] = {}
    BY <1>2 DEF RoutingInv
  <1>4. DeliveredAsFrozen'
    BY <1>1, <1>2, <1>3 DEF RoutingInv, DeliveredAsFrozen
  <1>5. \A x \in Routed : sending'[x] = "pinned" => row'[x] = "LEASED" /\ Readable(x)'
    BY <1>1, <1>2, <1>3 DEF RoutingInv, Readable
  <1> QED
    BY <1>1, <1>2, <1>3, <1>4, <1>5 DEF RoutingInv, RoutingTypeOK, OnlyTransientFailuresAreRetried,
       HttpOnlyBootsWithoutBroker

\* Common to leasing and invoking: one attempt's row, send and cause change.
LEMMA OneAttemptKeeps ==
  ASSUME RoutingInv, NEW a \in Routed,
         UNCHANGED <<env, router, kafkaLink, redeploys, descriptor>>,
         row[a] # "none",
         NEW rowNext \in {"PENDING", "LEASED", "COMPLETED", "FAILED"}, row' = [row EXCEPT ![a] = rowNext],
         NEW sendNext \in {"idle", "pinned"}, sending' = [sending EXCEPT ![a] = sendNext],
         sendNext = "pinned" => rowNext = "LEASED" /\ Readable(a),
         NEW cause, retryCause' = [retryCause EXCEPT ![a] = cause],
         cause = "unclassified" => AgentOf[a] \in BridgeAgents,
         NEW more, sent' = [sent EXCEPT ![a] = @ \cup more],
         descriptor[a].form = "v1" =>
           \A r \in more : r = [kind |-> descriptor[a].kind, url |-> descriptor[a].url, rev |-> descriptor[a].rev]
  PROVE  RoutingInv'
PROOF
  <1>1. /\ \A x \in Routed \ {a} : row'[x] = row[x] /\ sending'[x] = sending[x] /\ retryCause'[x] = retryCause[x]
                                   /\ sent'[x] = sent[x]
        /\ row'[a] = rowNext /\ sending'[a] = sendNext /\ retryCause'[a] = cause /\ sent'[a] = sent[a] \cup more
    BY DEF RoutingInv, RoutingTypeOK
  <1>2. RoutingTypeOK' /\ descriptor' = [x \in Routed |-> descriptor'[x]]
        /\ sent' = [x \in Routed |-> sent'[x]] /\ retryCause' = [x \in Routed |-> retryCause'[x]]
    BY DEF RoutingInv, RoutingTypeOK
  <1>3. DeliveredAsFrozen' /\ OnlyTransientFailuresAreRetried' /\ HttpOnlyBootsWithoutBroker'
    BY <1>1 DEF RoutingInv, DeliveredAsFrozen, OnlyTransientFailuresAreRetried, HttpOnlyBootsWithoutBroker
  <1>4. \A x \in Routed : sending'[x] = "pinned" => row'[x] = "LEASED" /\ Readable(x)'
    BY <1>1 DEF RoutingInv, Readable
  <1>5. \A x \in Routed : row'[x] = "none" => sent'[x] = {}
    BY <1>1 DEF RoutingInv
  <1> QED
    BY <1>2, <1>3, <1>4, <1>5 DEF RoutingInv

\* A failed send returns the row for a cause that may pass, or ends it.
LEMMA FailForKeeps ==
  ASSUME RoutingInv, NEW a \in Routed, NEW permanent \in BOOLEAN, NEW cause,
         FailFor(a, permanent, cause), row[a] # "none",
         UNCHANGED <<env, router, kafkaLink, redeploys, descriptor>>,
         ~permanent /\ cause = "unclassified" => AgentOf[a] \in BridgeAgents
  PROVE  RoutingInv'
PROOF
  <1> DEFINE rowNext == IF permanent THEN "FAILED" ELSE "PENDING"
             next == IF permanent THEN retryCause[a] ELSE cause
  <1>1. /\ row' = [row EXCEPT ![a] = rowNext] /\ rowNext \in {"PENDING", "LEASED", "COMPLETED", "FAILED"}
        /\ sending' = [sending EXCEPT ![a] = "idle"]
        /\ retryCause' = [retryCause EXCEPT ![a] = next]
        /\ sent' = [sent EXCEPT ![a] = @ \cup {}]
    BY DEF FailFor, IdleSend, RoutingInv
  <1>2. next = "unclassified" => AgentOf[a] \in BridgeAgents
    BY DEF RoutingInv, OnlyTransientFailuresAreRetried
  <1> HIDE DEF rowNext, next
  <1> QED
    BY <1>1, <1>2, OneAttemptKeeps

\* Leasing reads the snapshot; what cannot be read is not sent.
LEMMA PinKeeps ==
  ASSUME RoutingInv, NEW a \in Routed, PinInvocation(a)
  PROVE  RoutingInv'
PROOF
  <1> DEFINE read == ReadExecutorDescriptor(descriptor[a], AgentOf[a], env)
  <1>1. UNCHANGED <<env, router, kafkaLink, redeploys, descriptor>> /\ row[a] # "none"
    BY DEF PinInvocation
  <1>2. CASE ~read.ok
    <2>1. FailFor(a, read.error = "permanent", read.error)
      BY <1>2 DEF PinInvocation
    <2>2. read.error = "unclassified" => AgentOf[a] \in BridgeAgents
      BY <1>2, UnclassifiedIsBridge
    <2>3. (read.error = "permanent") \in BOOLEAN
      OBVIOUS
    <2> QED
      BY <1>1, <2>1, <2>2, <2>3, FailForKeeps
  <1>3. CASE read.ok /\ connRevoked /\ read.pinned.rev > 0
    <2>1. FailFor(a, TRUE, "revoked")
      BY <1>3 DEF PinInvocation
    <2> QED
      BY <1>1, <2>1, FailForKeeps
  <1>4. CASE read.ok /\ ~(connRevoked /\ read.pinned.rev > 0)
    <2>1. /\ row' = [row EXCEPT ![a] = "LEASED"] /\ sending' = [sending EXCEPT ![a] = "pinned"]
          /\ UNCHANGED <<sent, retryCause>>
      BY <1>4 DEF PinInvocation
    <2>2. /\ retryCause' = [retryCause EXCEPT ![a] = retryCause[a]]
          /\ sent' = [sent EXCEPT ![a] = @ \cup {}]
      BY <2>1 DEF RoutingInv
    <2>3. Readable(a) /\ (retryCause[a] = "unclassified" => AgentOf[a] \in BridgeAgents)
      BY <1>4 DEF Readable, RoutingInv, OnlyTransientFailuresAreRetried
    <2> QED
      BY <1>1, <2>1, <2>2, <2>3, OneAttemptKeeps
  <1> QED
    BY <1>2, <1>3, <1>4

\* An answer to a request: what reached an executor reached the pinned one.
LEMMA AnsweredKeeps ==
  ASSUME RoutingInv, NEW a \in Routed, NEW answer \in HttpAnswers, Answered(a, answer),
         sending[a] = "pinned",
         UNCHANGED <<env, router, kafkaLink, redeploys, descriptor>>
  PROVE  RoutingInv'
PROOF
  <1> DEFINE rowNext == CASE answer = "accepted" -> "COMPLETED"
                          [] answer \in {"busy", "silent"} -> "PENDING"
                          [] OTHER -> "FAILED"
             next == IF answer \in {"busy", "silent"} THEN "transient" ELSE retryCause[a]
             more == IF Reached(answer) THEN {Pinned(a)} ELSE {}
  <1>1. rowNext \in {"PENDING", "LEASED", "COMPLETED", "FAILED"}
    BY DEF HttpAnswers
  <1>2. /\ row' = [row EXCEPT ![a] = rowNext]
        /\ sending' = [sending EXCEPT ![a] = "idle"]
        /\ retryCause' = [retryCause EXCEPT ![a] = next]
    BY DEF Answered, IdleSend
  <1>3. sent' = [sent EXCEPT ![a] = @ \cup more]
    BY DEF Answered, RoutingInv
  <1>4. next = "unclassified" => AgentOf[a] \in BridgeAgents
    BY DEF RoutingInv, OnlyTransientFailuresAreRetried
  <1>5. row[a] # "none" /\ Readable(a)
    BY DEF RoutingInv
  <1>6. descriptor[a].form = "v1" =>
          \A r \in more : r = [kind |-> descriptor[a].kind, url |-> descriptor[a].url, rev |-> descriptor[a].rev]
    <2> SUFFICES ASSUME descriptor[a].form = "v1"
                 PROVE  Pinned(a) = [kind |-> descriptor[a].kind, url |-> descriptor[a].url, rev |-> descriptor[a].rev]
      OBVIOUS
    <2>1. ReadExecutorDescriptor(descriptor[a], AgentOf[a], env).ok
      BY <1>5 DEF Readable
    <2>2. ReadExecutorDescriptor(descriptor[a], AgentOf[a], env).pinned
            = [kind |-> descriptor[a].kind, url |-> descriptor[a].url, rev |-> descriptor[a].rev]
      BY <2>1, PinsWhatWasFrozen
    <2> QED
      BY <2>2 DEF Pinned
  <1> HIDE DEF rowNext, next, more
  <1> QED
    BY <1>1, <1>2, <1>3, <1>4, <1>5, <1>6, OneAttemptKeeps

\* The router delivers to the executor the snapshot chose.
LEMMA InvokeKeeps ==
  ASSUME RoutingInv, NEW a \in Routed, InvokePinned(a)
  PROVE  RoutingInv'
PROOF
  <1>1. sending[a] = "pinned" /\ UNCHANGED <<env, router, kafkaLink, redeploys, descriptor>>
    BY DEF InvokePinned
  <1>2. row[a] # "none"
    BY <1>1 DEF RoutingInv
  <1>3. PICK answer \in HttpAnswers :
          IF Pinned(a).kind = "http" THEN InvokeHttp(a, answer) ELSE InvokeKafka(a, answer)
    BY DEF InvokePinned
  <1>4. \/ Answered(a, answer)
        \/ FailFor(a, TRUE, "mismatch") \/ FailFor(a, TRUE, "idle")
        \/ FailFor(a, FALSE, "unclassified") /\ ~ForAgent(AgentOf[a], env).ok
    BY <1>3 DEF InvokeHttp, InvokeKafka, PublishKafka
  <1> QED
    BY <1>1, <1>2, <1>4, AnsweredKeeps, FailForKeeps, RouteOrBridge

\* Redeployments, redeliveries and answers of every kind: the invariant of
\* where work may have gone.
THEOREM RoutingInvariance == RoutingSpec => []RoutingInv
PROOF
  <1>1. RoutingInv /\ [RoutingNext]_routingVars => RoutingInv'
    <2> SUFFICES ASSUME RoutingInv, [RoutingNext]_routingVars
                 PROVE  RoutingInv'
      OBVIOUS
    <2>1. CASE UNCHANGED routingVars
      BY <2>1 DEF routingVars, RoutingInv, RoutingTypeOK, Readable, DeliveredAsFrozen,
         OnlyTransientFailuresAreRetried, HttpOnlyBootsWithoutBroker
    <2>2. CASE RoutingNext
      BY <2>2, ProcessKeeps, FreezeKeeps, PinKeeps, InvokeKeeps DEF RoutingNext
    <2> QED
      BY <2>1, <2>2
  <1> QED
    BY <1>1, RoutingInitially, PTL DEF RoutingSpec

-----------------------------------------------------------------------------
(***************************************************************************)
(* The sample agents (SampleAgents)                                        *)
(***************************************************************************)

\* A record is behind the agent when it was answered, dropped or given up.
Handled(t) == Normalized(t) /\ t.id \notin unsent => \E r \in answered : r.id = t.id

\* Every record up to the position is: an agent moves on only past those, and
\* a crash takes it back to what it committed.
SampleInv ==
  /\ position \in [SampleAgentNames -> Nat] /\ committed \in [SampleAgentNames -> Nat]
  /\ \A a \in SampleAgentNames :
       committed[a] <= position[a] /\ \A i \in 1 .. position[a] : Handled(Topic[a][i])

\* Answers and losses are only added, so a handled record stays handled.
LEMMA HandledStays ==
  ASSUME answered \subseteq answered', unsent \subseteq unsent', NEW t, Handled(t)
  PROVE  Handled(t)'
PROOF
  BY DEF Handled

\* Moving past one record that is answered, dropped or given up.
LEMMA DoneKeeps ==
  ASSUME SampleInv, NEW a \in SampleAgentNames, Done(a), UNCHANGED committed,
         answered \subseteq answered', unsent \subseteq unsent',
         Normalized(Task(a)) /\ Task(a).id \notin unsent' => \E r \in answered' : r.id = Task(a).id
  PROVE  SampleInv'
PROOF
  <1>1. /\ position' \in [SampleAgentNames -> Nat]
        /\ position'[a] = position[a] + 1 /\ \A x \in SampleAgentNames \ {a} : position'[x] = position[x]
        /\ position \in [SampleAgentNames -> Nat] /\ committed \in [SampleAgentNames -> Nat]
    BY DEF SampleInv, Done
  <1>2. ASSUME NEW x \in SampleAgentNames, NEW i \in 1 .. position'[x]
        PROVE  Handled(Topic[x][i])'
    <2>1. CASE i \in 1 .. position[x]
      BY <2>1, HandledStays DEF SampleInv
    <2>2. CASE i \notin 1 .. position[x]
      <3>1. x = a /\ i = position[a] + 1
        BY <1>1, <2>2
      <3> QED
        BY <3>1 DEF Handled, Task
    <2> QED
      BY <2>1, <2>2
  <1>3. \A x \in SampleAgentNames : committed'[x] <= position'[x]
    BY <1>1 DEF SampleInv
  <1> QED
    BY <1>1, <1>2, <1>3 DEF SampleInv

\* A step that moves no position keeps what is behind each agent.
LEMMA StayingKeeps ==
  ASSUME SampleInv, UNCHANGED <<position, committed>>,
         answered \subseteq answered', unsent \subseteq unsent'
  PROVE  SampleInv'
PROOF
  BY HandledStays DEF SampleInv

LEMMA SampleStep ==
  ASSUME SampleInv, NEW a \in SampleAgentNames,
         \/ ReceiveTask(a) \/ Prepare(a) \/ RunnerAnswers(a) \/ Publish(a)
         \/ PublishFails(a) \/ Commit(a) \/ AgentCrashesNow(a)
  PROVE  SampleInv'
PROOF
  <1>1. CASE ReceiveTask(a)
    <2>1. CASE Normalized(Task(a))
      BY <1>1, <2>1, StayingKeeps DEF ReceiveTask
    <2>2. CASE ~Normalized(Task(a))
      BY <1>1, <2>2, DoneKeeps DEF ReceiveTask, Dropped
    <2> QED
      BY <2>1, <2>2
  <1>2. CASE Prepare(a) \/ RunnerAnswers(a)
    BY <1>2, StayingKeeps DEF Prepare, RunnerAnswers
  <1>3. CASE Publish(a)
    <2> DEFINE result == [id |-> Task(a).id, status |-> doing[a].status, body |-> doing[a].body]
    <2>1. answered' = answered \cup {result} /\ Done(a) /\ UNCHANGED <<committed, unsent>>
      BY <1>3 DEF Publish
    <2>2. result.id = Task(a).id
      OBVIOUS
    <2> HIDE DEF result
    <2> QED
      BY <2>1, <2>2, DoneKeeps
  <1>4. CASE PublishFails(a)
    <2>1. answered \subseteq answered' /\ UNCHANGED committed
      BY <1>4 DEF PublishFails
    <2>2. CASE doing[a].at = "publishing"
      BY <1>4, <2>1, <2>2, StayingKeeps DEF PublishFails
    <2>3. CASE doing[a].at # "publishing"
      BY <1>4, <2>1, <2>3, DoneKeeps DEF PublishFails
    <2> QED
      BY <2>2, <2>3
  <1>5. CASE Commit(a)
    BY <1>5, HandledStays DEF Commit, SampleInv
  <1>6. CASE AgentCrashesNow(a)
    <2>1. /\ position' \in [SampleAgentNames -> Nat]
          /\ \A x \in SampleAgentNames : position'[x] <= position[x] /\ committed[x] <= position'[x]
          /\ UNCHANGED <<committed, answered, unsent>>
      BY <1>6 DEF AgentCrashesNow, SampleInv
    <2>2. \A x \in SampleAgentNames : \A i \in 1 .. position'[x] : i \in 1 .. position[x]
      BY <2>1 DEF SampleInv
    <2> QED
      BY <2>1, <2>2, HandledStays DEF SampleInv
  <1> QED
    BY <1>1, <1>2, <1>3, <1>4, <1>5, <1>6

\* Crashes, redelivered records and failed sends: nothing is committed that
\* was not handled.
THEOREM SampleInvariance == SampleSpec => []SampleInv
PROOF
  <1>1. SampleInit => SampleInv
    BY DEF SampleInit, SampleInv
  <1>2. SampleInv /\ [SampleNext]_sampleVars => SampleInv'
    <2> SUFFICES ASSUME SampleInv, [SampleNext]_sampleVars
                 PROVE  SampleInv'
      OBVIOUS
    <2>1. CASE SampleNext
      BY <2>1, SampleStep DEF SampleNext
    <2>2. CASE UNCHANGED sampleVars
      BY <2>2, StayingKeeps DEF sampleVars
    <2> QED
      BY <2>1, <2>2
  <1> QED
    BY <1>1, <1>2, PTL DEF SampleSpec

LEMMA SampleInvImplies == SampleInv => CommittedTaskIsAnswered
PROOF
  <1> SUFFICES ASSUME SampleInv, NEW a \in SampleAgentNames, NEW i \in 1 .. committed[a]
               PROVE  Handled(Topic[a][i])
    BY DEF CommittedTaskIsAnswered, Handled
  <1>1. i \in 1 .. position[a]
    BY DEF SampleInv
  <1> QED
    BY <1>1 DEF SampleInv

-----------------------------------------------------------------------------
(***************************************************************************)
(* The exchange                                                            *)
(***************************************************************************)

\* Every behaviour of the exchange is one of each component: a component out
\* of focus rests.
THEOREM ExchangeImplementsParts ==
  ExchangeSpec => CoordSpec /\ RoutingSpec /\ SampleSpec /\ IngressSpec
PROOF
  <1>1. ExchangeInit => CoordInit /\ RoutingInit /\ SampleInit /\ IngressInit
    BY DEF ExchangeInit
  <1>2. [ExchangeNext]_exchangeVars =>
          /\ [CoordNext]_coordVars /\ [RoutingNext]_routingVars
          /\ [SampleNext]_sampleVars /\ [IngressNext]_ingressVars
    <2> SUFFICES ASSUME [ExchangeNext]_exchangeVars
                 PROVE  /\ [CoordNext]_coordVars /\ [RoutingNext]_routingVars
                        /\ [SampleNext]_sampleVars /\ [IngressNext]_ingressVars
      OBVIOUS
    <2>1. CASE UNCHANGED exchangeVars
      BY <2>1 DEF exchangeVars
    <2>2. CASE ExchangeNext
      BY <2>2 DEF ExchangeNext, OthersRest, Frozen
    <2> QED
      BY <2>1, <2>2
  <1> QED
    BY <1>1, <1>2, PTL DEF ExchangeSpec, CoordSpec, RoutingSpec, SampleSpec, IngressSpec

\* Whatever is acknowledged is kept, and kept where it belongs: callbacks and
\* records, conflict evidence, deliveries, retries and committed tasks
\* (handleCallback, handleKafkaMessage, AgentAdapterRouter.invoke, the sample
\* agents' eachMessage), through every crash, copy and redeployment.
THEOREM DeliveriesAreKeptHolds == ExchangeSpec => []DeliveriesAreKept
PROOF
  <1>1. IngressInv => CallbackAckIsDurable /\ CanonicalRecordIsDurable /\ EvidenceIsUnambiguous
    BY DEF IngressInv
  <1>2. RoutingInv => DeliveredAsFrozen /\ OnlyTransientFailuresAreRetried /\ HttpOnlyBootsWithoutBroker
    BY DEF RoutingInv
  <1>3. IngressInv /\ RoutingInv /\ SampleInv => DeliveriesAreKept
    BY <1>1, <1>2, SampleInvImplies DEF DeliveriesAreKept
  <1> QED
    BY <1>3, ExchangeImplementsParts, IngressInvariance, RoutingInvariance, SampleInvariance, PTL

\* Loop, routes and ingress keep their types in the exchange, and the workers
\* bound to the run are counted once each and stay within the total.
THEOREM ExchangeTypeOKHolds == ExchangeSpec => []ExchangeTypeOK
PROOF
  <1>1. RoutingInv => RoutingTypeOK
    BY DEF RoutingInv
  <1>2. IngressInv => IngressTypeOK
    BY DEF IngressInv
  <1>3. CoordTypeOK /\ WorkersAreBounded /\ RoutingInv /\ IngressInv => ExchangeTypeOK
    BY <1>1, <1>2 DEF ExchangeTypeOK
  <1> QED
    BY <1>3, ExchangeImplementsParts, LoopTypeCorrect, WorkersAreBoundedHolds, RoutingInvariance, IngressInvariance, PTL

\* The loop keeps its order and its history in the exchange, whatever the
\* agents, routes and transports around it do.
THEOREM LoopInExchange == ExchangeSpec => []LoopIsOrderly /\ LoopHistoryStands
PROOF
  BY ExchangeImplementsParts, LoopIsOrderlyHolds, LoopHistoryStandsHolds, PTL
=============================================================================
