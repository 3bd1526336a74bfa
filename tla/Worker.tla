------------------------------- MODULE Worker -------------------------------
(***************************************************************************)
(* The worker SDK (packages/worker): the HTTP server that accepts agent    *)
(* runs, its in-memory idempotency store, the bounded run scheduler, the   *)
(* race of the agent's handler with the run timeout and the shutdown, the  *)
(* retried delivery of the terminal callback, and the shutdown with its    *)
(* grace period.  Node runs one callback at a time, so a step is the code  *)
(* between two awaits.                                                     *)
(***************************************************************************)
EXTENDS Naturals, Sequences, FiniteSets, SequencesExt

CONSTANTS
    RunRequests,         \* POST /v1/runs requests that reach the worker
    InvocationOf,        \* the invocation id each of them carries
    FingerprintOf,       \* and the fingerprint of its body
    Concurrency,         \* execution.concurrency
    MaxQueuedRuns,       \* execution.maxQueuedRuns
    MaxEntries,          \* idempotency.maxEntries
    MaxCallbackAttempts  \* callbackDelivery.maxAttempts

(* What parseWorkerConfig lets through. *)
ParsedWorkerConfig ==
    /\ Concurrency \in Nat \ {0} /\ MaxQueuedRuns \in Nat
    /\ MaxEntries \in Nat \ {0} /\ MaxCallbackAttempts \in Nat \ {0}

ASSUME WorkerAssumption ==
    /\ ParsedWorkerConfig
    /\ DOMAIN InvocationOf = RunRequests /\ DOMAIN FingerprintOf = RunRequests

WorkerInvocations == Range(InvocationOf)

VARIABLES
    wstate,          \* WorkerLifecycleState
    bound,           \* this.address is set: the server listens
    accepting,       \* RunScheduler.accepting
    aborted,         \* shutdownController and every controller are aborted
    http,            \* each request: "new", "reading" its body, or answered
    store,           \* the idempotency record of an invocation
    runq,            \* RunScheduler.queue
    drainScheduled,  \* a setImmediate of the scheduler is due
    run              \* the accepted run a request became

workerVars == <<wstate, bound, accepting, aborted, http, store, runq, drainScheduled, run>>

NoRecord == [state |-> "none"]
NoRun == [phase |-> "none", attempts |-> 0, tracked |-> FALSE]

RunStates == {"queued", "running", "callback_pending", "delivered", "callback_failed"}
Answers == {"rejected", "not_ready", "accepted", "duplicate", "conflict",
            "queue_full", "capacity_full", "dropped"}

\* A run whose promise (executeRun, cancelQueuedRun or its callback) is open.
LiveRun == {"queued", "running", "delivering", "notifying"}

WorkerTypeOK ==
    /\ wstate \in {"created", "starting", "running", "stopping", "stopped", "failed"}
    /\ bound \in BOOLEAN /\ accepting \in BOOLEAN /\ aborted \in BOOLEAN
    /\ drainScheduled \in BOOLEAN
    /\ http \in [RunRequests -> Answers \cup {"new", "reading"}]
    /\ store \in [WorkerInvocations ->
                    {NoRecord} \cup [by : RunRequests, state : RunStates, old : BOOLEAN]]
    /\ runq \in Seq(RunRequests)
    /\ run \in [RunRequests -> [phase : LiveRun \cup {"none", "ended"},
                                attempts : 0..MaxCallbackAttempts - 1, tracked : BOOLEAN]]

WorkerInit ==
    /\ wstate = "created" /\ bound = FALSE /\ accepting = TRUE /\ aborted = FALSE
    /\ drainScheduled = FALSE
    /\ http = [r \in RunRequests |-> "new"]
    /\ store = [i \in WorkerInvocations |-> NoRecord]
    /\ runq = << >>
    /\ run = [r \in RunRequests |-> NoRun]

-----------------------------------------------------------------------------
(* The idempotency store. *)

Records == {i \in WorkerInvocations : store[i] # NoRecord}

\* isExpiredTerminal: only a settled run is forgotten after the TTL.
IsExpiredTerminal(rec) ==
    /\ rec # NoRecord
    /\ rec.state \in {"delivered", "callback_failed"}
    /\ rec.old

\* lookup; a miss drops the expired record of the invocation.
Lookup(i, fingerprint) ==
    IF store[i] = NoRecord \/ IsExpiredTerminal(store[i]) THEN "miss"
    ELSE IF FingerprintOf[store[i].by] = fingerprint THEN "duplicate" ELSE "conflict"

\* What is left once create made room: at the limit it runs cleanup first.
Kept(i) ==
    LET others == Records \ {i}
    IN  IF Cardinality(others) < MaxEntries THEN others
        ELSE {j \in others : ~IsExpiredTerminal(store[j])}

CreateFits(i) == Cardinality(Kept(i)) < MaxEntries

\* create, then updateState(queued) in the same turn of the event loop.
Create(r) ==
    LET i == InvocationOf[r]
    IN  [j \in WorkerInvocations |->
            IF j = i THEN [by |-> r, state |-> "queued", old |-> FALSE]
            ELSE IF j \in Kept(i) THEN store[j] ELSE NoRecord]

\* updateState writes through the record the run holds, which the store may
\* have dropped meanwhile.
UpdateState(s, r, state) ==
    LET i == InvocationOf[r]
    IN  IF s[i] # NoRecord /\ s[i].by = r
        THEN [s EXCEPT ![i].state = state, ![i].old = FALSE] ELSE s

UpdateStates(s, rs, state) ==
    [i \in DOMAIN s |-> IF s[i] # NoRecord /\ s[i].by \in rs
                        THEN [s[i] EXCEPT !.state = state, !.old = FALSE] ELSE s[i]]

\* The TTL passes for a record; the cleanup timer drops the expired ones.
TimePasses(i) ==
    /\ store[i] # NoRecord /\ ~store[i].old
    /\ store' = [store EXCEPT ![i].old = TRUE]
    /\ UNCHANGED <<wstate, bound, accepting, aborted, http, runq, drainScheduled, run>>

Cleanup ==
    /\ wstate \in {"running", "stopping"} /\ bound
    /\ \E i \in WorkerInvocations : IsExpiredTerminal(store[i])
    /\ store' = [i \in WorkerInvocations |->
                    IF IsExpiredTerminal(store[i]) THEN NoRecord ELSE store[i]]
    /\ UNCHANGED <<wstate, bound, accepting, aborted, http, runq, drainScheduled, run>>

-----------------------------------------------------------------------------
(* The scheduler. *)

ActiveRuns == {r \in RunRequests : run[r].phase = "running"}

HasCapacity == Cardinality(ActiveRuns) + Len(runq) < Concurrency + MaxQueuedRuns

\* drain: start queued runs in order while a slot is free.
Started(active, q) ==
    IF ~accepting \/ active >= Concurrency THEN 0
    ELSE IF Len(q) < Concurrency - active THEN Len(q) ELSE Concurrency - active

Drain(active, runs, st) ==
    LET n == Started(active, runq)
        firsts == {runq[k] : k \in 1..n}
    IN  /\ runq' = SubSeq(runq, n + 1, Len(runq))
        /\ run' = [r \in RunRequests |-> IF r \in firsts
                      THEN [runs[r] EXCEPT !.phase = "running"] ELSE runs[r]]
        /\ store' = UpdateStates(st, firsts, "running")

\* The setImmediate an enqueue scheduled.
ScheduledDrain ==
    /\ drainScheduled
    /\ drainScheduled' = FALSE
    /\ Drain(Cardinality(ActiveRuns), run, store)
    /\ UNCHANGED <<wstate, bound, accepting, aborted, http>>

-----------------------------------------------------------------------------
(* POST /v1/runs. *)

\* handleRequest up to readRequestBody: the lifecycle state is checked here
\* and not again after the body has been read.
Receive(r) ==
    /\ bound /\ wstate # "stopped" /\ http[r] = "new"
    /\ http' = [http EXCEPT ![r] = IF wstate = "running" THEN "reading" ELSE "not_ready"]
    /\ UNCHANGED <<wstate, bound, accepting, aborted, store, runq, drainScheduled, run>>

\* The body is too large, no valid request, for another agent, with the wrong
\* idempotency key, callback key or callback origin.
Reject(r) ==
    /\ http[r] = "reading"
    /\ http' = [http EXCEPT ![r] = "rejected"]
    /\ UNCHANGED <<wstate, bound, accepting, aborted, store, runq, drainScheduled, run>>

\* The rest of handleRequest, without an await: lookup, capacity, create, 202,
\* enqueue.  A scheduler that stopped accepting cancels the run at once.
Answer(r) ==
    /\ http[r] = "reading"
    /\ LET i == InvocationOf[r]
           kind == Lookup(i, FingerprintOf[r])
           forget == IF kind = "miss" THEN [store EXCEPT ![i] = NoRecord] ELSE store
       IN  \/ /\ kind # "miss"
              /\ http' = [http EXCEPT ![r] = kind]
              /\ UNCHANGED <<store, runq, drainScheduled, run>>
           \/ /\ kind = "miss" /\ ~HasCapacity
              /\ http' = [http EXCEPT ![r] = "queue_full"]
              /\ store' = forget
              /\ UNCHANGED <<runq, drainScheduled, run>>
           \/ /\ kind = "miss" /\ HasCapacity /\ ~CreateFits(i)
              /\ http' = [http EXCEPT ![r] = "capacity_full"]
              /\ store' = forget
              /\ UNCHANGED <<runq, drainScheduled, run>>
           \/ /\ kind = "miss" /\ HasCapacity /\ CreateFits(i)
              /\ http' = [http EXCEPT ![r] = "accepted"]
              /\ IF accepting
                 THEN /\ store' = Create(r)
                      /\ runq' = Append(runq, r)
                      /\ drainScheduled' = TRUE
                      /\ run' = [run EXCEPT ![r].phase = "queued"]
                 ELSE /\ store' = UpdateState(Create(r), r, "callback_pending")
                      /\ run' = [run EXCEPT ![r].phase = "delivering"]
                      /\ UNCHANGED <<runq, drainScheduled>>
    /\ UNCHANGED <<wstate, bound, accepting, aborted>>

-----------------------------------------------------------------------------
(* executeRun and the callback. *)

\* trackCallback(deliverResult): stop waits for it.
EndTracked(r) == [run EXCEPT ![r].phase = "delivering", ![r].tracked = TRUE]

\* Mutant: a finishing run leaves the queue alone.
EndRunOnly(r) ==
    /\ run[r].phase = "running"
    /\ run' = EndTracked(r)
    /\ store' = UpdateState(store, r, "callback_pending")
    /\ UNCHANGED <<wstate, bound, accepting, aborted, http, runq, drainScheduled>>

\* The race of executeAgent is decided: the handler returned or threw, the
\* timeout fired, or the shutdown aborted it.  The slot is free and drained.
EndRun(r) ==
    /\ run[r].phase = "running"
    /\ Drain(Cardinality(ActiveRuns) - 1, EndTracked(r), UpdateState(store, r, "callback_pending"))
    /\ UNCHANGED <<wstate, bound, accepting, aborted, http, drainScheduled>>

Settle(r, state, phase) ==
    /\ store' = UpdateState(store, r, state)
    /\ run' = [run EXCEPT ![r].phase = phase]

\* Mutant: one attempt too many is made.
LastAttemptLate(r) == run[r].attempts = MaxCallbackAttempts

LastAttempt(r) == run[r].attempts + 1 = MaxCallbackAttempts

\* One attempt of deliverSignedBody.
Attempt(r) ==
    /\ run[r].phase = "delivering" /\ ~aborted
    /\ \/ Settle(r, "delivered", "ended")
       \/ Settle(r, "callback_failed", "notifying")    \* not retryable, or too large
       \/ IF LastAttempt(r)
          THEN Settle(r, "callback_failed", "notifying")
          ELSE /\ run' = [run EXCEPT ![r].attempts = @ + 1]
               /\ UNCHANGED store
    /\ UNCHANGED <<wstate, bound, accepting, aborted, http, runq, drainScheduled>>

\* The worker-wide abort ends requests, reads and sleeps as worker-shutdown.
AbortDelivery(r) ==
    /\ run[r].phase = "delivering" /\ aborted
    /\ Settle(r, "callback_failed", "ended")
    /\ UNCHANGED <<wstate, bound, accepting, aborted, http, runq, drainScheduled>>

\* notifyCallbackDeliveryFailed: the hook finishes, or the abort wins the race.
HookReturns(r) ==
    /\ run[r].phase = "notifying"
    /\ run' = [run EXCEPT ![r].phase = "ended"]
    /\ UNCHANGED <<wstate, bound, accepting, aborted, http, store, runq, drainScheduled>>

HookAborted(r) == aborted /\ HookReturns(r)

-----------------------------------------------------------------------------
(* start and stop. *)

Start ==
    /\ wstate = "created"
    /\ wstate' = "starting"
    /\ UNCHANGED <<bound, accepting, aborted, http, store, runq, drainScheduled, run>>

\* scheduler.stopAccepting: every queued run becomes a cancellation callback.
StopAccepting(st) ==
    LET queued == ToSet(runq)
    IN  /\ wstate' = "stopping" /\ accepting' = FALSE /\ runq' = << >>
        /\ UNCHANGED drainScheduled
        /\ run' = [r \in RunRequests |-> IF r \in queued
                      THEN [run[r] EXCEPT !.phase = "delivering", !.tracked = TRUE] ELSE run[r]]
        /\ store' = UpdateStates(st, queued, "callback_pending")

\* bind: listening, or the port is taken.  A stop that came first goes on to
\* shutdown, or is done when there is nothing to shut down.
Listening ==
    /\ ~bound
    /\ bound' = TRUE
    /\ \/ /\ wstate = "starting"
          /\ wstate' = "running"
          /\ UNCHANGED <<accepting, store, runq, drainScheduled, run>>
       \/ wstate = "stopping" /\ StopAccepting(store)
    /\ UNCHANGED <<aborted, http>>

BindFails ==
    /\ ~bound /\ wstate \in {"starting", "stopping"}
    /\ wstate' = IF wstate = "starting" THEN "failed" ELSE "stopped"
    /\ UNCHANGED <<bound, accepting, aborted, http, store, runq, drainScheduled, run>>

Stop ==
    \/ /\ wstate \in {"created", "failed"}
       /\ wstate' = "stopped"
       /\ UNCHANGED <<bound, accepting, aborted, http, store, runq, drainScheduled, run>>
    \/ /\ wstate = "starting"
       /\ wstate' = "stopping"
       /\ UNCHANGED <<bound, accepting, aborted, http, store, runq, drainScheduled, run>>
    \/ /\ wstate = "running"
       /\ StopAccepting(store)
       /\ UNCHANGED <<bound, aborted, http>>

\* Mutant: the drain waits for the executions and not for their callbacks.
DrainedRuns == ActiveRuns = {} /\ runq = << >>

\* waitForDrain and closeServer: the cancelled queue, the active runs, the
\* tracked callbacks and the open requests.
Drained ==
    /\ ActiveRuns = {} /\ runq = << >>
    /\ \A r \in RunRequests : run[r].tracked => run[r].phase \notin LiveRun
    /\ \A r \in RunRequests : http[r] # "reading"

\* The grace period ended: abort everything and close the connections.
GraceExpires ==
    /\ wstate = "stopping" /\ bound /\ ~accepting /\ ~aborted
    /\ aborted' = TRUE
    /\ \E cut \in SUBSET {r \in RunRequests : http[r] = "reading"} :
          http' = [r \in RunRequests |-> IF r \in cut THEN "dropped" ELSE http[r]]
    /\ UNCHANGED <<wstate, bound, accepting, store, runq, drainScheduled, run>>

Stopped ==
    /\ wstate = "stopping" /\ bound /\ ~accepting /\ Drained
    /\ wstate' = "stopped"
    /\ UNCHANGED <<bound, accepting, aborted, http, store, runq, drainScheduled, run>>

WorkerNext ==
    \/ Start \/ Listening \/ BindFails \/ Stop \/ GraceExpires \/ Stopped
    \/ ScheduledDrain \/ Cleanup
    \/ \E i \in WorkerInvocations : TimePasses(i)
    \/ \E r \in RunRequests :
          \/ Receive(r) \/ Reject(r) \/ Answer(r) \/ EndRun(r) \/ Attempt(r)
          \/ AbortDelivery(r) \/ HookReturns(r) \/ HookAborted(r)

WorkerSpec == WorkerInit /\ [][WorkerNext]_workerVars

-----------------------------------------------------------------------------
(* Properties. *)

\* The scheduler never executes more than its concurrency, nor holds more runs
\* than its concurrency and its queue together, however answers, finishing
\* runs and the deferred drain interleave (RunScheduler.enqueue and drain).
WorkerCapacityHolds ==
    /\ Cardinality(ActiveRuns) <= Concurrency
    /\ Cardinality(ActiveRuns) + Len(runq) <= Concurrency + MaxQueuedRuns

\* A redelivered request never starts the invocation a second time while its
\* first run is queued, executing or delivering: TTL expiry and cleanup under
\* capacity pressure forget settled runs only (InMemoryIdempotencyStore).
OneLiveRunPerInvocation ==
    \A r, q \in RunRequests :
        /\ r # q /\ InvocationOf[r] = InvocationOf[q]
        /\ run[r].phase \in {"queued", "running", "delivering"}
        => run[q].phase \notin {"queued", "running", "delivering"}

\* stop() resolves only when no run executes, none is queued and every tracked
\* callback has settled (shutdown and waitForDrain).
StoppedIsQuiet ==
    wstate = "stopped" =>
        /\ ActiveRuns = {} /\ runq = << >>
        /\ \A r \in RunRequests : run[r].tracked => run[r].phase = "ended"

\* stop() always resolves, even when the agent's handler ignores its signal
\* and the failure hook never returns (the grace period and its abort).
StopCompletes == wstate = "stopping" ~> wstate = "stopped"

\* Every run the worker answered 202 for reaches a settled callback, delivered
\* or failed: neither the queue nor the retries hold it for ever.
AcceptedRunSettles ==
    \A r \in RunRequests :
        http[r] = "accepted" ~> run[r].phase \in {"notifying", "ended"}

=============================================================================
