------------------------------ MODULE PyWorker ------------------------------
(***************************************************************************)
(* The Python worker SDK (sdks/python-worker): the aiohttp server with its *)
(* submission lock, the idempotency store, the FIFO scheduler, the race of *)
(* a handler with its timeout and the forced stop, and the signed delivery *)
(* of results and events.  The event loop runs one callback at a time, so  *)
(* a step is the code between two awaits; a synchronous handler is another *)
(* thread, which goes on, and goes on emitting, after it is detached.      *)
(*                                                                         *)
(* Every result and event of a run is a job of the delivery layer: job 0   *)
(* is the result, the last one the completed or failed event.              *)
(***************************************************************************)
EXTENDS Naturals, Sequences, FiniteSets, SequencesExt

CONSTANTS
  Submissions,   \* POST /v1/runs requests
  KeyOf,         \* the invocation each of them is for
  BodyOf,        \* the fingerprint of its body
  PyConcurrency, PyMaxQueued, PyMaxEntries, PyMaxAttempts,
  Emitters,      \* the requests whose handler emits events
  HandlerEvents  \* bound: events such a handler emits

\* TenvyrWorkerConfig.__post_init__ lets nothing else through.
PyConfigured ==
  /\ {PyConcurrency, PyMaxEntries, PyMaxAttempts} \subseteq Nat \ {0} /\ PyMaxQueued \in Nat

ASSUME PyAssumption ==
  /\ PyConfigured /\ HandlerEvents \in Nat
  /\ DOMAIN KeyOf = Submissions /\ DOMAIN BodyOf = Submissions

PyKeys == Range(KeyOf)
Jobs == 0 .. HandlerEvents + 2       \* the result, "accepted", the handler's, the terminal event
AcceptedJob == 1
TerminalJob == HandlerEvents + 2

VARIABLES
  pstate,          \* WorkerLifecycleState
  session,         \* the callback session is open
  open,            \* _accepting, behind the submission lock
  taking,          \* RunScheduler._accepting
  forced,          \* _force_stop
  draining,        \* progress of _shutdown: "no", "scheduler", "drain", "close"
  reply,           \* per request: "new", "reading", or its answer
  kept,            \* InMemoryIdempotencyStore
  fifo, drainDue,  \* RunScheduler._queue and _drain_scheduled
  ran,             \* per request: "none", "queued", "active", "over"
  handler,         \* "idle", "on", "detached" or "done"
  job              \* per request and job: [at, tries]

pyVars == <<pstate, session, open, taking, forced, draining, reply, kept, fifo, drainDue, ran, handler, job>>

Nothing == [at |-> "none", tries |-> 0]
Tracked == {"sending", "notifying"}      \* in _callback_tasks
NoPyRecord == [state |-> "absent"]

PyTypeOK ==
  /\ pstate \in {"created", "starting", "running", "stopping", "stopped", "failed"}
  /\ {session, open, taking, forced, drainDue} \subseteq BOOLEAN
  /\ draining \in {"no", "scheduler", "drain", "close"}
  /\ reply \in [Submissions -> {"new", "reading", "rejected", "not_ready", "accepted", "duplicate",
                                "conflict", "queue_full", "capacity_full", "dropped"}]
  /\ kept \in [PyKeys -> {NoPyRecord} \cup [by : Submissions, old : BOOLEAN,
                state : {"queued", "running", "callback_pending", "delivered", "callback_failed"}]]
  /\ fifo \in Seq(Submissions)
  /\ ran \in [Submissions -> {"none", "queued", "active", "over"}]
  /\ handler \in [Submissions -> {"idle", "on", "detached", "done"}]
  /\ job \in [Submissions -> [Jobs -> [at : {"none", "due", "sending", "notifying", "done"}, tries : 0 .. PyMaxAttempts]]]

-----------------------------------------------------------------------------
(* The idempotency store. *)

\* Mutant: the TTL alone forgets a record.
ForgottenByAge(rec) == rec # NoPyRecord /\ rec.old

ForgottenRecord(rec) ==
  rec # NoPyRecord /\ rec.old /\ rec.state \in {"delivered", "callback_failed"}

LookUp(r) ==
  LET rec == kept[KeyOf[r]] IN
  IF rec = NoPyRecord \/ ForgottenRecord(rec) THEN "miss"
  ELSE IF BodyOf[rec.by] = BodyOf[r] THEN "duplicate" ELSE "conflict"

\* create: at the limit the expired records go first.
Survivors(r) ==
  LET others == {i \in PyKeys \ {KeyOf[r]} : kept[i] # NoPyRecord} IN
  IF Cardinality(others) < PyMaxEntries THEN others ELSE {i \in others : ~ForgottenRecord(kept[i])}

PyRecorded(r) ==
  [i \in PyKeys |-> IF i = KeyOf[r] THEN [by |-> r, old |-> FALSE, state |-> "queued"]
                    ELSE IF i \in Survivors(r) THEN kept[i] ELSE NoPyRecord]

\* update_state writes only through the record the store still holds.
PyMarked(rs, state) ==
  [i \in PyKeys |-> IF kept[i] # NoPyRecord /\ kept[i].by \in rs
                    THEN [kept[i] EXCEPT !.state = state, !.old = FALSE] ELSE kept[i]]

RecordAges(i) ==
  /\ kept[i] # NoPyRecord /\ ~kept[i].old /\ kept' = [kept EXCEPT ![i].old = TRUE]
  /\ UNCHANGED <<pstate, session, open, taking, forced, draining, reply, fifo, drainDue, ran, handler, job>>

CleanupRecords ==
  /\ session /\ draining # "close" /\ \E i \in PyKeys : ForgottenRecord(kept[i])
  /\ kept' = [i \in PyKeys |-> IF ForgottenRecord(kept[i]) THEN NoPyRecord ELSE kept[i]]
  /\ UNCHANGED <<pstate, session, open, taking, forced, draining, reply, fifo, drainDue, ran, handler, job>>

-----------------------------------------------------------------------------
(* The scheduler. *)

ActiveNow == {r \in Submissions : ran[r] = "active"}

HasRoom == Cardinality(ActiveNow) + Len(fifo) < PyConcurrency + PyMaxQueued

\* _execute_submission: the handler starts unless the input parser refuses.
StartHandlers(first) ==
  /\ kept' = PyMarked(first, "running")
  /\ \E started \in SUBSET first :
       handler' = [r \in Submissions |-> IF r \in started THEN "on" ELSE IF r \in first THEN "done" ELSE handler[r]]

\* _drain, one turn of the loop after it was scheduled.
DrainQueue ==
  LET free == IF Cardinality(ActiveNow) < PyConcurrency THEN PyConcurrency - Cardinality(ActiveNow) ELSE 0
      n == IF ~taking THEN 0 ELSE IF Len(fifo) < free THEN Len(fifo) ELSE free
      first == {fifo[k] : k \in 1 .. n} IN
  /\ drainDue /\ drainDue' = FALSE
  /\ fifo' = SubSeq(fifo, n + 1, Len(fifo))
  /\ ran' = [r \in Submissions |-> IF r \in first THEN "active" ELSE ran[r]]
  /\ StartHandlers(first)
  /\ UNCHANGED <<pstate, session, open, taking, forced, draining, reply, job>>

-----------------------------------------------------------------------------
(* POST /v1/runs. *)

Ready == pstate = "running" /\ open

ReceiveRun(r) ==
  /\ reply[r] = "new" /\ session
  /\ reply' = [reply EXCEPT ![r] = IF Ready THEN "reading" ELSE "not_ready"]
  /\ UNCHANGED <<pstate, session, open, taking, forced, draining, kept, fifo, drainDue, ran, handler, job>>

\* Content type, bearer, size, JSON, contract, agent, idempotency key, callback
\* key or callback origin.
RefuseRun(r) ==
  /\ reply[r] = "reading" /\ reply' = [reply EXCEPT ![r] = "rejected"]
  /\ UNCHANGED <<pstate, session, open, taking, forced, draining, kept, fifo, drainDue, ran, handler, job>>

\* Under the submission lock readiness is looked at again.
ReadyAgain == Ready

Verdict(r) ==
  CASE ~ReadyAgain -> "not_ready"
    [] ReadyAgain /\ LookUp(r) # "miss" -> LookUp(r)
    [] ReadyAgain /\ LookUp(r) = "miss" /\ ~HasRoom -> "queue_full"
    [] ReadyAgain /\ LookUp(r) = "miss" /\ HasRoom /\ Cardinality(Survivors(r)) >= PyMaxEntries -> "capacity_full"
    [] OTHER -> "accepted"

\* The rest of _handle_run: record, "accepted" event, enqueue, 202.
SubmitRun(r) ==
  /\ reply[r] = "reading"
  /\ reply' = [reply EXCEPT ![r] = Verdict(r)]
  /\ IF Verdict(r) = "accepted"
     THEN /\ kept' = PyRecorded(r) /\ fifo' = Append(fifo, r) /\ drainDue' = TRUE
          /\ ran' = [ran EXCEPT ![r] = "queued"]
          /\ job' = [job EXCEPT ![r][AcceptedJob].at = "sending"]
     ELSE /\ kept' = IF ReadyAgain /\ LookUp(r) = "miss" THEN [kept EXCEPT ![KeyOf[r]] = NoPyRecord] ELSE kept
          /\ UNCHANGED <<fifo, drainDue, ran, job>>
  /\ UNCHANGED <<pstate, session, open, taking, forced, draining, handler>>

-----------------------------------------------------------------------------
(* Execution and delivery. *)

\* execute_agent returns and _track_callback takes the result on.  The timeout
\* and the forced stop leave a synchronous handler running, detached.
EndPyRun(r) ==
  /\ ran[r] = "active"
  /\ ran' = [ran EXCEPT ![r] = "over"]
  /\ \E left \in {"done", "detached"} :
       handler' = [handler EXCEPT ![r] = IF @ = "on" THEN left ELSE @]
  /\ job' = [job EXCEPT ![r][0].at = "sending"]
  /\ kept' = PyMarked({r}, "callback_pending")
  /\ drainDue' = (drainDue \/ (taking /\ fifo # <<>>))
  /\ UNCHANGED <<pstate, session, open, taking, forced, draining, reply, fifo>>

\* A detached thread ends in its own time.
ThreadEnds(r) ==
  /\ handler[r] = "detached" /\ handler' = [handler EXCEPT ![r] = "done"]
  /\ UNCHANGED <<pstate, session, open, taking, forced, draining, reply, kept, fifo, drainDue, ran, job>>

\* context.progress, log and artifact reach the emitter as long as the handler's
\* code runs, cancelled or not; so does the heartbeat while it is awaited.
MayEmit(r) == handler[r] \in {"on", "detached"}

\* RunEventEmitter.emit: the next sequence number, and a call_soon_threadsafe to
\* the loop.
EmitEvent(r) ==
  /\ r \in Emitters /\ MayEmit(r)
  /\ \E k \in 2 .. HandlerEvents + 1 :
       /\ job[r][k] = Nothing /\ \A j \in 2 .. k - 1 : job[r][j] # Nothing
       /\ job' = [job EXCEPT ![r][k].at = "due"]
  /\ UNCHANGED <<pstate, session, open, taking, forced, draining, reply, kept, fifo, drainDue, ran, handler>>

ScheduleEvent(r, k) ==
  /\ job[r][k].at = "due" /\ job' = [job EXCEPT ![r][k].at = "sending"]
  /\ UNCHANGED <<pstate, session, open, taking, forced, draining, reply, kept, fifo, drainDue, ran, handler>>

\* _complete_run: the terminal event follows the result's delivery.
Chained(jobs, r, k) ==
  IF k = 0 /\ jobs[r][0].at = "done" THEN [jobs EXCEPT ![r][TerminalJob].at = "sending"] ELSE jobs

\* _deliver_result: what the record says of the result afterwards.
AfterDelivery(delivered) == IF delivered THEN "delivered" ELSE "callback_failed"

\* A delivery ends: as delivered or not, with the failure hook to await when
\* the stop is not forced.
Ends(r, k, delivered) ==
  /\ job' = Chained([job EXCEPT ![r][k].at = IF delivered \/ forced THEN "done" ELSE "notifying"], r, k)
  /\ kept' = IF k = 0 THEN PyMarked({r}, AfterDelivery(delivered)) ELSE kept

\* One attempt of _deliver_raw_body.
AttemptJob(r, k) ==
  /\ job[r][k].at = "sending" /\ session /\ ~forced
  /\ \/ Ends(r, k, TRUE)
     \/ Ends(r, k, FALSE)                   \* not retryable, or the answer is too large
     \/ IF job[r][k].tries + 1 = PyMaxAttempts
        THEN Ends(r, k, FALSE)
        ELSE job' = [job EXCEPT ![r][k].tries = @ + 1] /\ UNCHANGED kept
  /\ UNCHANGED <<pstate, session, open, taking, forced, draining, reply, fifo, drainDue, ran, handler>>

\* The forced stop ends requests and sleeps as worker-shutdown.
AbortJob(r, k) ==
  /\ job[r][k].at = "sending" /\ forced /\ session
  /\ Ends(r, k, FALSE)
  /\ UNCHANGED <<pstate, session, open, taking, forced, draining, reply, fifo, drainDue, ran, handler>>

\* _deliver_event without a session returns; a post on a closed one raises and
\* is reported like a failed delivery.
SessionGone(r, k) ==
  /\ job[r][k].at = "sending" /\ ~session
  /\ \/ job' = [job EXCEPT ![r][k].at = "done"] /\ UNCHANGED kept
     \/ job[r][k].tries > 0 /\ Ends(r, k, FALSE)
  /\ UNCHANGED <<pstate, session, open, taking, forced, draining, reply, fifo, drainDue, ran, handler>>

\* notify_callback_delivery_failed: the hook returns, or the forced stop wins.
HookDone(r, k) ==
  /\ job[r][k].at = "notifying"
  /\ job' = Chained([job EXCEPT ![r][k].at = "done"], r, k)
  /\ UNCHANGED <<pstate, session, open, taking, forced, draining, reply, kept, fifo, drainDue, ran, handler>>

HookCut(r, k) == forced /\ HookDone(r, k)

-----------------------------------------------------------------------------
(* start and stop. *)

StartWorker ==
  /\ pstate = "created" /\ pstate' = "starting"
  /\ UNCHANGED <<session, open, taking, forced, draining, reply, kept, fifo, drainDue, ran, handler, job>>

\* _bind; a stop that came meanwhile goes on to _shutdown.
Bind ==
  /\ pstate \in {"starting", "stopping"} /\ ~session /\ draining = "no"
  /\ \/ /\ session' = TRUE
        /\ IF pstate = "starting" THEN pstate' = "running" /\ open' = TRUE /\ UNCHANGED draining
           ELSE draining' = "scheduler" /\ UNCHANGED <<pstate, open>>
     \/ /\ pstate' = IF pstate = "starting" THEN "failed" ELSE "stopped"
        /\ UNCHANGED <<session, open, draining>>
  /\ UNCHANGED <<taking, forced, reply, kept, fifo, drainDue, ran, handler, job>>

\* stop, and the first step of _shutdown under the submission lock.
StopWorker ==
  /\ \/ pstate \in {"created", "failed"} /\ pstate' = "stopped" /\ UNCHANGED <<open, draining>>
     \/ pstate = "starting" /\ pstate' = "stopping" /\ UNCHANGED <<open, draining>>
     \/ pstate = "running" /\ pstate' = "stopping" /\ open' = FALSE /\ draining' = "scheduler"
  /\ UNCHANGED <<session, taking, forced, reply, kept, fifo, drainDue, ran, handler, job>>

\* The site is closed and stop_accepting turns the queue into cancellations.
StopScheduler ==
  LET queued == ToSet(fifo) IN
  /\ draining = "scheduler" /\ draining' = "drain" /\ taking' = FALSE /\ fifo' = <<>>
  /\ ran' = [r \in Submissions |-> IF r \in queued THEN "over" ELSE ran[r]]
  /\ job' = [r \in Submissions |-> IF r \in queued THEN [job[r] EXCEPT ![0].at = "sending"] ELSE job[r]]
  /\ kept' = PyMarked(queued, "callback_pending")
  /\ UNCHANGED <<pstate, session, open, forced, reply, drainDue, handler>>

GraceEnds ==
  /\ draining \in {"scheduler", "drain"} /\ ~forced /\ forced' = TRUE
  /\ UNCHANGED <<pstate, session, open, taking, draining, reply, kept, fifo, drainDue, ran, handler, job>>

\* wait_idle, then gather until no callback task is left.
AllDrained ==
  ActiveNow = {} /\ fifo = <<>> /\ \A r \in Submissions, k \in Jobs : job[r][k].at \notin Tracked

DrainEnds ==
  /\ draining = "drain" /\ AllDrained /\ draining' = "close"
  /\ UNCHANGED <<pstate, session, open, taking, forced, reply, kept, fifo, drainDue, ran, handler, job>>

CloseWorker ==
  /\ draining = "close" /\ pstate = "stopping"
  /\ session' = FALSE /\ pstate' = "stopped"
  /\ reply' = [r \in Submissions |-> IF reply[r] = "reading" THEN "dropped" ELSE reply[r]]
  /\ UNCHANGED <<open, taking, forced, draining, kept, fifo, drainDue, ran, handler, job>>

PyInit ==
  /\ pstate = "created" /\ session = FALSE /\ open = FALSE /\ taking = TRUE /\ forced = FALSE
  /\ draining = "no" /\ drainDue = FALSE /\ fifo = <<>>
  /\ reply = [r \in Submissions |-> "new"] /\ kept = [i \in PyKeys |-> NoPyRecord]
  /\ ran = [r \in Submissions |-> "none"] /\ handler = [r \in Submissions |-> "idle"]
  /\ job = [r \in Submissions |-> [k \in Jobs |-> Nothing]]

PyNext ==
  \/ StartWorker \/ Bind \/ StopWorker \/ StopScheduler \/ GraceEnds \/ DrainEnds \/ CloseWorker
  \/ DrainQueue \/ CleanupRecords \/ \E i \in PyKeys : RecordAges(i)
  \/ \E r \in Submissions :
       \/ ReceiveRun(r) \/ RefuseRun(r) \/ SubmitRun(r) \/ EndPyRun(r) \/ ThreadEnds(r) \/ EmitEvent(r)
       \/ \E k \in Jobs : \/ ScheduleEvent(r, k) \/ AttemptJob(r, k) \/ AbortJob(r, k) \/ SessionGone(r, k)
                          \/ HookDone(r, k) \/ HookCut(r, k)

PySpec == PyInit /\ [][PyNext]_pyVars

-----------------------------------------------------------------------------
(***************************************************************************)
(* The worker contract, refined: a run is open from its 202 to the end of  *)
(* its result's delivery, and neither a request whose body is read while   *)
(* stop() begins nor an expired record lets a second run of an invocation  *)
(* start or a run outlive stop().                                          *)
(***************************************************************************)
Contract == INSTANCE WorkerContract WITH
  Taken <- Submissions,
  life <- CASE pstate \in {"created", "starting", "failed"} -> "down" [] pstate = "running" -> "up"
            [] pstate = "stopping" -> "stopping" [] pstate = "stopped" -> "stopped",
  work <- [r \in Submissions |-> IF ran[r] = "none" THEN "none"
                                 ELSE IF job[r][0].at \in {"notifying", "done"} THEN "settled" ELSE "open"]

\* The Python worker implements the worker contract (_handle_run, _shutdown and
\* the idempotency store, under the submission lock).
PyKeepsContract == Contract!ContractSpec

\* "The terminal event is chained AFTER the AgentResult callback completes so
\* that event delivery can never prevent or delay the terminal callback."
TerminalEventFollowsResult ==
  \A r \in Submissions : job[r][TerminalJob].at # "none" => job[r][0].at = "done"

\* stop() always resolves, with a handler that never returns and a hook that
\* hangs, once the grace period ends.
PyStopCompletes == pstate = "stopping" ~> pstate = "stopped"
=============================================================================
