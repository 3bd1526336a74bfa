------------------------------ MODULE Console ------------------------------
(* The supervision pages of the frontend: the run detail page, which shows *)
(* whatever projection arrived last and refetches, and the attention queue, *)
(* whose buttons go through the workbench commands.  A fetch is asked, read *)
(* by the server at some later moment and answered later still, so answers *)
(* overtake each other; a fetch or a command may also fail on the way.     *)
EXTENDS Naturals

CONSTANTS Fetches,     \* fetches of the run page in flight at once
          Initials,    \* the status the run has when the page is opened
          WaitLimit,   \* bound: how often the run waits for a human
          ClickLimit,  \* bound: commands the operator gives
          Failures     \* bound: fetches that fail

Statuses == {"PENDING", "RUNNING", "WAITING", "ENDED"}

ASSUME ConsoleAssumption ==
  /\ Initials \subseteq Statuses \ {"ENDED"} /\ Fetches # {}
  /\ WaitLimit \in Nat /\ ClickLimit \in Nat /\ Failures \in Nat

VARIABLES consoleRun,       \* external: the run's status; WAITING is a human wait
          consoleTree,      \* external: its preserved worktree
          waits,            \* how often the run has waited
          shown,            \* projection: the status on display, or "none"
          fetch,            \* slot -> "free", "asked", or the status the server read
          consoleFailures,  \* fetches that have failed
          acting,           \* the run page's command under way, or "none"
          consoleAnswer,    \* its fate at the server
          notice,           \* what the run page last said of a command
          queue,            \* the attention queue: [item, acting, answer, notice]
          clicks            \* commands given

consoleVars == <<consoleRun, consoleTree, waits, shown, fetch, consoleFailures, acting, consoleAnswer,
                 notice, queue, clicks>>

ConsoleInit ==
  /\ consoleRun \in Initials /\ consoleTree = "PRESERVED" /\ waits = 0
  /\ shown = "none" /\ consoleFailures = 0 /\ clicks = 0
  /\ \E f \in Fetches : fetch = [g \in Fetches |-> IF g = f THEN "asked" ELSE "free"]
  /\ acting = "none" /\ consoleAnswer = "none" /\ notice = "none"
  /\ queue = [acting |-> "none", answer |-> "none", notice |-> "none"]

Quieted == <<acting, consoleAnswer, notice, clicks>>
Click == clicks < ClickLimit /\ clicks' = clicks + 1

------------------------------------------------------------------------------
\* External: the run goes its way; a worktree release begun elsewhere ends.
RunMoves ==
  /\ \/ consoleRun = "PENDING" /\ consoleRun' = "RUNNING" /\ UNCHANGED waits
     \/ consoleRun = "RUNNING" /\ waits < WaitLimit /\ consoleRun' = "WAITING" /\ waits' = waits + 1
     \/ consoleRun = "RUNNING" /\ consoleRun' = "ENDED" /\ UNCHANGED waits
  /\ UNCHANGED <<consoleTree, shown, fetch, consoleFailures, Quieted, queue>>

TreeMoves ==
  /\ consoleTree = "RELEASING" /\ consoleTree' \in {"PRESERVED", "REMOVED"}
  /\ UNCHANGED <<consoleRun, waits, shown, fetch, consoleFailures, Quieted, queue>>

------------------------------------------------------------------------------
(* The run page. *)

ServerReads(f) ==
  /\ fetch[f] = "asked" /\ fetch' = [fetch EXCEPT ![f] = consoleRun]
  /\ UNCHANGED <<consoleRun, consoleTree, waits, shown, consoleFailures, Quieted, queue>>

\* setProjection with whatever arrived: it is a new object, so the effect that
\* depends on it runs again and asks once more.
Shows(f) ==
  /\ shown' = fetch[f]
  /\ fetch' = [fetch EXCEPT ![f] = "asked"]

FetchAnswers(f) ==
  /\ fetch[f] \in Statuses /\ Shows(f)
  /\ UNCHANGED <<consoleRun, consoleTree, waits, consoleFailures, Quieted, queue>>

\* loadData's catch: nothing on display changes, so nothing is asked again.
FetchFails(f) ==
  /\ fetch[f] # "free" /\ consoleFailures < Failures /\ consoleFailures' = consoleFailures + 1
  /\ fetch' = [fetch EXCEPT ![f] = "free"]
  /\ UNCHANGED <<consoleRun, consoleTree, waits, shown, Quieted, queue>>

\* The interval polls while the page shows a run that is running or waits for
\* a human, or shows nothing.
Polled == shown \in {"none", "RUNNING", "WAITING"}

Poll ==
  /\ Polled
  /\ \E f \in Fetches : fetch[f] = "free" /\ fetch' = [fetch EXCEPT ![f] = "asked"]
  /\ UNCHANGED <<consoleRun, consoleTree, waits, shown, consoleFailures, Quieted, queue>>

\* handleApproveWait, handleCancel and handleReplay: offered by what is shown.
Give(c) ==
  /\ acting = "none" /\ Click
  /\ CASE c \in {"approve", "deny"} -> shown = "WAITING"
       [] c = "cancel" -> shown # "ENDED"
       [] c = "replay" -> shown = "ENDED"
  /\ acting' = c /\ consoleAnswer' = "sent" /\ notice' = "none"
  /\ UNCHANGED <<consoleRun, consoleTree, waits, shown, fetch, consoleFailures, queue>>

\* External: the command is carried out or refused by the run's own status.
CarriedOut ==
  /\ consoleAnswer = "sent"
  /\ LET able == CASE acting \in {"approve", "deny"} -> consoleRun = "WAITING"
                   [] acting = "cancel" -> consoleRun # "ENDED"
                   [] acting = "replay" -> consoleRun = "ENDED"
     IN /\ consoleAnswer' = IF able THEN "executed" ELSE "rejected"
        /\ consoleRun' = CASE able /\ acting = "approve" -> "RUNNING"
                           [] able /\ acting \in {"deny", "cancel"} -> "ENDED"
                           [] OTHER -> consoleRun
  /\ UNCHANGED <<consoleTree, waits, shown, fetch, consoleFailures, acting, notice, queue, clicks>>

\* The answer, or its loss, is noticed.  A replay is looked for under
\* result.executionId, where the server puts targetExecutionId, so it is
\* reported as failed.
CommandAnswers ==
  /\ acting # "none" /\ acting' = "none" /\ consoleAnswer' = "none"
  /\ \/ /\ consoleAnswer = "executed" /\ acting # "replay"
        /\ notice' = acting
        /\ \/ \E f \in Fetches : fetch[f] = "free" /\ fetch' = [fetch EXCEPT ![f] = "asked"]
           \/ (\A f \in Fetches : fetch[f] # "free") /\ UNCHANGED fetch
     \/ /\ consoleAnswer = "rejected" \/ (consoleAnswer = "executed" /\ acting = "replay")
        /\ notice' = "failed" /\ UNCHANGED fetch
  /\ UNCHANGED <<consoleRun, consoleTree, waits, shown, consoleFailures, queue, clicks>>

CommandLost ==
  /\ acting # "none" /\ consoleAnswer # "sent" /\ consoleFailures < Failures
  /\ consoleFailures' = consoleFailures + 1
  /\ acting' = "none" /\ consoleAnswer' = "none" /\ notice' = "failed"
  /\ UNCHANGED <<consoleRun, consoleTree, waits, shown, fetch, queue, clicks>>

------------------------------------------------------------------------------
(* The attention queue. *)

\* handleWaitDecision and handleReleaseWorkspace on an item of the last view.
QueueClick(c) ==
  /\ queue.acting = "none" /\ Click
  /\ queue' = [acting |-> c, answer |-> "sent", notice |-> queue.notice]
  /\ UNCHANGED <<consoleRun, consoleTree, waits, shown, fetch, consoleFailures, acting, consoleAnswer, notice>>

\* External: a wait is resolved if it is still there; a release removes the
\* worktree, is still going on, or is refused or interrupted.
QueueCarriedOut ==
  /\ queue.answer = "sent"
  /\ \/ /\ queue.acting = "approve" /\ UNCHANGED consoleTree
        /\ IF consoleRun = "WAITING"
           THEN consoleRun' = "RUNNING" /\ queue' = [queue EXCEPT !.answer = "executed"]
           ELSE queue' = [queue EXCEPT !.answer = "rejected"] /\ UNCHANGED consoleRun
     \/ /\ queue.acting = "release" /\ UNCHANGED consoleRun
        /\ \/ consoleTree # "RELEASING" /\ consoleTree' = "REMOVED"
                /\ queue' = [queue EXCEPT !.answer = "REMOVED"]
           \/ consoleTree = "PRESERVED" /\ UNCHANGED consoleTree
                /\ queue' = [queue EXCEPT !.answer = "PRESERVED"]
           \/ consoleTree = "RELEASING" /\ UNCHANGED consoleTree
                /\ queue' = [queue EXCEPT !.answer = "IN_PROGRESS"]
           \/ consoleTree = "PRESERVED" /\ consoleTree' = "RELEASING"
                /\ queue' = [queue EXCEPT !.answer = "INTERRUPTED"]
  /\ UNCHANGED <<waits, shown, fetch, consoleFailures, Quieted>>

\* "never show 'released safely' unless durable truth is REMOVED".
ReleaseNotice(a) ==
  CASE a = "REMOVED" -> "released"
    [] a \in {"IN_PROGRESS", "INTERRUPTED"} -> "retry"
    [] a = "PRESERVED" -> "refused"

\* handleWaitDecision parses the result and reports success whatever its
\* outcome is; the reload that follows either of them clears the notice.
QueueAnswers ==
  /\ queue.acting # "none" /\ queue.answer \notin {"sent", "none"}
  /\ queue' = [queue EXCEPT !.answer = "none", !.notice =
                 IF queue.acting = "release" THEN ReleaseNotice(queue.answer)
                                             ELSE "approved"]
  /\ UNCHANGED <<consoleRun, consoleTree, waits, shown, fetch, consoleFailures, Quieted>>

\* load: the view is replaced and the notice cleared, or the load fails.
QueueLoads ==
  /\ queue.answer = "none" /\ queue # [acting |-> "none", answer |-> "none", notice |-> "none"]
  /\ queue' = [acting |-> "none", answer |-> "none", notice |-> "none"]
  /\ UNCHANGED <<consoleRun, consoleTree, waits, shown, fetch, consoleFailures, Quieted>>

ConsoleNext ==
  \/ RunMoves \/ TreeMoves \/ Poll \/ CarriedOut \/ CommandAnswers \/ CommandLost
  \/ \E f \in Fetches : ServerReads(f) \/ FetchAnswers(f) \/ FetchFails(f)
  \/ \E c \in {"approve", "deny", "cancel", "replay"} : Give(c)
  \/ \E c \in {"approve", "release"} : QueueClick(c)
  \/ QueueCarriedOut \/ QueueAnswers \/ QueueLoads

ConsoleSpec == ConsoleInit /\ [][ConsoleNext]_consoleVars

------------------------------------------------------------------------------
\* A run that has ended is at last shown as ended, although a stale answer may
\* overwrite a newer one on display (loadData and its effect).
ConsoleConverges == (consoleRun = "ENDED") ~> [](shown = "ENDED")

\* The queue says that a worktree was released only when it is removed.
ReleasedMeansRemoved == queue.notice = "released" => consoleTree = "REMOVED"

\* runs/[executionId]/page.tsx: "Poll while running / non-terminal": a page
\* that shows an ended run stops asking.
EndedRunIsNotPolled ==
  <>[](shown = "ENDED") => <>[](\A f \in Fetches : fetch[f] = "free")
=============================================================================
