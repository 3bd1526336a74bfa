------------------------------ MODULE Launcher ------------------------------
(***************************************************************************)
(* scripts/dev.mjs: the watcher that restarts the development stack when   *)
(* the backend's sources change, and the launcher process it starts, which *)
(* builds the backend, brings up the infrastructure and the services,      *)
(* waits until they are ready and takes them down again.  The launcher is  *)
(* two coroutines of one process: the main flow, which looks for a started *)
(* shutdown each time it resumes, and the shutdown that a signal, a reload *)
(* or a failed service sets off.                                           *)
(***************************************************************************)
EXTENDS Naturals, FiniteSets

CONSTANTS
  Services,   \* the services of the manifest
  Edits,      \* changes of the backend's sources
  Interrupts  \* times the operator presses Ctrl-C
ASSUME LauncherAssumption == Edits \in Nat /\ Interrupts \in Nat

Build == "build"
Children == Services \cup {Build}

VARIABLES
  outer,       \* the watcher: "watching", "stopping", "gone"
  debounce,    \* whether its 250 ms timer runs
  restarting,  \* whether the launcher was asked to make room for the next
  savedEdits, interrupts,
  mainFlow,    \* where the launcher's main flow stands
  listening,   \* whether its signal handlers are installed
  shutdown,    \* "no", then the stages of finish
  failed,      \* the flag the exit code depends on
  retain,      \* retainInfrastructure
  signals,     \* signals sent to the launcher and not yet handled
  child,       \* "none", "alive", "gone"
  infra,       \* whether the Compose infrastructure is up
  diedFirst,   \* services that exited before any shutdown began
  innerExit,   \* how the last launcher ended: "none", "clean", "failed" or "killed"
  orphans      \* children that outlived their launcher
launcherVars == <<outer, debounce, restarting, savedEdits, interrupts, mainFlow, listening,
                  shutdown, failed, retain, signals, child, infra, diedFirst,
                  innerExit, orphans>>
outerVars == <<outer, debounce, restarting, savedEdits, interrupts>>

NoSignals == [int |-> 0, usr2 |-> 0]
Running == mainFlow # "absent"
Aborted == shutdown # "no"

\* launch, and buildManifest: the build runs first, the handlers are there
\* before any work begins.
Launched ==
  /\ mainFlow' = "build" /\ listening' = TRUE /\ shutdown' = "no"
  /\ failed' = FALSE /\ retain' = FALSE /\ signals' = NoSignals
  /\ child' = [c \in Children |-> IF c = Build THEN "alive" ELSE "none"]
  /\ diedFirst' = {} /\ innerExit' = "none"

LauncherInit ==
  /\ outer = "watching" /\ debounce = FALSE /\ restarting = FALSE
  /\ savedEdits = 0 /\ interrupts = 0
  /\ mainFlow = "build" /\ listening = TRUE /\ shutdown = "no"
  /\ failed = FALSE /\ retain = FALSE /\ signals = NoSignals
  /\ child = [c \in Children |-> IF c = Build THEN "alive" ELSE "none"]
  /\ infra = FALSE /\ diedFirst = {} /\ innerExit = "none" /\ orphans = {}

---------------------------------------------------------------------------
\* abortReturn, and the finally that removes the listeners.
ReturnFromMain == mainFlow' = "returned" /\ listening' = FALSE

\* requestShutdown: the first request starts finish, which signals every
\* group at once; the others do nothing.
RequestShutdown(failure) ==
  /\ shutdown' = IF Aborted THEN shutdown ELSE "reaping"
  /\ failed' = (failed \/ (failure /\ ~Aborted))

\* The backend build has ended.
AfterBuild ==
  /\ mainFlow = "build"
  /\ child[Build] = "gone"
  /\ IF Aborted THEN ReturnFromMain /\ UNCHANGED <<shutdown, failed>>
     ELSE \/ /\ mainFlow' = "infra" /\ UNCHANGED <<listening, shutdown, failed>>
          \/ /\ mainFlow' = "closing" /\ UNCHANGED listening
             /\ shutdown' = "reaping" /\ failed' = TRUE
  /\ UNCHANGED <<outerVars, retain, signals, child, infra, diedFirst, innerExit, orphans>>

\* docker compose up, or what a previous session left.  Nothing is awaited
\* here, so no signal is handled and no shutdown has begun when it ends.
AfterInfra ==
  /\ mainFlow = "infra"
  /\ \/ /\ infra' = TRUE
        /\ mainFlow' = "database"
        /\ UNCHANGED <<shutdown, failed>>
     \/ /\ infra' \in BOOLEAN
        /\ mainFlow' = "closing"
        /\ RequestShutdown(TRUE)
  /\ UNCHANGED <<outerVars, listening, retain, signals, child, diedFirst, innerExit,
                 orphans>>

\* waitFor(pg_isready): ready, out of time, or abandoned.  The services are
\* then started in one go, with nothing awaited between two of them.
AfterDatabase ==
  /\ mainFlow = "database"
  /\ IF Aborted THEN ReturnFromMain /\ UNCHANGED <<failed, child>>
     ELSE /\ failed' \in {failed, TRUE}
          /\ mainFlow' = "gates" /\ UNCHANGED listening
          /\ child' = [c \in Children |-> IF c \in Services THEN "alive" ELSE child[c]]
  /\ UNCHANGED <<outerVars, shutdown, retain, signals, infra, diedFirst, innerExit, orphans>>

\* The readiness gates and the summary: each service answers, or its time is
\* up and the stack has failed.
AfterGates ==
  /\ mainFlow = "gates"
  /\ IF Aborted THEN ReturnFromMain /\ UNCHANGED failed
     ELSE /\ failed' \in {failed, TRUE}
          /\ mainFlow' = IF failed' THEN "failing" ELSE "ready"
          /\ UNCHANGED listening
  /\ UNCHANGED <<outerVars, shutdown, retain, signals, child, infra, diedFirst,
                 innerExit, orphans>>

\* After the failure summary the main flow shuts down itself.
FailureShutdown ==
  /\ mainFlow = "failing"
  /\ RequestShutdown(TRUE)
  /\ mainFlow' = "ready"
  /\ UNCHANGED <<outerVars, listening, retain, signals, child, infra, diedFirst,
                 innerExit, orphans>>

\* Waiting for shutdownPromise, or for the shutdown it asked for itself.
AfterShutdown ==
  /\ mainFlow \in {"ready", "closing"}
  /\ shutdown = "done"
  /\ ReturnFromMain
  /\ UNCHANGED <<outerVars, shutdown, failed, retain, signals, child, infra,
                 diedFirst, innerExit, orphans>>

---------------------------------------------------------------------------
\* onExit: a service's exit is a failure unless a shutdown is under way; the
\* build has no such callback.
Unexpected(c) == c \in Services /\ ~Aborted

ChildEnds(c) ==
  /\ Running
  /\ child[c] = "alive"
  /\ child' = [child EXCEPT ![c] = "gone"]
  /\ IF Unexpected(c) THEN RequestShutdown(TRUE) ELSE UNCHANGED <<shutdown, failed>>
  /\ diedFirst' = IF Aborted \/ c = Build THEN diedFirst ELSE diedFirst \cup {c}
  /\ UNCHANGED <<outerVars, mainFlow, listening, retain, signals, infra, innerExit, orphans>>

\* The grace period is a bound: what has not exited by then gets SIGKILL.
GraceOver == TRUE

\* finish, after its SIGTERM to every group: a bounded wait, SIGKILL to the
\* rest, then the infrastructure unless a reload keeps it.
FinishReap ==
  /\ Running /\ shutdown = "reaping"
  /\ GraceOver
  /\ child' = [c \in Children |-> IF child[c] = "alive" THEN "gone" ELSE child[c]]
  /\ shutdown' = "infra"
  /\ UNCHANGED <<outerVars, mainFlow, listening, failed, retain, signals, infra,
                 diedFirst, innerExit, orphans>>

FinishInfra ==
  /\ Running /\ shutdown = "infra"
  /\ infra' = (infra /\ retain)
  /\ shutdown' = "done"
  /\ UNCHANGED <<outerVars, mainFlow, listening, failed, retain, signals, child,
                 diedFirst, innerExit, orphans>>

\* The launcher is gone; a child it leaves running is nobody's.
InnerGone(how) ==
  /\ mainFlow' = "absent" /\ listening' = FALSE /\ signals' = NoSignals
  /\ innerExit' = how
  /\ orphans' = orphans \cup {c \in Children : child[c] = "alive"}

\* onSignal and onReload; without a handler a signal ends the process.
TakeSignal(s) ==
  /\ Running /\ mainFlow # "infra"
  /\ signals[s] > 0
  /\ IF listening
     THEN /\ signals' = [signals EXCEPT ![s] = @ - 1]
          /\ retain' = (retain \/ s = "usr2")
          /\ RequestShutdown(FALSE)
          /\ UNCHANGED <<mainFlow, listening, innerExit, orphans>>
     ELSE InnerGone("killed") /\ UNCHANGED <<retain, shutdown, failed>>
  /\ UNCHANGED <<outerVars, child, infra, diedFirst>>

\* exitCodeFor (143 after SIGTERM counts as a clean end here).
ExitCodeFor == IF failed THEN "failed" ELSE "clean"

\* The process ends once main has returned and nothing is left to await.
InnerExits ==
  /\ mainFlow = "returned"
  /\ shutdown \in {"no", "done"}
  /\ InnerGone(ExitCodeFor)
  /\ UNCHANGED <<outerVars, shutdown, failed, retain, child, infra, diedFirst>>

---------------------------------------------------------------------------
\* cleanup: the watcher's last act always takes the infrastructure down.
TearDown == infra' = FALSE

\* The launcher's exit event: the next generation, or the end.
OnInnerExit ==
  /\ outer # "gone"
  /\ ~Running
  /\ debounce' = FALSE
  /\ restarting' = FALSE
  /\ IF outer = "watching" /\ restarting
     THEN Launched /\ UNCHANGED <<outer, infra, orphans>>
     ELSE /\ outer' = "gone" /\ TearDown
          /\ UNCHANGED <<mainFlow, listening, shutdown, failed, retain, signals, child,
                         diedFirst, innerExit, orphans>>
  /\ UNCHANGED <<savedEdits, interrupts>>

\* changed: a real change (re)starts the timer.
SourceChanges ==
  /\ outer = "watching"
  /\ savedEdits < Edits
  /\ savedEdits' = savedEdits + 1
  /\ debounce' = TRUE
  /\ UNCHANGED <<outer, restarting, interrupts, mainFlow, listening, shutdown, failed,
                 retain, signals, child, infra, diedFirst, innerExit, orphans>>

\* The timer: the launcher is asked to leave.  One that has ended meanwhile,
\* whose exit is not handled yet, is replaced all the same.
DebounceFires ==
  /\ debounce /\ outer = "watching"
  /\ debounce' = FALSE
  /\ restarting' = TRUE
  /\ signals' = IF Running THEN [signals EXCEPT !.usr2 = @ + 1] ELSE signals
  /\ UNCHANGED <<outer, savedEdits, interrupts, mainFlow, listening, shutdown, failed, retain,
                 child, infra, diedFirst, innerExit, orphans>>

\* Ctrl-C reaches the whole foreground group, and the watcher's handler sends
\* the launcher a second SIGINT.
CtrlC ==
  /\ outer # "gone"
  /\ interrupts < Interrupts
  /\ interrupts' = interrupts + 1
  /\ outer' = "stopping"
  /\ debounce' = FALSE
  /\ signals' = IF Running THEN [signals EXCEPT !.int = @ + 2] ELSE signals
  /\ UNCHANGED <<restarting, savedEdits, mainFlow, listening, shutdown, failed, retain, child,
                 infra, diedFirst, innerExit, orphans>>

MainFlow == AfterBuild \/ AfterInfra \/ AfterDatabase \/ AfterGates
            \/ FailureShutdown \/ AfterShutdown
FinishStack == FinishReap \/ FinishInfra

LauncherNext ==
  \/ MainFlow \/ FinishStack \/ InnerExits \/ OnInnerExit
  \/ \E c \in Children : ChildEnds(c)
  \/ \E s \in {"int", "usr2"} : TakeSignal(s)
  \/ SourceChanges \/ DebounceFires \/ CtrlC

LauncherSpec == LauncherInit /\ [][LauncherNext]_launcherVars

---------------------------------------------------------------------------
\* A launcher that reports success had no service exit on it: whatever phase
\* a service ends in, the stack is marked failed first (runLauncher onExit).
CleanExitMeansNoFailure == innerExit = "clean" => diedFirst = {}

\* When the watcher is gone the infrastructure is down, although a reload
\* made the launcher keep it (cleanup).
InfrastructureIsTornDown == outer = "gone" => ~infra

\* No orphaned detached process groups, as the header of dev.mjs promises: no
\* child outlives the launcher that started it.
NoOrphanedGroups == orphans = {}

\* An interrupted stack comes to its end, whether or not a service reacts to
\* SIGTERM and whatever phase it was in (finish).
InterruptedStackStops == outer = "stopping" ~> outer = "gone"
=============================================================================
