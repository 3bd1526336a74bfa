--------------------------- MODULE WorkAuthority ---------------------------
(***************************************************************************)
(* What the orchestrator promises about the authority to do work, without  *)
(* tables, leases, transports or sweeps: attempts of a step are granted    *)
(* one after the other and only while the run is RUNNING, at most one of   *)
(* them is in progress, each is settled at most once, and the run ends at  *)
(* most once.  Runtime implements this specification.                      *)
(***************************************************************************)
EXTENDS Integers

CONSTANTS Steps, Limit

VARIABLES
  run,   \* status of the execution
  work   \* attempt -> "none", "waiting", "active" or how it was settled

Items == Steps \X (1 .. Limit)
Ended == {"COMPLETED", "FAILED", "CANCELLED"}
Settled == {"SUCCESS", "FAILED", "TIMED_OUT", "CANCELLED"}

Init ==
  /\ run = "PENDING"
  /\ work = [i \in Items |-> "none"]

Idle(s) == \A i \in Items : i[1] = s => work[i] # "active"

\* The run may end with any step, once.
MayEnd == run' = run \/ (run \notin Ended /\ run' \in Ended)

Start ==
  /\ run = "PENDING"
  /\ run' = "RUNNING"
  /\ UNCHANGED work

\* The next attempt of a step: put in progress, held for approval, or
\* recorded as refused.
Grant(i) ==
  /\ run = "RUNNING"
  /\ Idle(i[1])
  /\ \A j \in Items : j[1] = i[1] => (work[j] = "none" <=> j[2] >= i[2])
  /\ \E w \in {"active", "waiting", "FAILED"} :
       /\ work' = [work EXCEPT ![i] = w]
       /\ w # "FAILED" => run' = run
  /\ MayEnd

Resume(i) ==
  /\ work[i] = "waiting"
  /\ Idle(i[1])
  /\ work' = [work EXCEPT ![i] = "active"]
  /\ UNCHANGED run

\* Outcomes arrive for work that has none yet.
Settle ==
  /\ MayEnd
  /\ \E done \in SUBSET {i \in Items : work[i] \in {"waiting", "active"}} :
       \E outcome \in Settled :
         work' = [i \in Items |-> IF i \in done THEN outcome ELSE work[i]]

Next ==
  \/ Start
  \/ \E i \in Items : Grant(i) \/ Resume(i)
  \/ Settle

Spec == Init /\ [][Next]_<<run, work>>
=============================================================================
