--------------------------- MODULE WorkerContract ---------------------------
(***************************************************************************)
(* What an agent worker promises the control plane, whatever its language: *)
(* an invocation is taken on at most once at a time and only while the     *)
(* worker runs, whatever it took on is settled, and stop() resolves when   *)
(* nothing it took on is open.  "Accepted queued runs become cancellation  *)
(* callbacks when shutdown begins ... stop() does not resolve until        *)
(* tracked callback work settles" (packages/worker/README.md).             *)
(***************************************************************************)
CONSTANTS
  Taken,      \* requests that may be taken on
  KeyOf       \* the invocation of each of them

VARIABLES
  life,       \* "down", "up", "stopping" or "stopped"
  work        \* "none", "open" or "settled", for each request

TakeOn(r) ==
  /\ life = "up" /\ work[r] = "none"
  /\ \A q \in Taken : KeyOf[q] = KeyOf[r] => work[q] # "open"
  /\ work' = [work EXCEPT ![r] = "open"] /\ UNCHANGED life

SettleOne(r) ==
  /\ work[r] = "open"
  /\ work' = [work EXCEPT ![r] = "settled"] /\ UNCHANGED life

ComeUp == life = "down" /\ life' = "up" /\ UNCHANGED work
BeginStop == life \in {"down", "up"} /\ life' = "stopping" /\ UNCHANGED work
EndStop ==
  /\ life \in {"down", "stopping"} /\ \A r \in Taken : work[r] # "open"
  /\ life' = "stopped" /\ UNCHANGED work

ContractInit == life = "down" /\ work = [r \in Taken |-> "none"]
ContractNext ==
  \/ \E r \in Taken : TakeOn(r) \/ SettleOne(r)
  \/ ComeUp \/ BeginStop \/ EndStop

ContractSpec == ContractInit /\ [][ContractNext]_<<life, work>>
=============================================================================
