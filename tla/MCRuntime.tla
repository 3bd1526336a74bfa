----------------------------- MODULE MCRuntime -----------------------------
(***************************************************************************)
(* Instances of Runtime for TLC: pipelines of one or two steps, one or two *)
(* dispatchers, and the patches, gates and policies each run needs.        *)
(***************************************************************************)
EXTENDS Runtime, TLC

CONSTANTS s1, s2, d1, d2, r1, r2, p1, p2

NoDeps == [s \in Steps |-> {}]
AllRetry == [s \in Steps |-> "retry"]
TwoAttempts == [s \in Steps |-> 2]
Chain == [s \in Steps |-> IF s = s2 THEN {s1} ELSE {}]
RetryThenStop == [s \in Steps |-> IF s = s1 THEN "retry" ELSE "stop"]
ContinueThenRetry == [s \in Steps |-> IF s = s1 THEN "continue" ELSE "retry"]
OneThenTwo == [s \in Steps |-> IF s = s1 THEN 1 ELSE 2]
TwoThenOne == [s \in Steps |-> IF s = s1 THEN 2 ELSE 1]
StopThenContinue == [s \in Steps |-> IF s = s1 THEN "stop" ELSE "continue"]
OneEach == [s \in Steps |-> 1]
AddsSecond == [p \in Proposals |-> IF p = p1 THEN {s2} ELSE {}]
ReplacesFirst == [p \in Proposals |-> IF p = p2 THEN {s1} ELSE {}]
SecondGated == [p \in Proposals |-> IF p = p2 THEN "REQUIRE_APPROVAL" ELSE "ALLOW"]
NoPatch == [p \in Proposals |-> {}]
AllAllowed == [p \in Proposals |-> "ALLOW"]

DispatcherSymmetry == Permutations(Dispatchers)
=============================================================================
