----------------------------- MODULE EdgeProofs -----------------------------
(***************************************************************************)
(* What holds of the processes around the orchestrator for every set of    *)
(* requests, runs and crashes: hosts account for every process group,      *)
(* workers keep their contract, maintenance never loses the authoritative  *)
(* database, and the launcher reports failures and takes down what it      *)
(* started.  Each component has its inductive invariant; the edge, whose   *)
(* components rest out of focus, implements each of them.                  *)
(***************************************************************************)
EXTENDS MCEdge, FiniteSetTheorems, SequenceTheorems, TLAPS

\* A set with at most one member is finite and counts at most one.
LEMMA AtMostOne ==
  ASSUME NEW S, \A x, y \in S : x = y
  PROVE  IsFiniteSet(S) /\ Cardinality(S) \in 0..1 /\ (Cardinality(S) < 1 <=> S = {})
PROOF
  <1>1. CASE S = {}
    BY <1>1, FS_EmptySet
  <1>2. CASE S # {}
    <2>1. PICK x \in S : TRUE
      BY <1>2
    <2>2. S = {x}
      BY <2>1
    <2>3. IsFiniteSet(S) /\ Cardinality(S) = 1
      BY <2>2, FS_Singleton
    <2> QED
      BY <1>2, <2>3
  <1> QED
    BY <1>1, <1>2

\* A queue without repetitions, and what it holds.
Distinct(q) == \A j, k \in 1 .. Len(q) : q[j] = q[k] => j = k
Holds(q, x) == \E k \in 1 .. Len(q) : q[k] = x

\* Taking the first n of a queue takes n members and leaves the others.
LEMMA TakeFirst ==
  ASSUME NEW S, NEW q \in Seq(S), Distinct(q), NEW n \in 0 .. Len(q)
  PROVE  /\ SubSeq(q, n + 1, Len(q)) \in Seq(S) /\ Distinct(SubSeq(q, n + 1, Len(q)))
         /\ Len(SubSeq(q, n + 1, Len(q))) = Len(q) - n
         /\ \A x : Holds(SubSeq(q, n + 1, Len(q)), x) <=> Holds(q, x) /\ x \notin {q[k] : k \in 1 .. n}
         /\ \A x \in {q[k] : k \in 1 .. n} : x \in S /\ Holds(q, x)
         /\ IsFiniteSet({q[k] : k \in 1 .. n})
PROOF
  <1> DEFINE first == {q[k] : k \in 1 .. n}
             rest == SubSeq(q, n + 1, Len(q))
             l == Len(q)
  <1>0. l \in Nat /\ n \in Nat /\ n <= l /\ \A k \in 1 .. l : q[k] \in S
    OBVIOUS
  <1>1. rest \in Seq(S) /\ Len(rest) = l - n /\ \A k \in 1 .. l - n : rest[k] = q[n + k]
    <2>1. \A k \in n + 1 .. l : q[k] \in S
      BY <1>0
    <2>2. n + 1 \in Int /\ l \in Int
      BY <1>0
    <2>3. /\ rest \in Seq(S) /\ Len(rest) = IF n + 1 <= l THEN l - (n + 1) + 1 ELSE 0
          /\ \A k \in 1 .. l - (n + 1) + 1 : rest[k] = q[(n + 1) + k - 1]
      BY <2>1, <2>2, SubSeqProperties
    <2> HIDE DEF rest, l
    <2>4. l - (n + 1) + 1 = l - n /\ \A k \in Int : (n + 1) + k - 1 = n + k
      BY <1>0
    <2> QED
      BY <1>0, <2>3, <2>4
  <1>2. /\ \A x \in first : x \in S /\ Holds(q, x)
        /\ \A x : x \in first <=> \E k \in 1 .. n : q[k] = x
    BY <1>0 DEF Holds
  <1>d. \A j, k \in 1 .. l : q[j] = q[k] => j = k
    BY DEF Distinct
  <1>3. IsFiniteSet(first)
    <2> DEFINE f == [k \in 1 .. n |-> q[k]]
    <2>1. f \in Surjection(1 .. n, first)
      BY DEF Surjection
    <2>2. IsFiniteSet(1 .. n)
      BY FS_Interval, <1>0
    <2> HIDE DEF f, first
    <2> QED
      BY <2>1, <2>2, FS_Surjection
  <1> HIDE DEF rest, first, l
  <1>4. Distinct(rest)
    <2>1. \A j, k \in 1 .. l - n : rest[j] = rest[k] => j = k
      BY <1>0, <1>1, <1>d
    <2> QED
      BY <2>1, <1>1 DEF Distinct
  <1>5. ASSUME NEW x
        PROVE  Holds(rest, x) <=> Holds(q, x) /\ x \notin first
    <2>1. ASSUME Holds(rest, x)
          PROVE  Holds(q, x) /\ x \notin first
      <3>1. PICK k \in 1 .. l - n : rest[k] = x
        BY <2>1, <1>1 DEF Holds
      <3>2. n + k \in 1 .. l /\ q[n + k] = x /\ n + k \notin 1 .. n
        BY <3>1, <1>0, <1>1
      <3>3. x \notin first
        BY <3>2, <1>0, <1>2, <1>d
      <3> QED
        BY <3>2, <3>3 DEF Holds, l
    <2>2. ASSUME Holds(q, x), x \notin first
          PROVE  Holds(rest, x)
      <3>1. PICK k \in 1 .. l : q[k] = x
        BY <2>2 DEF Holds, l
      <3>2. k \notin 1 .. n
        BY <3>1, <2>2, <1>2
      <3>3. k - n \in 1 .. l - n /\ n + (k - n) = k
        BY <3>2, <1>0
      <3>4. rest[k - n] = x
        BY <3>1, <3>3, <1>1
      <3> QED
        BY <3>3, <3>4, <1>1 DEF Holds
    <2> QED
      BY <2>1, <2>2
  <1> QED
    BY <1>1, <1>2, <1>3, <1>4, <1>5 DEF first, rest, l

FirstOf(q, n) == {q[k] : k \in 1 .. n}

LEMMA FirstCount ==
  ASSUME NEW S, NEW q \in Seq(S), Distinct(q), NEW n \in 0 .. Len(q)
  PROVE  Cardinality(FirstOf(q, n)) = n
PROOF
  <1> DEFINE first == {q[k] : k \in 1 .. n}
             f == [k \in 1 .. n |-> q[k]]
  <1>0. n \in Nat /\ n <= Len(q)
    OBVIOUS
  <1>1. f \in Surjection(1 .. n, first)
    BY DEF Surjection
  <1>2. \A j, k \in 1 .. n : f[j] = f[k] => j = k
    BY <1>0 DEF Distinct
  <1>3. f \in Injection(1 .. n, first)
    BY <1>2 DEF Injection, IsInjective
  <1>4. IsFiniteSet(1 .. n) /\ Cardinality(1 .. n) = n
    <2>1. /\ IsFiniteSet(1 .. n) /\ Cardinality(1 .. n) = IF 1 > n THEN 0 ELSE n - 1 + 1
      BY FS_Interval, <1>0
    <2> QED
      BY <2>1, <1>0
  <1>5. FirstOf(q, n) = first
    BY DEF FirstOf
  <1> HIDE DEF f, first
  <1> QED
    BY <1>1, <1>3, <1>4, <1>5, FS_Surjection

\* Putting a new member at the end of a queue.
LEMMA PutLast ==
  ASSUME NEW S, NEW q \in Seq(S), Distinct(q), NEW e \in S, ~Holds(q, e)
  PROVE  /\ Append(q, e) \in Seq(S) /\ Distinct(Append(q, e)) /\ Len(Append(q, e)) = Len(q) + 1
         /\ \A x : Holds(Append(q, e), x) <=> Holds(q, x) \/ x = e
PROOF
  <1> DEFINE p == Append(q, e)
             l == Len(q)
  <1>1. p \in Seq(S) /\ Len(p) = l + 1 /\ p[l + 1] = e /\ \A k \in 1 .. l : p[k] = q[k]
    BY AppendProperties
  <1>2. l \in Nat /\ \A k \in 1 .. l + 1 : k \in 1 .. l \/ k = l + 1
    OBVIOUS
  <1>3. (\A j, k \in 1 .. l : q[j] = q[k] => j = k) /\ \A k \in 1 .. l : q[k] # e
    BY DEF Distinct, Holds
  <1> HIDE DEF p, l
  <1>4. Distinct(p)
    BY <1>1, <1>2, <1>3 DEF Distinct
  <1>5. \A x : Holds(p, x) <=> Holds(q, x) \/ x = e
    <2>1. \A x : Holds(q, x) <=> \E k \in 1 .. l : q[k] = x
      BY DEF Holds, l
    <2>2. \A x : Holds(p, x) <=> \E k \in 1 .. l + 1 : p[k] = x
      BY <1>1 DEF Holds
    <2>3. l + 1 \in 1 .. l + 1 /\ \A k \in 1 .. l : k \in 1 .. l + 1
      BY <1>2
    <2> QED
      BY <2>1, <2>2, <2>3, <1>1, <1>2
  <1> QED
    BY <1>1, <1>4, <1>5 DEF p, l

LEMMA EmptyQueue == Distinct(<<>>) /\ \A x : ~Holds(<<>>, x)
PROOF
  BY DEF Distinct, Holds

(***************************************************************************)
(* The local executor host                                                 *)
(***************************************************************************)

\* One run is watched at a time, by a host that serves.
OneIsWatched ==
  /\ \A i, j \in HostRuns : Watched(i) /\ Watched(j) => i = j
  /\ host # "serving" => \A i \in HostRuns : ~Watched(i)

\* What the state file names: the recorded run that is watched, or the
\* recorded child a crash left alive, until the sweep has dealt with it.
FileNamesGroup ==
  /\ \A i \in HostRuns : sup[i].pc = "spawned" => ~sup[i].recorded
  /\ \A i \in HostRuns : sup[i].pc = "watching" /\ sup[i].recorded => file = i
  /\ \A i \in HostRuns : sup[i].pc = "lost" /\ sup[i].recorded /\ leader[i] = "alive" =>
       host # "serving" /\ file = i
  /\ host = "grace" => file # NoState

HostInv ==
  /\ HostTypeOK
  /\ OneIsWatched
  /\ FileNamesGroup
  /\ \A i \in HostRuns : sup[i].pc = "idle" => leader[i] = "none" /\ ~kin[i] /\ ~sup[i].recorded
  /\ SettledGroupIsGone

SupRows == [pc : {"idle", "spawned", "watching", "settled", "lost"}, fired : SUBSET Triggers, trigger : Triggers,
            limitHit : BOOLEAN, recorded : BOOLEAN, outcome : HostOutcomes]

\* The field a step reads or writes is where the row type says it is.
LEMMA SupRowFields ==
  ASSUME NEW v \in SupRows
  PROVE  /\ v.pc \in {"idle", "spawned", "watching", "settled", "lost"} /\ v.recorded \in BOOLEAN
         /\ v.fired \subseteq Triggers
         /\ \A p \in {"idle", "spawned", "watching", "settled", "lost"} : [v EXCEPT !.pc = p] \in SupRows
         /\ \A p \in {"idle", "spawned", "watching", "settled", "lost"}, o \in HostOutcomes :
              [v EXCEPT !.pc = p, !.outcome = o] \in SupRows
         /\ \A p \in {"idle", "spawned", "watching", "settled", "lost"}, b \in BOOLEAN :
              [v EXCEPT !.pc = p, !.recorded = b] \in SupRows
         /\ [v EXCEPT !.limitHit = TRUE] \in SupRows /\ [v EXCEPT !.recorded = FALSE] \in SupRows
         /\ \A f \in SUBSET Triggers, t \in Triggers : [v EXCEPT !.fired = f, !.trigger = t] \in SupRows
PROOF
  BY DEF SupRows

\* Without the bridge a slot is free only when nothing is watched.
LEMMA SlotMeansNoneWatched ==
  ASSUME ~Bridge, OneIsWatched, HasSlot
  PROVE  \A i \in HostRuns : ~Watched(i)
PROOF
  <1> DEFINE S == {i \in HostRuns : Watched(i)}
  <1>1. Cardinality(S) < 1
    BY DEF HasSlot, Slots
  <1>2. \A x, y \in S : x = y
    BY DEF OneIsWatched
  <1> HIDE DEF S
  <1>3. S = {}
    BY <1>1, <1>2, AtMostOne
  <1> QED
    BY <1>3 DEF S

LEMMA HostInitHolds == HostInit => HostInv
PROOF
  <1> SUFFICES ASSUME HostInit PROVE HostInv
    OBVIOUS
  <1>1. IdleRun \in SupRows /\ IdleRun.pc = "idle" /\ ~IdleRun.recorded
    BY DEF IdleRun, SupRows, Triggers, HostOutcomes
  <1>2. \A i \in HostRuns : sup[i] = IdleRun /\ leader[i] = "none" /\ kin[i] = FALSE
    BY DEF HostInit
  <1>3. sup \in [HostRuns -> SupRows]
    BY <1>1 DEF HostInit
  <1>4. HostTypeOK
    <2>0. HostCrashLimit \in Nat
      BY HostAssumption
    <2>1. hostCrashes \in 0..HostCrashLimit
      BY <2>0 DEF HostInit
    <2> QED
      BY <1>3, <2>1 DEF HostInit, HostTypeOK, SupRows
  <1>5. OneIsWatched /\ FileNamesGroup
    BY <1>1, <1>2 DEF OneIsWatched, FileNamesGroup, Watched, HostInit
  <1> QED
    BY <1>1, <1>2, <1>4, <1>5 DEF HostInv, SettledGroupIsGone

LEMMA HostStep ==
  ASSUME ~Bridge, HostInv, [HostNext]_hostVars
  PROVE  HostInv'
PROOF
  <1> USE DEF HostInv, HostTypeOK
  <1>t. sup \in [HostRuns -> SupRows] /\ (sup' \in [HostRuns -> SupRows] => sup' \in [HostRuns ->
          [pc : {"idle", "spawned", "watching", "settled", "lost"}, fired : SUBSET Triggers, trigger : Triggers,
           limitHit : BOOLEAN, recorded : BOOLEAN, outcome : HostOutcomes]])
    BY DEF SupRows
  <1>s. \A i \in HostRuns : sup[i] \in SupRows
    BY <1>t
  <1>1. CASE UNCHANGED hostVars
    BY <1>1 DEF hostVars, OneIsWatched, FileNamesGroup, Watched, SettledGroupIsGone
  <1>2. CASE Crash
    <2>1. /\ host' = "down" /\ UNCHANGED <<file, leader, kin>> /\ hostCrashes' \in 0..HostCrashLimit
          /\ sup' = [i \in HostRuns |-> IF Watched(i) THEN [sup[i] EXCEPT !.pc = "lost"] ELSE sup[i]]
      <3>0. HostCrashLimit \in Nat
        BY HostAssumption
      <3>1. hostCrashes' \in 0..HostCrashLimit
        BY <1>2, <3>0 DEF Crash
      <3> QED
        BY <3>1, <1>2 DEF Crash
    <2>2. sup' \in [HostRuns -> SupRows]
      BY <2>1, <1>s, SupRowFields
    <2>3. \A i \in HostRuns : /\ sup'[i].recorded = sup[i].recorded
                              /\ sup'[i].pc = IF Watched(i) THEN "lost" ELSE sup[i].pc
      BY <2>1, <1>s DEF SupRows
    <2>4. \A i \in HostRuns : sup'[i].pc \notin {"spawned", "watching"}
      BY <2>3 DEF Watched
    <2>5. OneIsWatched'
      BY <2>4 DEF OneIsWatched, Watched
    <2>6. FileNamesGroup'
      <3>1. ASSUME NEW i \in HostRuns, sup'[i].pc = "lost", sup'[i].recorded, leader'[i] = "alive"
            PROVE  file' = i
        BY <3>1, <2>1, <2>3 DEF FileNamesGroup, Watched
      <3> QED
        BY <3>1, <2>1, <2>4 DEF FileNamesGroup
    <2>7. SettledGroupIsGone' /\ \A i \in HostRuns : sup'[i].pc = "idle" => leader'[i] = "none" /\ ~kin'[i] /\ ~sup'[i].recorded
      BY <2>1, <2>3 DEF SettledGroupIsGone
    <2> QED
      BY <2>1, <2>2, <2>5, <2>6, <2>7, <1>t
  <1>3. CASE RestartHost
    BY <1>3 DEF RestartHost, OneIsWatched, FileNamesGroup, Watched, SettledGroupIsGone
  <1>4. CASE Sweep
    <2>n. host = "sweeping" /\ UNCHANGED <<kin, hostCrashes>>
      BY <1>4 DEF Sweep
    <2>1. CASE /\ file \notin {i \in HostRuns : leader[i] = "alive"}
               /\ file' = NoState /\ host' = "serving" /\ UNCHANGED <<leader, sup>>
      BY <2>1, <2>n DEF OneIsWatched, FileNamesGroup, Watched, SettledGroupIsGone
    <2>2. CASE /\ file # NoState /\ leader[file] = "alive"
               /\ file' = NoState /\ host' = "serving"
               /\ sup' = [sup EXCEPT ![file].recorded = FALSE]
               /\ UNCHANGED leader
      <3>0. file \in HostRuns
        BY <2>2
      <3>1. sup' \in [HostRuns -> SupRows]
        BY <3>0, <2>2, <1>s, <1>t, SupRowFields
      <3>2. \A i \in HostRuns : /\ sup'[i].pc = sup[i].pc
                                /\ sup'[i].recorded = IF i = file THEN FALSE ELSE sup[i].recorded
        BY <3>0, <2>2, <1>s, <1>t DEF SupRows
      <3>3. OneIsWatched'
        BY <3>2, <2>n, <2>2 DEF OneIsWatched, Watched
      <3>4. FileNamesGroup'
        BY <3>2, <2>2, <2>n DEF FileNamesGroup, OneIsWatched, Watched
      <3> QED
        BY <3>1, <3>2, <3>3, <3>4, <1>t, <2>2, <2>n DEF SettledGroupIsGone
    <2>3. CASE /\ file # NoState /\ leader[file] = "alive" /\ host' = "grace"
               /\ \E how \in {"alive", "SIGTERM", "exit0"} : leader' = [leader EXCEPT ![file] = how]
               /\ UNCHANGED <<file, sup>>
      <3>1. leader' \in [HostRuns -> {"none", "alive"} \cup ChildExitCodes]
        BY <2>3 DEF ChildExitCodes
      <3>2. \A i \in HostRuns : i # file => leader'[i] = leader[i]
        BY <2>3
      <3>3. OneIsWatched' /\ FileNamesGroup'
        BY <2>3, <2>n, <3>2 DEF OneIsWatched, Watched, FileNamesGroup
      <3>4. SettledGroupIsGone' /\ \A i \in HostRuns : sup'[i].pc = "idle" => leader'[i] = "none" /\ ~kin'[i] /\ ~sup'[i].recorded
        BY <2>3, <2>n, <3>2 DEF SettledGroupIsGone
      <3> QED
        BY <3>1, <3>3, <3>4, <2>3, <2>n
    <2> QED
      BY <2>1, <2>2, <2>3, <1>4 DEF Sweep
  <1>5. CASE SweepGrace
    <2>0. file \in HostRuns
      BY <1>5 DEF SweepGrace, FileNamesGroup
    <2>1. /\ host = "grace" /\ file' = NoState /\ host' = "serving" /\ UNCHANGED <<sup, hostCrashes>>
          /\ leader' = [leader EXCEPT ![file] = IF leader[file] = "alive" THEN "SIGKILL" ELSE leader[file]]
          /\ kin' = [kin EXCEPT ![file] = IF leader[file] = "alive" THEN FALSE ELSE kin[file]]
      BY <1>5, <2>0 DEF SweepGrace
    <2>2. /\ \A i \in HostRuns : leader'[i] = IF i = file /\ leader[file] = "alive" THEN "SIGKILL" ELSE leader[i]
          /\ \A i \in HostRuns : kin'[i] = IF i = file /\ leader[file] = "alive" THEN FALSE ELSE kin[i]
      BY <2>0, <2>1
    <2>3. leader' \in [HostRuns -> {"none", "alive"} \cup ChildExitCodes] /\ kin' \in [HostRuns -> BOOLEAN]
      BY <2>0, <2>1 DEF ChildExitCodes
    <2>4. OneIsWatched' /\ FileNamesGroup'
      BY <2>1, <2>2 DEF OneIsWatched, Watched, FileNamesGroup
    <2>5. SettledGroupIsGone' /\ \A i \in HostRuns : sup'[i].pc = "idle" => leader'[i] = "none" /\ ~kin'[i] /\ ~sup'[i].recorded
      BY <2>1, <2>2 DEF SettledGroupIsGone
    <2> QED
      BY <2>1, <2>3, <2>4, <2>5
  <1>6. ASSUME NEW i \in HostRuns, Refuse(i)
        PROVE  HostInv'
    <2>1. /\ host = "serving" /\ sup[i].pc = "idle" /\ UNCHANGED <<host, file, leader, kin, hostCrashes>>
          /\ sup' = [sup EXCEPT ![i] = [sup[i] EXCEPT !.pc = "settled", !.outcome = "refused"]]
      BY <1>6, <1>s, <1>t DEF Refuse
    <2>2. sup' \in [HostRuns -> SupRows]
      BY <2>1, <1>s, <1>t, SupRowFields DEF HostOutcomes
    <2>3. \A j \in HostRuns : /\ sup'[j].recorded = sup[j].recorded
                              /\ sup'[j].pc = IF j = i THEN "settled" ELSE sup[j].pc
      BY <2>1, <1>s, <1>t DEF SupRows
    <2>4. OneIsWatched' /\ FileNamesGroup'
      BY <2>1, <2>3 DEF OneIsWatched, Watched, FileNamesGroup
    <2> QED
      BY <2>1, <2>2, <2>3, <2>4, <1>t DEF SettledGroupIsGone
  <1>7. ASSUME NEW i \in HostRuns, Spawn(i)
        PROVE  HostInv'
    <2>0. host = "serving" /\ sup[i].pc = "idle" /\ UNCHANGED <<host, kin, hostCrashes>>
          /\ \A j \in HostRuns : ~Watched(j)
      BY <1>7, SlotMeansNoneWatched DEF Spawn
    <2>1. CASE /\ sup' = [sup EXCEPT ![i].pc = "spawned"]
               /\ leader' = [leader EXCEPT ![i] = "alive"]
               /\ UNCHANGED file
      <3>1. sup' \in [HostRuns -> SupRows] /\ leader' \in [HostRuns -> {"none", "alive"} \cup ChildExitCodes]
        BY <2>1, <1>s, <1>t, SupRowFields
      <3>2. \A j \in HostRuns : /\ sup'[j].recorded = sup[j].recorded
                                /\ sup'[j].pc = IF j = i THEN "spawned" ELSE sup[j].pc
                                /\ j # i => leader'[j] = leader[j]
        BY <2>1, <1>s, <1>t DEF SupRows
      <3>3. OneIsWatched'
        BY <2>0, <3>2 DEF OneIsWatched, Watched
      <3>4. FileNamesGroup'
        BY <2>0, <2>1, <3>2 DEF FileNamesGroup, Watched
      <3>5. SettledGroupIsGone' /\ \A j \in HostRuns : sup'[j].pc = "idle" => leader'[j] = "none" /\ ~kin'[j] /\ ~sup'[j].recorded
        BY <2>0, <2>1, <3>2 DEF SettledGroupIsGone
      <3> QED
        BY <3>1, <3>3, <3>4, <3>5, <2>0, <2>1, <1>t
    <2>2. CASE /\ sup' = [sup EXCEPT ![i].pc = "settled", ![i].outcome = "spawn_failed"]
               /\ file' = NoState
               /\ UNCHANGED leader
      <3>0. sup' = [sup EXCEPT ![i] = [sup[i] EXCEPT !.pc = "settled", !.outcome = "spawn_failed"]]
        BY <2>2, <1>s, <1>t
      <3>1. sup' \in [HostRuns -> SupRows]
        BY <3>0, <1>s, <1>t, SupRowFields DEF HostOutcomes
      <3>2. \A j \in HostRuns : /\ sup'[j].recorded = sup[j].recorded
                                /\ sup'[j].pc = IF j = i THEN "settled" ELSE sup[j].pc
        BY <3>0, <1>s, <1>t DEF SupRows
      <3>3. OneIsWatched' /\ FileNamesGroup'
        BY <2>0, <2>2, <3>2 DEF OneIsWatched, Watched, FileNamesGroup
      <3> QED
        BY <3>1, <3>2, <3>3, <2>0, <2>2, <1>t DEF SettledGroupIsGone
    <2> QED
      BY <2>1, <2>2, <1>7 DEF Spawn
  <1>8. ASSUME NEW i \in HostRuns, OnSpawn(i)
        PROVE  HostInv'
    <2>1. PICK written \in BOOLEAN :
            /\ sup' = [sup EXCEPT ![i].pc = "watching", ![i].recorded = written]
            /\ file' = IF written THEN i ELSE file
      BY <1>8 DEF OnSpawn
    <2>2. /\ host = "serving" /\ sup[i].pc = "spawned" /\ UNCHANGED <<host, leader, kin, hostCrashes>>
          /\ sup' = [sup EXCEPT ![i] = [sup[i] EXCEPT !.pc = "watching", !.recorded = written]]
      BY <2>1, <1>8, <1>s, <1>t DEF OnSpawn
    <2>3. sup' \in [HostRuns -> SupRows]
      BY <2>2, <1>s, <1>t, SupRowFields
    <2>4. \A j \in HostRuns : /\ sup'[j].recorded = IF j = i THEN written ELSE sup[j].recorded
                              /\ sup'[j].pc = IF j = i THEN "watching" ELSE sup[j].pc
      BY <2>2, <1>s, <1>t DEF SupRows
    <2>5. OneIsWatched'
      BY <2>2, <2>4 DEF OneIsWatched, Watched
    <2>6. FileNamesGroup'
      BY <2>1, <2>2, <2>4 DEF FileNamesGroup, OneIsWatched, Watched
    <2> QED
      BY <2>1, <2>2, <2>3, <2>4, <2>5, <2>6, <1>t DEF SettledGroupIsGone
  <1>9. ASSUME NEW i \in HostRuns, Fork(i) \/ ChildExits(i)
        PROVE  HostInv'
    <2>1. /\ leader[i] = "alive" /\ UNCHANGED <<host, file, sup, hostCrashes>>
          /\ leader' \in [HostRuns -> {"none", "alive"} \cup ChildExitCodes]
          /\ kin' \in [HostRuns -> BOOLEAN]
          /\ \A j \in HostRuns : leader'[j] = "alive" => leader[j] = "alive"
          /\ \A j \in HostRuns : j # i => leader'[j] = leader[j] /\ kin'[j] = kin[j]
      BY <1>9 DEF Fork, ChildExits, ChildExitCodes
    <2>2. sup[i].pc # "idle" /\ sup[i].pc # "settled"
      BY <2>1 DEF SettledGroupIsGone
    <2>3. OneIsWatched' /\ FileNamesGroup'
      BY <2>1 DEF OneIsWatched, Watched, FileNamesGroup
    <2> QED
      BY <2>1, <2>2, <2>3 DEF SettledGroupIsGone
  <1>10. ASSUME NEW i \in HostRuns,
                KillTimer(i) \/ OverLimit(i) \/ \E trigger \in Triggers : Escalate(i, trigger)
         PROVE  HostInv'
    <2>1. /\ host = "serving" /\ Watched(i) /\ UNCHANGED <<host, file, hostCrashes>>
          /\ leader' \in [HostRuns -> {"none", "alive"} \cup ChildExitCodes]
          /\ kin' \in [HostRuns -> BOOLEAN]
          /\ \A j \in HostRuns : leader'[j] = "alive" => leader[j] = "alive"
          /\ \A j \in HostRuns : j # i => leader'[j] = leader[j] /\ kin'[j] = kin[j]
      <3>1. CASE KillTimer(i)
        BY <3>1 DEF KillTimer, ChildExitCodes
      <3>2. CASE OverLimit(i)
        BY <3>2 DEF OverLimit, ChildExitCodes
      <3>3. CASE \E trigger \in Triggers : Escalate(i, trigger)
        BY <3>3 DEF Escalate, ChildExitCodes
      <3> QED
        BY <1>10, <3>1, <3>2, <3>3
    <2>2. sup' \in [HostRuns -> SupRows]
      <3>1. CASE KillTimer(i)
        BY <3>1, <1>t DEF KillTimer
      <3>2. CASE OverLimit(i)
        BY <3>2, <1>s, <1>t, SupRowFields DEF OverLimit
      <3>3. ASSUME NEW trigger \in Triggers, Escalate(i, trigger)
            PROVE  sup' \in [HostRuns -> SupRows]
        <4>1. sup' = [sup EXCEPT ![i] = [sup[i] EXCEPT !.fired = sup[i].fired \cup {trigger}, !.trigger = trigger]]
          BY <3>3, <1>s, <1>t DEF Escalate
        <4>2. sup[i].fired \cup {trigger} \in SUBSET Triggers
          BY <1>s, SupRowFields
        <4> QED
          BY <4>1, <4>2, <1>s, <1>t, SupRowFields
      <3> QED
        BY <1>10, <3>1, <3>2, <3>3
    <2>3. \A j \in HostRuns : sup'[j].pc = sup[j].pc /\ sup'[j].recorded = sup[j].recorded
      <3>1. CASE KillTimer(i)
        BY <3>1 DEF KillTimer
      <3>2. CASE OverLimit(i)
        BY <3>2, <1>s, <1>t DEF OverLimit, SupRows
      <3>3. CASE \E trigger \in Triggers : Escalate(i, trigger)
        BY <3>3, <1>s, <1>t DEF Escalate, SupRows
      <3> QED
        BY <1>10, <3>1, <3>2, <3>3
    <2>4. OneIsWatched' /\ FileNamesGroup'
      BY <2>1, <2>3 DEF OneIsWatched, Watched, FileNamesGroup
    <2> QED
      BY <2>1, <2>2, <2>3, <2>4, <1>t DEF SettledGroupIsGone, Watched
  <1>11. ASSUME NEW i \in HostRuns, OnExit(i)
         PROVE  HostInv'
    <2>0. HostOutcomeOf(i) \in HostOutcomes
      BY DEF HostOutcomeOf, HostOutcomes
    <2>1. /\ host = "serving" /\ sup[i].pc = "watching" /\ leader[i] \in ChildExitCodes
          /\ UNCHANGED <<host, leader, hostCrashes>> /\ file' = NoState
          /\ kin' = [kin EXCEPT ![i] = FALSE]
          /\ sup' = [sup EXCEPT ![i] = [sup[i] EXCEPT !.pc = "settled", !.outcome = HostOutcomeOf(i)]]
      BY <1>11, <1>s, <1>t DEF OnExit, GroupAfterExit
    <2>2. sup' \in [HostRuns -> SupRows]
      BY <2>0, <2>1, <1>s, <1>t, SupRowFields
    <2>3. \A j \in HostRuns : /\ sup'[j].recorded = sup[j].recorded
                              /\ sup'[j].pc = IF j = i THEN "settled" ELSE sup[j].pc
      BY <2>1, <1>s, <1>t DEF SupRows
    <2>4. OneIsWatched' /\ FileNamesGroup'
      BY <2>1, <2>3 DEF OneIsWatched, Watched, FileNamesGroup
    <2>5. SettledGroupIsGone' /\ \A j \in HostRuns : sup'[j].pc = "idle" => leader'[j] = "none" /\ ~kin'[j] /\ ~sup'[j].recorded
      BY <2>1, <2>3 DEF SettledGroupIsGone, ChildExitCodes
    <2> QED
      BY <2>1, <2>2, <2>4, <2>5, <1>t
  <1> QED
    BY <1>1, <1>2, <1>3, <1>4, <1>5, <1>6, <1>7, <1>8, <1>9, <1>10, <1>11 DEF HostNext

\* The host of registered agents knows every group: what settled is gone, what
\* it watches is the one its state file names, what a crash left is terminated
\* before it serves (superviseProcess, writeRunState, terminateOrphan).  Not
\* so of the bridge, whose runs share the file.
THEOREM HostInvariance ==
  ASSUME ~Bridge
  PROVE  HostSpec => [](SettledGroupIsGone /\ RecordedOrphanIsTerminated /\ ActiveRunIsRecorded /\ HostTypeOK)
PROOF
  <1>1. HostInv => SettledGroupIsGone /\ RecordedOrphanIsTerminated /\ ActiveRunIsRecorded /\ HostTypeOK
    BY DEF HostInv, FileNamesGroup, RecordedOrphanIsTerminated, ActiveRunIsRecorded
  <1>2. HostInv /\ [HostNext]_hostVars => HostInv'
    BY HostStep
  <1> QED
    BY <1>1, <1>2, HostInitHolds, PTL DEF HostSpec

(***************************************************************************)
(* The Rust executor host                                                  *)
(***************************************************************************)

RsPlaces == RsLive \cup {"none", "done", "lost", "orphan"}
RsOutcomes == {"none", "succeeded", "failed", "killed", "output_limit", "spawn_failed", "mismatch", "bad_path",
               "invalid_result"}
RsRows == [at : RsPlaces, trigger : {"none", "deadline", "shutdown"}, due : BOOLEAN, limit : BOOLEAN,
           tries : 0 .. RsAttempts - 1, outcome : RsOutcomes]
RsAnswers == {"new", "checked", "permitted", "accepted", "duplicate", "conflict", "full", "refused", "dropped"}
RsChildren == {"none", "alive"} \cup RsDead

RustTables ==
  /\ rsUp \in {"serving", "stopping", "down", "sweeping"} /\ rsStore \in [RsKeys -> RsPrints \cup {"none"}]
  /\ rsPost \in [RsPosts -> RsAnswers] /\ rsRun \in [RsPosts -> RsRows]
  /\ rsLeader \in [RsPosts -> RsChildren] /\ rsKin \in [RsPosts -> {"none", "holding", "quiet"}]
  /\ rsFile \in RsPosts \cup {NoFile} /\ rsCrashes \in 0 .. RsCrashLimit

\* One permit is out at a time, and none of a process that is gone.
OnePermit ==
  /\ \A r, q \in RsHolding : r = q
  /\ rsUp \in {"down", "sweeping"} =>
       \A r \in RsPosts : rsPost[r] \notin {"checked", "permitted"} /\ rsRun[r].at \notin RsLive
  /\ \A r \in RsPosts : rsPost[r] \in {"new", "checked", "permitted"} => rsRun[r].at = "none"

\* A group belongs to a run under supervision or to one a crash has cut off.
GroupHasOwner ==
  \A r \in RsPosts : RsGroupAlive(r) => rsRun[r].at \in RsSupervised \cup {"lost", "orphan"}

\* What the state file names while the host is up, and which orphan it still
\* has to name while the host is not.
RsFileNamesGroup ==
  /\ rsUp \in {"serving", "stopping"} /\ rsFile # NoFile => rsRun[rsFile].at \in RsSupervised
  /\ RsUtc => \A r \in RsPosts : rsRun[r].at = "orphan" /\ rsLeader[r] = "alive" =>
                 rsUp \in {"down", "sweeping"} /\ rsFile = r
  /\ rsUp = "sweeping" => rsFile # NoFile

RustInv ==
  /\ RustTables
  /\ OnePermit
  /\ GroupHasOwner
  /\ RsFileNamesGroup

LEMMA RustBounds ==
  /\ RsAttempts \in Nat \ {0} /\ RsCrashLimit \in Nat /\ NoFile \notin RsPosts
  /\ RsNoRun \in RsRows /\ RsNoRun.at = "none"
PROOF
  <1>1. RsAttempts \in Nat \ {0} /\ RsCrashLimit \in Nat /\ NoFile \notin RsPosts
    BY RustAssumption
  <1>2. 0 \in 0 .. RsAttempts - 1
    BY <1>1
  <1> QED
    BY <1>1, <1>2 DEF RsNoRun, RsRows, RsPlaces, RsOutcomes

LEMMA RustTypes == RustTables => RustTypeOK
PROOF
  BY DEF RustTables, RustTypeOK, RsAnswers, RsRows, RsPlaces, RsOutcomes, RsChildren

LEMMA RustInitHolds == RustInit => RustInv
PROOF
  <1> SUFFICES ASSUME RustInit PROVE RustInv
    OBVIOUS
  <1>1. \A r \in RsPosts : rsRun[r].at = "none" /\ rsPost[r] = "new" /\ rsLeader[r] = "none" /\ rsKin[r] = "none"
    BY RustBounds DEF RustInit
  <1>2. RustTables
    <2>1. rsRun \in [RsPosts -> RsRows] /\ rsCrashes \in 0 .. RsCrashLimit
      BY RustBounds DEF RustInit
    <2> QED
      BY <2>1 DEF RustTables, RustInit, RsAnswers, RsChildren
  <1>3. RsHolding = {}
    BY <1>1 DEF RsHolding, RsLive, RsSupervised
  <1> QED
    BY <1>1, <1>2, <1>3 DEF RustInv, OnePermit, GroupHasOwner, RsFileNamesGroup, RsGroupAlive, RustInit

\* Without the bridge a permit is free only when nothing holds one.
LEMMA PermitMeansNoneHeld ==
  ASSUME ~RsBridge, OnePermit, Cardinality(RsHolding) < RsSlots
  PROVE  RsHolding = {}
PROOF
  <1>1. RsSlots = 1 /\ \A r, q \in RsHolding : r = q
    BY DEF RsSlots, OnePermit
  <1> QED
    BY <1>1, AtMostOne

\* A step of a request before it has a run.
LEMMA RustRequestSteps ==
  ASSUME ~RsBridge, RustInv, NEW r \in RsPosts, RsRefuse(r) \/ RsCheck(r) \/ RsAcquire(r)
  PROVE  RustInv'
PROOF
  <1>1. /\ UNCHANGED <<rsUp, rsStore, rsRun, rsLeader, rsKin, rsFile, rsCrashes>>
        /\ \E a \in RsAnswers : rsPost' = [rsPost EXCEPT ![r] = a]
        /\ rsPost[r] \in {"new", "checked"}
    BY DEF RsRefuse, RsCheck, RsAcquire, RsAnswers
  <1>2. /\ rsPost' \in [RsPosts -> RsAnswers]
        /\ \A q \in RsPosts : q # r => rsPost'[q] = rsPost[q]
        /\ rsPost'[r] = "permitted" => rsPost[r] = "checked" /\ RsHolding = {}
        /\ rsPost'[r] = "checked" => rsUp = "serving"
    <2>1. rsPost \in [RsPosts -> RsAnswers]
      BY DEF RustInv, RustTables
    <2>2. rsPost' \in [RsPosts -> RsAnswers] /\ \A q \in RsPosts : q # r => rsPost'[q] = rsPost[q]
      BY <1>1, <2>1
    <2>3. rsPost'[r] = "permitted" => rsPost[r] = "checked" /\ RsHolding = {}
      BY <2>1, PermitMeansNoneHeld DEF RsRefuse, RsCheck, RsAcquire, RustInv
    <2>4. rsPost'[r] = "checked" => rsUp = "serving"
      BY <2>1 DEF RsRefuse, RsCheck, RsAcquire
    <2> QED
      BY <2>2, <2>3, <2>4
  <1>3. RustTables'
    BY <1>1, <1>2 DEF RustInv, RustTables
  <1>4. OnePermit'
    <2>1. \A a, b \in RsHolding' : a = b
      BY <1>1, <1>2 DEF RsHolding, OnePermit, RustInv
    <2>2. rsUp' \in {"down", "sweeping"} =>
            \A q \in RsPosts : rsPost'[q] \notin {"checked", "permitted"} /\ rsRun'[q].at \notin RsLive
      BY <1>1, <1>2 DEF OnePermit, RustInv
    <2>3. \A q \in RsPosts : rsPost'[q] \in {"new", "checked", "permitted"} => rsRun'[q].at = "none"
      BY <1>1, <1>2 DEF OnePermit, RustInv
    <2> QED
      BY <2>1, <2>2, <2>3 DEF OnePermit
  <1>5. GroupHasOwner' /\ RsFileNamesGroup'
    BY <1>1 DEF GroupHasOwner, RsFileNamesGroup, RsGroupAlive, RustInv
  <1> QED
    BY <1>3, <1>4, <1>5 DEF RustInv

\* A run moves on inside a process that is up: it keeps its permit or gives it
\* back, and its group is under supervision or gone.
LEMMA RustRunMoves ==
  ASSUME ~RsBridge, RustInv, NEW r \in RsPosts, NEW v \in RsRows,
         rsRun' = [rsRun EXCEPT ![r] = v],
         UNCHANGED <<rsUp, rsStore, rsPost, rsCrashes>>,
         rsRun[r].at \in RsLive,
         v.at \in RsLive \cup {"done"},
         rsLeader' \in [RsPosts -> RsChildren], rsKin' \in [RsPosts -> {"none", "holding", "quiet"}],
         \A q \in RsPosts : q # r => rsLeader'[q] = rsLeader[q] /\ rsKin'[q] = rsKin[q],
         rsLeader'[r] = "alive" \/ rsKin'[r] # "none" => v.at \in RsSupervised,
         rsFile' \in {rsFile, NoFile, r},
         rsFile' = r => v.at \in RsSupervised
  PROVE  RustInv'
PROOF
  <1>0. rsRun \in [RsPosts -> RsRows] /\ rsFile \in RsPosts \cup {NoFile}
    BY DEF RustInv, RustTables
  <1>1. rsRun'[r] = v /\ \A q \in RsPosts : q # r => rsRun'[q] = rsRun[q]
    BY <1>0
  <1>2. RustTables'
    <2>1. rsRun' \in [RsPosts -> RsRows] /\ rsFile' \in RsPosts \cup {NoFile}
      BY <1>0
    <2> QED
      BY <2>1 DEF RustInv, RustTables
  <1>3. rsUp \in {"serving", "stopping"}
    BY DEF RustInv, RustTables, OnePermit
  <1>4. \A q \in RsPosts : rsRun[q].at \in RsLive => q = r
    BY DEF RustInv, OnePermit, RsHolding
  <1>5. OnePermit'
    <2>1. \A q \in RsHolding' : q = r
      BY <1>1 DEF RustInv, OnePermit, RsHolding
    <2>2. \A q \in RsPosts : rsPost'[q] \in {"new", "checked", "permitted"} => rsRun'[q].at = "none"
      BY <1>1 DEF RustInv, OnePermit, RsLive, RsSupervised
    <2> QED
      BY <2>1, <2>2, <1>3 DEF OnePermit
  <1>6. GroupHasOwner'
    BY <1>1 DEF RustInv, GroupHasOwner, RsGroupAlive
  <1>7. RsFileNamesGroup'
    <2>1. rsFile' # NoFile => rsRun'[rsFile'].at \in RsSupervised
      <3>1. CASE rsFile' = r
        BY <3>1, <1>1
      <3>2. CASE rsFile' = rsFile /\ rsFile # NoFile /\ rsFile' # r
        <4>1. rsRun[rsFile].at \in RsSupervised
          BY <3>2, <1>3 DEF RustInv, RsFileNamesGroup
        <4> QED
          BY <4>1, <3>2, <1>0, <1>4 DEF RsLive
      <3> QED
        BY <3>1, <3>2
    <2>2. RsUtc => \A q \in RsPosts : ~(rsRun'[q].at = "orphan" /\ rsLeader'[q] = "alive")
      BY <1>1, <1>3 DEF RustInv, RsFileNamesGroup, RsLive, RsSupervised
    <2> QED
      BY <2>1, <2>2, <1>3 DEF RsFileNamesGroup
  <1> QED
    BY <1>2, <1>5, <1>6, <1>7 DEF RustInv

LEMMA RustAcceptStep ==
  ASSUME ~RsBridge, RustInv, NEW r \in RsPosts, RsAccept(r)
  PROVE  RustInv'
PROOF
  <1>0. rsRun \in [RsPosts -> RsRows] /\ rsPost \in [RsPosts -> RsAnswers] /\ rsFile \in RsPosts \cup {NoFile}
        /\ rsStore \in [RsKeys -> RsPrints \cup {"none"}]
    BY DEF RustInv, RustTables
  <1>1. /\ rsPost[r] = "permitted" /\ rsPost' = [rsPost EXCEPT ![r] = "accepted"]
        /\ rsStore' = [rsStore EXCEPT ![RsKeyOf[r]] = RsPrintOf[r]]
        /\ rsRun' = [rsRun EXCEPT ![r] = [rsRun[r] EXCEPT !.at = "preparing"]]
        /\ UNCHANGED <<rsUp, rsLeader, rsKin, rsFile, rsCrashes>>
    BY <1>0 DEF RsAccept
  <1>2. /\ rsRun' \in [RsPosts -> RsRows] /\ rsRun'[r].at = "preparing" /\ rsRun[r].at = "none"
        /\ \A q \in RsPosts : q # r => rsRun'[q] = rsRun[q]
    <2>1. "preparing" \in RsPlaces
      BY DEF RsPlaces, RsLive
    <2>2. rsRun[r].at = "none"
      BY <1>1 DEF RustInv, OnePermit
    <2>3. [rsRun[r] EXCEPT !.at = "preparing"] \in RsRows /\ [rsRun[r] EXCEPT !.at = "preparing"].at = "preparing"
      <3>1. rsRun[r] \in RsRows
        BY <1>0
      <3> QED
        BY <3>1, <2>1 DEF RsRows
    <2> QED
      BY <1>0, <1>1, <2>2, <2>3
  <1>3. RustTables'
    <2>1. rsStore' \in [RsKeys -> RsPrints \cup {"none"}]
      BY <1>0, <1>1 DEF RsKeys, RsPrints
    <2>2. rsPost' \in [RsPosts -> RsAnswers]
      BY <1>0, <1>1 DEF RsAnswers
    <2> QED
      BY <1>1, <1>2, <2>1, <2>2 DEF RustInv, RustTables
  <1>4. OnePermit'
    <2>1. r \in RsHolding
      BY <1>1 DEF RsHolding
    <2>2. \A q \in RsHolding' : q = r
      BY <1>0, <1>1, <1>2, <2>1 DEF RustInv, OnePermit, RsHolding
    <2>3. rsUp' \in {"serving", "stopping"}
      BY <1>1, <1>3 DEF RustInv, OnePermit, RustTables
    <2>4. \A q \in RsPosts : rsPost'[q] \in {"new", "checked", "permitted"} => rsRun'[q].at = "none"
      BY <1>0, <1>1, <1>2 DEF RustInv, OnePermit
    <2> QED
      BY <2>2, <2>3, <2>4 DEF OnePermit
  <1>5. GroupHasOwner'
    BY <1>1, <1>2 DEF RustInv, GroupHasOwner, RsGroupAlive, RsSupervised
  <1>6. RsFileNamesGroup'
    <2>0. rsUp \in {"serving", "stopping"} /\ r # NoFile
      BY <1>1, RustBounds DEF RustInv, OnePermit, RustTables
    <2>1. rsFile # r
      BY <2>0, <1>2 DEF RustInv, RsFileNamesGroup, RsSupervised
    <2> QED
      BY <2>1, <1>0, <1>1, <1>2 DEF RustInv, RsFileNamesGroup
  <1> QED
    BY <1>3, <1>4, <1>5, <1>6 DEF RustInv

\* A group changes while its run stays where it is.
LEMMA RustGroupMoves ==
  ASSUME RustInv, NEW r \in RsPosts,
         rsRun' \in [RsPosts -> RsRows], \A q \in RsPosts : rsRun'[q].at = rsRun[q].at,
         UNCHANGED <<rsUp, rsStore, rsPost, rsFile, rsCrashes>>,
         rsLeader' \in [RsPosts -> RsChildren], rsKin' \in [RsPosts -> {"none", "holding", "quiet"}],
         \A q \in RsPosts : q # r => rsLeader'[q] = rsLeader[q] /\ rsKin'[q] = rsKin[q],
         rsLeader'[r] = "alive" => rsLeader[r] = "alive",
         rsKin'[r] # "none" => RsGroupAlive(r)
  PROVE  RustInv'
PROOF
  <1>1. RustTables'
    BY DEF RustInv, RustTables
  <1>2. OnePermit'
    <2>1. \A q \in RsHolding' : q \in RsHolding
      BY DEF RsHolding
    <2> QED
      BY <2>1 DEF RustInv, OnePermit
  <1>3. GroupHasOwner'
    BY DEF RustInv, GroupHasOwner, RsGroupAlive
  <1>4. RsFileNamesGroup'
    BY DEF RustInv, RsFileNamesGroup, RustTables
  <1> QED
    BY <1>1, <1>2, <1>3, <1>4 DEF RustInv

\* The steps of a run that leave its group alone.
LEMMA RustQuietSteps ==
  ASSUME ~RsBridge, RustInv, NEW r \in RsPosts,
         RsFailClosed(r) \/ RsFed(r) \/ RsInputRead(r) \/ RsWaited(r) \/ RsDeliver(r)
  PROVE  RustInv'
PROOF
  <1>0. /\ rsRun \in [RsPosts -> RsRows] /\ rsRun[r] \in RsRows
        /\ rsLeader \in [RsPosts -> RsChildren] /\ rsKin \in [RsPosts -> {"none", "holding", "quiet"}]
    BY DEF RustInv, RustTables
  <1>1. UNCHANGED <<rsUp, rsStore, rsPost, rsLeader, rsKin, rsFile, rsCrashes>>
    BY DEF RsFailClosed, RsFed, RsInputRead, RsWaited, RsDeliver
  <1>2. rsRun[r].at \in RsLive
    BY DEF RsFailClosed, RsFed, RsInputRead, RsWaited, RsDeliver, RsLive, RsSupervised
  <1>g. rsLeader[r] = "alive" \/ rsKin[r] # "none" => rsRun[r].at \in RsSupervised
    BY <1>2 DEF RustInv, GroupHasOwner, RsGroupAlive, RsLive, RsSupervised
  <1>f. rsFile = r => rsRun[r].at \in RsSupervised
    BY <1>2, RustBounds DEF RustInv, RsFileNamesGroup, OnePermit, RustTables
  <1>3. ASSUME NEW v \in RsRows, rsRun' = [rsRun EXCEPT ![r] = v], v.at \in RsLive \cup {"done"},
               rsRun[r].at \in RsSupervised => v.at \in RsSupervised
        PROVE  RustInv'
    BY <1>0, <1>1, <1>2, <1>3, <1>g, <1>f, RustRunMoves
  <1>4. CASE RsFailClosed(r)
    <2> DEFINE o == IF RsBindingHolds(RsCarries[r]) THEN "bad_path" ELSE "mismatch"
               v == [rsRun[r] EXCEPT !.at = "delivering", !.outcome = o]
    <2>1. rsRun[r].at = "preparing" /\ rsRun' = [rsRun EXCEPT ![r] = v]
      BY <1>0, <1>4 DEF RsFailClosed
    <2>2. o \in RsOutcomes
      BY DEF RsOutcomes
    <2> HIDE DEF o
    <2>3. v \in RsRows /\ v.at = "delivering"
      BY <1>0, <2>2 DEF RsRows, RsPlaces, RsLive
    <2> HIDE DEF v
    <2> QED
      BY <2>1, <2>3, <1>3 DEF RsLive, RsSupervised
  <1>5. CASE RsFed(r) \/ RsInputRead(r)
    <2> DEFINE v == [rsRun[r] EXCEPT !.at = "watching"]
    <2>1. rsRun' = [rsRun EXCEPT ![r] = v]
      BY <1>0, <1>5 DEF RsFed, RsInputRead
    <2>2. v \in RsRows /\ v.at = "watching"
      BY <1>0 DEF RsRows, RsPlaces, RsLive, RsSupervised
    <2> HIDE DEF v
    <2> QED
      BY <2>1, <2>2, <1>3 DEF RsLive, RsSupervised
  <1>6. CASE RsWaited(r)
    <2> DEFINE v == [rsRun[r] EXCEPT !.at = "collecting"]
    <2>1. rsRun' = [rsRun EXCEPT ![r] = v]
      BY <1>0, <1>6 DEF RsWaited
    <2>2. v \in RsRows /\ v.at = "collecting"
      BY <1>0 DEF RsRows, RsPlaces, RsLive, RsSupervised
    <2> HIDE DEF v
    <2> QED
      BY <2>1, <2>2, <1>3 DEF RsLive, RsSupervised
  <1>7. CASE RsDeliver(r)
    <2>0. rsRun[r].at = "delivering"
      BY <1>7 DEF RsDeliver
    <2>1. CASE rsRun' = [rsRun EXCEPT ![r] = [RsNoRun EXCEPT !.at = "done", !.due = rsRun[r].due]]
      <3> DEFINE v == [RsNoRun EXCEPT !.at = "done", !.due = rsRun[r].due]
      <3>1. rsRun[r].due \in BOOLEAN
        BY <1>0 DEF RsRows
      <3>2. v \in RsRows /\ v.at = "done"
        BY <3>1, RustBounds DEF RsRows, RsPlaces
      <3>3. rsRun' = [rsRun EXCEPT ![r] = v]
        BY <2>1
      <3> HIDE DEF v
      <3> QED
        BY <2>0, <3>2, <3>3, <1>3 DEF RsSupervised
    <2>2. CASE rsRun[r].tries + 1 < RsAttempts /\ rsRun' = [rsRun EXCEPT ![r].tries = @ + 1]
      <3> DEFINE n == rsRun[r].tries + 1
                 v == [rsRun[r] EXCEPT !.tries = n]
      <3>1. n \in 0 .. RsAttempts - 1
        BY <1>0, <2>2, RustBounds DEF RsRows
      <3>2. rsRun' = [rsRun EXCEPT ![r] = v]
        BY <1>0, <2>2
      <3> HIDE DEF n
      <3>3. v \in RsRows /\ v.at = "delivering"
        BY <1>0, <2>0, <3>1 DEF RsRows
      <3> HIDE DEF v
      <3> QED
        BY <2>0, <3>2, <3>3, <1>3 DEF RsLive, RsSupervised
    <2> QED
      BY <2>1, <2>2, <1>7 DEF RsDeliver
  <1> QED
    BY <1>4, <1>5, <1>6, <1>7

LEMMA RustSpawnStep ==
  ASSUME ~RsBridge, RustInv, NEW r \in RsPosts, RsSpawn(r)
  PROVE  RustInv'
PROOF
  <1>0. /\ rsRun \in [RsPosts -> RsRows] /\ rsRun[r] \in RsRows
        /\ rsLeader \in [RsPosts -> RsChildren] /\ rsKin \in [RsPosts -> {"none", "holding", "quiet"}]
    BY DEF RustInv, RustTables
  <1>1. rsRun[r].at = "preparing" /\ UNCHANGED <<rsUp, rsStore, rsPost, rsKin, rsCrashes>>
    BY DEF RsSpawn
  <1>2. rsRun[r].at \in RsLive /\ rsLeader[r] # "alive" /\ rsKin[r] = "none"
    BY <1>1 DEF RustInv, GroupHasOwner, RsGroupAlive, RsLive, RsSupervised
  <1>3. CASE /\ rsLeader' = [rsLeader EXCEPT ![r] = "alive"] /\ rsFile' \in {r, rsFile}
             /\ rsRun' = [rsRun EXCEPT ![r].at = "feeding"]
    <2> DEFINE v == [rsRun[r] EXCEPT !.at = "feeding"]
    <2>1. rsRun' = [rsRun EXCEPT ![r] = v]
      BY <1>0, <1>3
    <2>2. v \in RsRows /\ v.at = "feeding"
      BY <1>0 DEF RsRows, RsPlaces, RsLive, RsSupervised
    <2> HIDE DEF v
    <2>3. rsLeader' \in [RsPosts -> RsChildren] /\ \A q \in RsPosts : q # r => rsLeader'[q] = rsLeader[q]
      BY <1>0, <1>3 DEF RsChildren
    <2>4. v.at \in RsSupervised /\ v.at \in RsLive
      BY <2>2 DEF RsLive, RsSupervised
    <2> QED
      BY <1>0, <1>1, <1>2, <1>3, <2>1, <2>2, <2>3, <2>4, RustRunMoves
  <1>4. CASE /\ rsRun' = [rsRun EXCEPT ![r].at = "delivering", ![r].outcome = "spawn_failed"]
             /\ rsFile' = NoFile /\ UNCHANGED rsLeader
    <2> DEFINE v == [rsRun[r] EXCEPT !.at = "delivering", !.outcome = "spawn_failed"]
    <2>1. rsRun' = [rsRun EXCEPT ![r] = v]
      BY <1>0, <1>4
    <2>2. v \in RsRows /\ v.at = "delivering"
      BY <1>0 DEF RsRows, RsPlaces, RsLive, RsOutcomes
    <2> HIDE DEF v
    <2>3. v.at \in RsLive /\ rsFile' # r
      BY <2>2, <1>4, RustBounds DEF RsLive
    <2> QED
      BY <1>0, <1>1, <1>2, <1>4, <2>1, <2>2, <2>3, RustRunMoves
  <1> QED
    BY <1>3, <1>4 DEF RsSpawn

\* The supervisor signals or kills the group it watches.
LEMMA RustSignalSteps ==
  ASSUME ~RsBridge, RustInv, NEW r \in RsPosts,
         RsChildExits(r) \/ RsKinChanges(r) \/ RsKillDue(r) \/ RsLimit(r)
           \/ \E trigger \in {"deadline", "shutdown"} : RsEscalate(r, trigger)
  PROVE  RustInv'
PROOF
  <1>0. /\ rsRun \in [RsPosts -> RsRows] /\ rsRun[r] \in RsRows
        /\ rsLeader \in [RsPosts -> RsChildren] /\ rsKin \in [RsPosts -> {"none", "holding", "quiet"}]
    BY DEF RustInv, RustTables
  <1>1. UNCHANGED <<rsUp, rsStore, rsPost, rsFile, rsCrashes>>
    BY DEF RsChildExits, RsKinChanges, RsKillDue, RsLimit, RsEscalate
  <1>2. /\ rsLeader' \in [RsPosts -> RsChildren]
        /\ rsKin' \in [RsPosts -> {"none", "holding", "quiet"}]
        /\ \A q \in RsPosts : q # r => rsLeader'[q] = rsLeader[q] /\ rsKin'[q] = rsKin[q]
        /\ rsLeader'[r] = "alive" => rsLeader[r] = "alive"
        /\ rsKin'[r] # "none" => RsGroupAlive(r)
    <2>1. CASE RsChildExits(r)
      BY <2>1, <1>0 DEF RsChildExits, RsChildren, RsDead, RsGroupAlive
    <2>2. CASE RsKinChanges(r)
      BY <2>2, <1>0 DEF RsKinChanges, RsGroupAlive
    <2>3. CASE RsKillDue(r) \/ RsLimit(r)
      BY <2>3, <1>0 DEF RsKillDue, RsLimit, RsKillGroup, RsChildren, RsDead
    <2>4. ASSUME NEW trigger \in {"deadline", "shutdown"}, RsEscalate(r, trigger)
          PROVE  /\ rsLeader' \in [RsPosts -> RsChildren]
                 /\ rsKin' \in [RsPosts -> {"none", "holding", "quiet"}]
                 /\ \A q \in RsPosts : q # r => rsLeader'[q] = rsLeader[q] /\ rsKin'[q] = rsKin[q]
                 /\ rsLeader'[r] = "alive" => rsLeader[r] = "alive"
                 /\ rsKin'[r] # "none" => RsGroupAlive(r)
      <3>1. PICK how \in {"alive", "exit0", "exit1", "signal"}, k \in {"none", rsKin[r]} :
              /\ rsLeader' = [rsLeader EXCEPT ![r] = IF rsLeader[r] = "alive" THEN how ELSE rsLeader[r]]
              /\ rsKin' = [rsKin EXCEPT ![r] = k]
        BY <2>4 DEF RsEscalate
      <3>2. how \in RsChildren
        BY DEF RsChildren, RsDead
      <3> QED
        BY <3>1, <3>2, <1>0 DEF RsGroupAlive
    <2> QED
      BY <2>1, <2>2, <2>3, <2>4
  <1>3. rsRun' \in [RsPosts -> RsRows] /\ \A q \in RsPosts : rsRun'[q].at = rsRun[q].at
    <2>1. CASE RsChildExits(r) \/ RsKinChanges(r)
      BY <2>1, <1>0 DEF RsChildExits, RsKinChanges
    <2>2. CASE RsKillDue(r)
      <3> DEFINE v == [rsRun[r] EXCEPT !.due = FALSE]
      <3>1. rsRun' = [rsRun EXCEPT ![r] = v]
        BY <1>0, <2>2 DEF RsKillDue
      <3>2. v \in RsRows /\ v.at = rsRun[r].at
        BY <1>0 DEF RsRows
      <3> HIDE DEF v
      <3> QED
        BY <1>0, <3>1, <3>2
    <2>3. CASE RsLimit(r)
      <3> DEFINE v == [rsRun[r] EXCEPT !.limit = TRUE]
      <3>1. rsRun' = [rsRun EXCEPT ![r] = v]
        BY <1>0, <2>3 DEF RsLimit
      <3>2. v \in RsRows /\ v.at = rsRun[r].at
        BY <1>0 DEF RsRows
      <3> HIDE DEF v
      <3> QED
        BY <1>0, <3>1, <3>2
    <2>4. ASSUME NEW trigger \in {"deadline", "shutdown"}, RsEscalate(r, trigger)
          PROVE  rsRun' \in [RsPosts -> RsRows] /\ \A q \in RsPosts : rsRun'[q].at = rsRun[q].at
      <3> DEFINE v == [rsRun[r] EXCEPT !.trigger = trigger, !.due = TRUE]
      <3>1. rsRun' = [rsRun EXCEPT ![r] = v]
        BY <1>0, <2>4 DEF RsEscalate
      <3>2. v \in RsRows /\ v.at = rsRun[r].at
        BY <1>0 DEF RsRows
      <3> HIDE DEF v
      <3> QED
        BY <1>0, <3>1, <3>2
    <2> QED
      BY <2>1, <2>2, <2>3, <2>4
  <1> QED
    BY <1>1, <1>2, <1>3, RustGroupMoves

LEMMA RustCollectStep ==
  ASSUME ~RsBridge, RustInv, NEW r \in RsPosts, NEW over \in BOOLEAN, RsCollect(r, over)
  PROVE  RustInv'
PROOF
  <1>0. /\ rsRun \in [RsPosts -> RsRows] /\ rsRun[r] \in RsRows
        /\ rsLeader \in [RsPosts -> RsChildren] /\ rsKin \in [RsPosts -> {"none", "holding", "quiet"}]
    BY DEF RustInv, RustTables
  <1>1. PICK o \in RsAdapted(RsSettled(r, over)) :
          rsRun' = [rsRun EXCEPT ![r].at = "delivering", ![r].outcome = o] /\ rsFile' = RsCleared(o)
    BY DEF RsCollect
  <1>2. o \in RsOutcomes
    <2>1. RsSettled(r, over) \in {"output_limit", "succeeded", "failed", "killed"}
      BY DEF RsSettled
    <2> QED
      BY <2>1 DEF RsAdapted, RsOutcomes
  <1> DEFINE v == [rsRun[r] EXCEPT !.at = "delivering", !.outcome = o]
  <1>3. rsRun' = [rsRun EXCEPT ![r] = v]
    BY <1>0, <1>1
  <1>4. v \in RsRows /\ v.at = "delivering"
    BY <1>0, <1>2 DEF RsRows, RsPlaces, RsLive
  <1> HIDE DEF v
  <1>5. /\ rsRun[r].at \in RsLive /\ v.at \in RsLive /\ rsFile' = NoFile /\ rsFile' # r
        /\ UNCHANGED <<rsUp, rsStore, rsPost, rsCrashes>>
    BY <1>1, <1>4, RustBounds DEF RsCollect, RsLive, RsSupervised, RsCleared
  <1>6. /\ rsLeader' \in [RsPosts -> RsChildren] /\ rsKin' \in [RsPosts -> {"none", "holding", "quiet"}]
        /\ rsLeader'[r] = "none" /\ rsKin'[r] = "none"
        /\ \A q \in RsPosts : q # r => rsLeader'[q] = rsLeader[q] /\ rsKin'[q] = rsKin[q]
    BY <1>0 DEF RsCollect, RsChildren
  <1> QED
    BY <1>3, <1>4, <1>5, <1>6, RustRunMoves

\* The process ends: every permit is gone, and the live run becomes an orphan
\* if the file names it.
LEMMA RustGoneStep ==
  ASSUME ~RsBridge, RustInv, NEW killed, RsGone(killed), rsUp \in {"serving", "stopping"},
         rsCrashes' \in 0 .. RsCrashLimit
  PROVE  RustInv'
PROOF
  <1>0. RustTables
    BY DEF RustInv
  <1>1. /\ rsUp' = "down" /\ UNCHANGED <<rsKin, rsFile>> /\ rsStore' = [k \in RsKeys |-> "none"]
        /\ rsPost' = [r \in RsPosts |-> IF rsPost[r] \in {"checked", "permitted"} THEN "dropped" ELSE rsPost[r]]
    BY DEF RsGone
  <1>2. ASSUME NEW r \in RsPosts
        PROVE  /\ rsRun'[r] \in RsRows
               /\ rsRun[r].at \in RsLive => rsRun'[r].at = IF rsFile = r THEN "orphan" ELSE "lost"
               /\ rsRun[r].at \notin RsLive => rsRun'[r].at = rsRun[r].at
    <2>1. rsRun[r] \in RsRows
      BY <1>0 DEF RustTables
    <2>2. rsRun'[r] = IF rsRun[r].at \in RsLive
                      THEN [RsNoRun EXCEPT !.at = IF rsFile = r THEN "orphan" ELSE "lost"]
                      ELSE [rsRun[r] EXCEPT !.due = FALSE]
      BY DEF RsGone
    <2>3. CASE rsRun[r].at \in RsLive /\ rsFile = r
      BY <2>2, <2>3, RustBounds DEF RsRows, RsPlaces
    <2>4. CASE rsRun[r].at \in RsLive /\ rsFile # r
      BY <2>2, <2>4, RustBounds DEF RsRows, RsPlaces
    <2>5. CASE rsRun[r].at \notin RsLive
      <3>1. rsRun'[r] = [rsRun[r] EXCEPT !.due = FALSE]
        BY <2>2, <2>5
      <3> QED
        BY <2>1, <2>5, <3>1 DEF RsRows
    <2> QED
      BY <2>3, <2>4, <2>5
  <1>3. ASSUME NEW r \in RsPosts
        PROVE  rsLeader'[r] \in RsChildren /\ (rsLeader'[r] = "alive" => rsLeader[r] = "alive")
    BY <1>0 DEF RsGone, RustTables, RsChildren, RsDead
  <1>4. RustTables'
    <2>1. rsRun' \in [RsPosts -> RsRows]
      BY <1>2 DEF RsGone
    <2>2. rsLeader' \in [RsPosts -> RsChildren]
      BY <1>3 DEF RsGone
    <2>3. rsPost' \in [RsPosts -> RsAnswers] /\ rsStore' \in [RsKeys -> RsPrints \cup {"none"}]
      BY <1>0, <1>1 DEF RustTables, RsAnswers
    <2> QED
      BY <1>0, <1>1, <2>1, <2>2, <2>3 DEF RustTables
  <1>5. \A r \in RsPosts : rsPost'[r] \notin {"checked", "permitted"} /\ rsRun'[r].at \notin RsLive
    <2>1. \A r \in RsPosts : rsRun'[r].at \notin RsLive
      BY <1>2 DEF RsLive, RsSupervised
    <2>2. \A r \in RsPosts : rsPost'[r] \notin {"checked", "permitted"}
      BY <1>1
    <2> QED
      BY <2>1, <2>2
  <1>6. OnePermit'
    <2>1. RsHolding' = {}
      BY <1>5 DEF RsHolding
    <2>2. \A r \in RsPosts : rsPost'[r] \in {"new", "checked", "permitted"} => rsRun'[r].at = "none"
      <3>1. ASSUME NEW r \in RsPosts, rsPost'[r] = "new"
            PROVE  rsRun'[r].at = "none"
        <4>1. rsPost[r] = "new"
          BY <3>1, <1>1
        <4>2. rsRun[r].at = "none" /\ "none" \notin RsLive
          BY <4>1 DEF RustInv, OnePermit, RsLive, RsSupervised
        <4> QED
          BY <4>2, <1>2
      <3> QED
        BY <3>1, <1>5
    <2> QED
      BY <2>1, <2>2, <1>5 DEF OnePermit
  <1>7. GroupHasOwner'
    <2>1. ASSUME NEW r \in RsPosts, rsLeader'[r] = "alive" \/ rsKin'[r] # "none"
          PROVE  rsRun'[r].at \in {"lost", "orphan"}
      <3>1. RsGroupAlive(r)
        BY <2>1, <1>1, <1>3 DEF RsGroupAlive
      <3>2. rsRun[r].at \in RsLive \cup {"lost", "orphan"}
        BY <3>1 DEF RustInv, GroupHasOwner, RsLive
      <3> QED
        BY <3>2, <1>2
    <2> QED
      BY <2>1 DEF GroupHasOwner, RsGroupAlive
  <1>8. RsFileNamesGroup'
    <2>1. ASSUME NEW r \in RsPosts, RsUtc, rsRun'[r].at = "orphan", rsLeader'[r] = "alive"
          PROVE  rsFile' = r
      <3>1. rsRun[r].at \in RsLive
        <4>1. SUFFICES ASSUME rsRun[r].at \notin RsLive PROVE FALSE
          OBVIOUS
        <4>2. rsRun[r].at = "orphan" /\ rsLeader[r] = "alive"
          BY <4>1, <2>1, <1>2, <1>3
        <4> QED
          BY <4>2, <2>1 DEF RustInv, RsFileNamesGroup
      <3> QED
        BY <3>1, <1>1, <1>2, <2>1
    <2> QED
      BY <2>1, <1>1 DEF RsFileNamesGroup
  <1> QED
    BY <1>4, <1>6, <1>7, <1>8 DEF RustInv

\* The next life of the host: it sweeps, or has nothing to sweep.
LEMMA RustReturnSteps ==
  ASSUME ~RsBridge, RustInv, RsRestart \/ RsSweepEnds
  PROVE  RustInv'
PROOF
  <1>0. RustTables
    BY DEF RustInv
  <1>1. /\ rsUp \in {"down", "sweeping"} /\ UNCHANGED <<rsStore, rsPost, rsRun, rsCrashes>>
        /\ rsUp' \in {"serving", "sweeping"}
    BY DEF RsRestart, RsSweepEnds
  <1>2. /\ rsLeader' \in [RsPosts -> RsChildren] /\ rsKin' \in [RsPosts -> {"none", "holding", "quiet"}]
        /\ \A r \in RsPosts : rsLeader'[r] = "alive" => rsLeader[r] = "alive"
        /\ \A r \in RsPosts : rsKin'[r] # "none" => rsKin[r] # "none"
        /\ rsFile' \in {rsFile, NoFile}
        /\ rsUp' = "serving" => rsFile' = NoFile
        /\ rsUp' = "sweeping" => rsFile' = rsFile /\ rsFile # NoFile
        /\ RsUtc /\ rsUp' = "serving" /\ rsFile \in RsPosts => rsLeader'[rsFile] # "alive"
    <2>1. CASE RsRestart /\ rsFile = NoFile
      BY <2>1, <1>0, RustBounds DEF RsRestart, RustTables
    <2>2. CASE RsRestart /\ rsFile # NoFile /\ (rsLeader[rsFile] # "alive" \/ ~RsUtc)
      BY <2>2, <1>0 DEF RsRestart, RustTables
    <2>3. CASE RsRestart /\ rsFile # NoFile /\ rsLeader[rsFile] = "alive" /\ RsUtc
      <3>1. rsFile \in RsPosts
        BY <2>3, <1>0 DEF RustTables
      <3>2. PICK how \in {"alive", "signal"}, k \in {"none", rsKin[rsFile]} :
              rsLeader' = [rsLeader EXCEPT ![rsFile] = how] /\ rsKin' = [rsKin EXCEPT ![rsFile] = k]
        BY <2>3 DEF RsRestart
      <3>3. rsUp' = "sweeping" /\ rsFile' = rsFile
        BY <2>3 DEF RsRestart
      <3>4. how \in RsChildren
        BY DEF RsChildren, RsDead
      <3> QED
        BY <2>3, <3>1, <3>2, <3>3, <3>4, <1>0 DEF RustTables
    <2>4. CASE RsSweepEnds
      <3>1. rsFile \in RsPosts /\ rsFile' = NoFile /\ rsUp' = "serving"
        BY <2>4, <1>0 DEF RustTables, RsSweepEnds, RustInv, RsFileNamesGroup
      <3>2. CASE rsLeader[rsFile] = "alive"
        BY <2>4, <3>1, <3>2, <1>0 DEF RsSweepEnds, RsSweepKill, RsKillGroup, RustTables, RsChildren, RsDead
      <3>3. CASE rsLeader[rsFile] # "alive"
        BY <2>4, <3>1, <3>3, <1>0 DEF RsSweepEnds, RsSweepKill, RustTables
      <3> QED
        BY <3>2, <3>3
    <2> QED
      BY <2>1, <2>2, <2>3, <2>4
  <1>3. RustTables'
    BY <1>0, <1>1, <1>2 DEF RustTables
  <1>4. OnePermit'
    <2>1. \A q \in RsHolding' : q \in RsHolding
      BY <1>1 DEF RsHolding
    <2> QED
      BY <2>1, <1>1 DEF RustInv, OnePermit
  <1>5. GroupHasOwner'
    BY <1>1, <1>2 DEF RustInv, GroupHasOwner, RsGroupAlive
  <1>6. RsFileNamesGroup'
    <2>1. ASSUME NEW r \in RsPosts, RsUtc, rsRun'[r].at = "orphan", rsLeader'[r] = "alive"
          PROVE  rsUp' = "sweeping" /\ rsFile' = r
      <3>1. rsFile = r
        BY <2>1, <1>1, <1>2 DEF RustInv, RsFileNamesGroup
      <3> QED
        BY <3>1, <2>1, <1>1, <1>2
    <2> QED
      BY <2>1, <1>1, <1>2 DEF RsFileNamesGroup
  <1> QED
    BY <1>3, <1>4, <1>5, <1>6 DEF RustInv

LEMMA RustStep ==
  ASSUME ~RsBridge, RustInv, [RustNext]_rustVars
  PROVE  RustInv'
PROOF
  <1>1. CASE UNCHANGED rustVars
    BY <1>1 DEF rustVars, RustInv, RustTables, OnePermit, GroupHasOwner, RsFileNamesGroup, RsHolding, RsGroupAlive
  <1>2. CASE RsInterrupt
    BY <1>2 DEF RsInterrupt, RustInv, RustTables, OnePermit, GroupHasOwner, RsFileNamesGroup, RsHolding, RsGroupAlive
  <1>3. CASE RsExit
    <2>1. rsCrashes' \in 0 .. RsCrashLimit /\ rsUp \in {"serving", "stopping"}
      BY <1>3 DEF RsExit, RustInv, RustTables
    <2> QED
      BY <1>3, <2>1, RustGoneStep DEF RsExit
  <1>4. CASE RsCrash
    <2>1. rsCrashes' \in 0 .. RsCrashLimit
      BY <1>4, RustBounds DEF RsCrash, RustInv, RustTables
    <2> QED
      BY <1>4, <2>1, RustGoneStep DEF RsCrash
  <1> QED
    BY <1>1, <1>2, <1>3, <1>4, RustReturnSteps, RustRequestSteps, RustAcceptStep, RustQuietSteps, RustSpawnStep,
       RustSignalSteps, RustCollectStep DEF RustNext

LEMMA RustInvSays ==
  ASSUME ~RsBridge, RustInv
  PROVE  RustGroupsFitSlots /\ RustRecordIsCurrent /\ RustOrphanIsTerminated /\ RustTypeOK
PROOF
  <1>1. RustRecordIsCurrent /\ RustOrphanIsTerminated
    BY DEF RustInv, RsFileNamesGroup, RustRecordIsCurrent, RustOrphanIsTerminated
  <1>2. RustGroupsFitSlots
    <2> DEFINE S == {r \in RsPosts : RsGroupAlive(r) /\ rsRun[r].at \notin {"lost", "orphan"}}
    <2>1. \A x, y \in S : x = y
      BY DEF RustInv, GroupHasOwner, OnePermit, RsHolding, RsLive
    <2> HIDE DEF S
    <2>2. Cardinality(S) \in 0..1
      BY <2>1, AtMostOne
    <2>3. Cardinality(S) <= RsSlots
      BY <2>2 DEF RsSlots
    <2> QED
      BY <2>3 DEF RustGroupsFitSlots, S
  <1> QED
    BY <1>1, <1>2, RustTypes DEF RustInv

\* The Rust host of registered agents runs one group at a time, its record is
\* of the run it supervises, and what a crash left of a recorded run is dead
\* before it serves (try_acquire_owned, on_spawn, terminate_orphan).
THEOREM RustInvariance ==
  ASSUME ~RsBridge
  PROVE  RustSpec => [](RustGroupsFitSlots /\ RustRecordIsCurrent /\ RustOrphanIsTerminated /\ RustTypeOK)
PROOF
  <1>1. RustInv /\ [RustNext]_rustVars => RustInv'
    BY RustStep
  <1>2. RustInv => RustGroupsFitSlots /\ RustRecordIsCurrent /\ RustOrphanIsTerminated /\ RustTypeOK
    BY RustInvSays
  <1> QED
    BY <1>1, <1>2, RustInitHolds, PTL DEF RustSpec

(***************************************************************************)
(* The launcher                                                            *)
(***************************************************************************)

LauncherInv ==
  /\ failed \in BOOLEAN
  /\ diedFirst # {} => failed
  /\ Running => innerExit = "none"
  /\ outer = "gone" => ~Running
  /\ CleanExitMeansNoFailure
  /\ InfrastructureIsTornDown

LEMMA LauncherInitHolds == LauncherInit => LauncherInv
PROOF
  BY DEF LauncherInit, LauncherInv, Running, CleanExitMeansNoFailure, InfrastructureIsTornDown

LEMMA LauncherStep ==
  ASSUME LauncherInv, [LauncherNext]_launcherVars
  PROVE  LauncherInv'
PROOF
  <1> USE DEF LauncherInv, Running, CleanExitMeansNoFailure, InfrastructureIsTornDown, outerVars
  <1>1. CASE UNCHANGED launcherVars
    BY <1>1 DEF launcherVars
  <1>2. CASE AfterBuild
    BY <1>2 DEF AfterBuild, ReturnFromMain
  <1>3. CASE AfterInfra
    BY <1>3 DEF AfterInfra, RequestShutdown
  <1>4. CASE AfterDatabase
    BY <1>4 DEF AfterDatabase, ReturnFromMain
  <1>5. CASE AfterGates
    BY <1>5 DEF AfterGates, ReturnFromMain
  <1>6. CASE FailureShutdown \/ AfterShutdown
    BY <1>6 DEF FailureShutdown, AfterShutdown, ReturnFromMain, RequestShutdown
  <1>7. CASE FinishReap \/ FinishInfra
    BY <1>7 DEF FinishReap, FinishInfra
  <1>8. CASE InnerExits
    BY <1>8 DEF InnerExits, InnerGone, ExitCodeFor
  <1>9. CASE OnInnerExit
    BY <1>9 DEF OnInnerExit, Launched, TearDown
  <1>10. ASSUME NEW c \in Children, ChildEnds(c)
         PROVE  LauncherInv'
    BY <1>10 DEF ChildEnds, Unexpected, RequestShutdown, Children, Aborted
  <1>11. ASSUME NEW s \in {"int", "usr2"}, TakeSignal(s)
         PROVE  LauncherInv'
    BY <1>11 DEF TakeSignal, RequestShutdown, InnerGone
  <1>12. CASE SourceChanges \/ DebounceFires \/ CtrlC
    BY <1>12 DEF SourceChanges, DebounceFires, CtrlC
  <1> QED
    BY <1>1, <1>2, <1>3, <1>4, <1>5, <1>6, <1>7, <1>8, <1>9, <1>10, <1>11, <1>12
    DEF LauncherNext, MainFlow, FinishStack

\* A launcher that reports success had no service die on it, and with the
\* watcher the infrastructure goes, whatever reloads, interrupts and failures
\* came in between (runLauncher, requestShutdown, cleanup).
THEOREM LauncherInvariance == LauncherSpec => [](CleanExitMeansNoFailure /\ InfrastructureIsTornDown)
PROOF
  <1>1. LauncherInv /\ [LauncherNext]_launcherVars => LauncherInv'
    BY LauncherStep
  <1>2. LauncherInv => CleanExitMeansNoFailure /\ InfrastructureIsTornDown
    BY DEF LauncherInv
  <1> QED
    BY <1>1, <1>2, LauncherInitHolds, PTL DEF LauncherSpec

(***************************************************************************)
(* The Python worker                                                       *)
(***************************************************************************)

JobStates == {"none", "due", "sending", "notifying", "done"}
JobRows == [at : JobStates, tries : 0 .. PyMaxAttempts - 1]
JobTables == [Submissions -> [Jobs -> JobRows]]
KeptRows == [by : Submissions, old : BOOLEAN,
             state : {"queued", "running", "callback_pending", "delivered", "callback_failed"}]
Unsettled == {"queued", "running", "callback_pending"}

PyTables ==
  /\ pstate \in {"created", "starting", "running", "stopping", "stopped", "failed"}
  /\ session \in BOOLEAN /\ open \in BOOLEAN /\ taking \in BOOLEAN /\ forced \in BOOLEAN /\ drainDue \in BOOLEAN
  /\ draining \in {"no", "scheduler", "drain", "close"}
  /\ reply \in [Submissions -> {"new", "reading", "rejected", "not_ready", "accepted", "duplicate",
                                "conflict", "queue_full", "capacity_full", "dropped"}]
  /\ kept \in [PyKeys -> {NoPyRecord} \cup KeptRows]
  /\ fifo \in Seq(Submissions)
  /\ ran \in [Submissions -> {"none", "queued", "active", "over"}]
  /\ handler \in [Submissions -> {"idle", "on", "detached", "done"}]
  /\ job \in JobTables

\* A run is open from its 202 to the end of its result's delivery.
OpenRun(r) == ran[r] # "none" /\ job[r][0].at \notin {"notifying", "done"}

\* The queue holds exactly the queued runs, each once.
QueueIsRuns ==
  /\ Distinct(fifo)
  /\ \A r \in Submissions : ran[r] = "queued" <=> Holds(fifo, r)
  /\ IsFiniteSet(ActiveNow)

\* A run has a result job once it is over, and its terminal event after that.
ResultFollowsRun ==
  \A r \in Submissions :
    /\ reply[r] \in {"new", "reading"} => ran[r] = "none"
    /\ job[r][0].at # "none" <=> ran[r] = "over"
    /\ job[r][0].at # "due" /\ job[r][TerminalJob].at # "due"
    /\ job[r][TerminalJob].at # "none" => job[r][0].at = "done"

\* The store still holds the record of every open run, unexpired.
OpenRunIsKept ==
  \A r \in Submissions : OpenRun(r) =>
    /\ kept[KeyOf[r]] # NoPyRecord
    /\ kept[KeyOf[r]].by = r /\ kept[KeyOf[r]].state \in Unsettled

\* What has been reached of the shutdown.
DrainStages ==
  /\ draining # "no" => pstate \in {"stopping", "stopped"}
  /\ draining = "no" /\ pstate # "running" => \A r \in Submissions : ran[r] = "none"
  /\ draining \in {"drain", "close"} => fifo = <<>>
  /\ draining = "close" => \A r \in Submissions : ~OpenRun(r)

PyInv == PyTables /\ QueueIsRuns /\ ResultFollowsRun /\ OpenRunIsKept /\ DrainStages

\* The state of the contract that the refinement maps this one to.
PyLife ==
  CASE pstate \in {"created", "starting", "failed"} -> "down" [] pstate = "running" -> "up"
    [] pstate = "stopping" -> "stopping" [] pstate = "stopped" -> "stopped"
PyWork == [r \in Submissions |-> IF ran[r] = "none" THEN "none"
                                 ELSE IF job[r][0].at \in {"notifying", "done"} THEN "settled" ELSE "open"]

PyContractStep == [Contract!ContractNext]_<<PyLife, PyWork>>

LEMMA PyBounds ==
  /\ PyConcurrency \in Nat \ {0} /\ PyMaxAttempts \in Nat \ {0} /\ HandlerEvents \in Nat
  /\ 0 \in Jobs /\ AcceptedJob \in Jobs /\ TerminalJob \in Jobs
  /\ AcceptedJob # 0 /\ TerminalJob # 0 /\ TerminalJob # AcceptedJob
  /\ \A r \in Submissions : KeyOf[r] \in PyKeys
PROOF
  <1>1. PyConcurrency \in Nat \ {0} /\ PyMaxAttempts \in Nat \ {0} /\ HandlerEvents \in Nat
    BY PyAssumption DEF PyConfigured
  <1>2. \A r \in Submissions : KeyOf[r] \in PyKeys
    BY PyAssumption DEF PyKeys, Range
  <1>3. /\ 0 \in Jobs /\ AcceptedJob \in Jobs /\ TerminalJob \in Jobs
        /\ AcceptedJob # 0 /\ TerminalJob # 0 /\ TerminalJob # AcceptedJob
    BY <1>1 DEF Jobs, AcceptedJob, TerminalJob
  <1> QED
    BY <1>1, <1>2, <1>3

\* Nothing but the lifecycle or nothing but the work of the contract moves.
LEMMA ContractStepForms ==
  /\ UNCHANGED <<PyLife, PyWork>> => PyContractStep
  /\ \A r \in Submissions :
       /\ PyLife = "up" /\ PyWork[r] = "none"
       /\ \A q \in Submissions : KeyOf[q] = KeyOf[r] => PyWork[q] # "open"
       /\ PyWork' = [PyWork EXCEPT ![r] = "open"] /\ UNCHANGED PyLife
       => PyContractStep
  /\ \A r \in Submissions :
       PyWork[r] = "open" /\ PyWork' = [PyWork EXCEPT ![r] = "settled"] /\ UNCHANGED PyLife => PyContractStep
  /\ PyLife = "down" /\ PyLife' = "up" /\ UNCHANGED PyWork => PyContractStep
  /\ PyLife \in {"down", "up"} /\ PyLife' = "stopping" /\ UNCHANGED PyWork => PyContractStep
  /\ PyLife \in {"down", "stopping"} /\ (\A r \in Submissions : PyWork[r] # "open")
       /\ PyLife' = "stopped" /\ UNCHANGED PyWork => PyContractStep
PROOF
  BY DEF PyContractStep, PyLife, PyWork, Contract!ContractNext, Contract!TakeOn, Contract!SettleOne,
     Contract!ComeUp, Contract!BeginStop, Contract!EndStop

LEMMA PyWorkSays ==
  \A r \in Submissions :
    /\ PyWork[r] = "open" <=> OpenRun(r)
    /\ PyWork[r] = "none" <=> ran[r] = "none"
PROOF
  BY DEF PyWork, OpenRun

\* One field of one job is written.
Written(t, r, k, a) == [t EXCEPT ![r][k].at = a]

LEMMA JobWrite ==
  ASSUME NEW t \in JobTables, NEW r \in Submissions, NEW k \in Jobs, NEW a \in JobStates
  PROVE  /\ Written(t, r, k, a) \in JobTables
         /\ \A q \in Submissions, m \in Jobs :
              Written(t, r, k, a)[q][m].at = IF q = r /\ m = k THEN a ELSE t[q][m].at
PROOF
  <1> DEFINE w == [t[r][k] EXCEPT !.at = a]
             v == [t[r] EXCEPT ![k] = w]
             u == [t EXCEPT ![r] = v]
  <1>0. t[r] \in [Jobs -> JobRows] /\ t[r][k] \in JobRows
    BY DEF JobTables
  <1>1. u = Written(t, r, k, a)
    BY <1>0 DEF JobTables, Written
  <1>2. w \in JobRows /\ w.at = a
    BY <1>0 DEF JobRows
  <1> HIDE DEF w
  <1>3. v \in [Jobs -> JobRows] /\ v[k] = w /\ \A m \in Jobs : m # k => v[m] = t[r][m]
    BY <1>0, <1>2
  <1> HIDE DEF v
  <1>4. u \in JobTables /\ u[r] = v /\ \A q \in Submissions : q # r => u[q] = t[q]
    BY <1>3 DEF JobTables
  <1> HIDE DEF u
  <1>5. \A q \in Submissions, m \in Jobs : u[q][m].at = IF q = r /\ m = k THEN a ELSE t[q][m].at
    BY <1>2, <1>3, <1>4
  <1> QED
    BY <1>1, <1>4, <1>5

\* The terminal event is chained behind a result that has ended.
LEMMA ChainedWrite ==
  ASSUME NEW t \in JobTables, NEW r \in Submissions, NEW k \in Jobs
  PROVE  /\ Chained(t, r, k) \in JobTables
         /\ \A q \in Submissions, m \in Jobs :
              Chained(t, r, k)[q][m].at =
                IF q = r /\ m = TerminalJob /\ k = 0 /\ t[r][0].at = "done" THEN "sending" ELSE t[q][m].at
PROOF
  <1>1. CASE k = 0 /\ t[r][0].at = "done"
    <2>1. Chained(t, r, k) = Written(t, r, TerminalJob, "sending")
      BY <1>1 DEF Chained, Written
    <2>2. "sending" \in JobStates
      BY DEF JobStates
    <2>3. TerminalJob \in Jobs
      BY PyBounds
    <2>4. /\ Written(t, r, TerminalJob, "sending") \in JobTables
          /\ \A q \in Submissions, m \in Jobs :
               Written(t, r, TerminalJob, "sending")[q][m].at =
                 IF q = r /\ m = TerminalJob THEN "sending" ELSE t[q][m].at
      BY <2>2, <2>3, JobWrite
    <2>5. \A q \in Submissions, m \in Jobs :
            Chained(t, r, k)[q][m].at = IF q = r /\ m = TerminalJob THEN "sending" ELSE t[q][m].at
      BY <2>1, <2>4
    <2> QED
      BY <1>1, <2>1, <2>4, <2>5
  <1>2. CASE ~(k = 0 /\ t[r][0].at = "done")
    BY <1>2 DEF Chained
  <1> QED
    BY <1>1, <1>2

\* Marking changes the state of the records that exist, and of nothing else.
LEMMA MarkedWrite ==
  ASSUME NEW rs \in SUBSET Submissions,
         NEW st \in {"queued", "running", "callback_pending", "delivered", "callback_failed"},
         kept \in [PyKeys -> {NoPyRecord} \cup KeptRows]
  PROVE  /\ PyMarked(rs, st) \in [PyKeys -> {NoPyRecord} \cup KeptRows]
         /\ \A i \in PyKeys : kept[i] # NoPyRecord =>
              /\ PyMarked(rs, st)[i] # NoPyRecord
              /\ PyMarked(rs, st)[i].by = kept[i].by
              /\ PyMarked(rs, st)[i].state = IF kept[i].by \in rs THEN st ELSE kept[i].state
PROOF
  <1>1. ASSUME NEW i \in PyKeys, kept[i] # NoPyRecord, kept[i].by \in rs
        PROVE  /\ PyMarked(rs, st)[i] \in KeptRows
               /\ PyMarked(rs, st)[i].by = kept[i].by /\ PyMarked(rs, st)[i].state = st
    <2>1. PyMarked(rs, st)[i] = [kept[i] EXCEPT !.state = st, !.old = FALSE]
      BY <1>1 DEF PyMarked
    <2>2. kept[i] \in KeptRows
      BY <1>1
    <2> QED
      BY <2>1, <2>2 DEF KeptRows
  <1>2. ASSUME NEW i \in PyKeys, ~(kept[i] # NoPyRecord /\ kept[i].by \in rs)
        PROVE  PyMarked(rs, st)[i] = kept[i]
    BY <1>2 DEF PyMarked
  <1>3. \A v \in KeptRows : v # NoPyRecord
    BY DEF KeptRows, NoPyRecord
  <1>4. PyMarked(rs, st) = [i \in PyKeys |-> PyMarked(rs, st)[i]]
    BY DEF PyMarked
  <1>5. \A i \in PyKeys : PyMarked(rs, st)[i] \in {NoPyRecord} \cup KeptRows
    BY <1>1, <1>2
  <1>6. PyMarked(rs, st) \in [PyKeys -> {NoPyRecord} \cup KeptRows]
    BY <1>4, <1>5
  <1> QED
    BY <1>1, <1>2, <1>3, <1>6

LEMMA PyInitHolds == PyInit => PyInv /\ Contract!ContractInit
PROOF
  <1> SUFFICES ASSUME PyInit PROVE PyInv /\ Contract!ContractInit
    OBVIOUS
  <1>1. Nothing \in JobRows /\ Nothing.at = "none"
    <2>1. 0 \in 0 .. PyMaxAttempts - 1
      BY PyBounds
    <2> QED
      BY <2>1 DEF Nothing, JobRows, JobStates
  <1>2. job \in JobTables /\ \A r \in Submissions, k \in Jobs : job[r][k].at = "none"
    BY <1>1 DEF PyInit, JobTables
  <1>3. PyTables
    <2>1. kept \in [PyKeys -> {NoPyRecord} \cup KeptRows] /\ fifo \in Seq(Submissions)
      BY DEF PyInit
    <2>2. /\ reply \in [Submissions -> {"new", "reading", "rejected", "not_ready", "accepted", "duplicate",
                                        "conflict", "queue_full", "capacity_full", "dropped"}]
          /\ ran \in [Submissions -> {"none", "queued", "active", "over"}]
          /\ handler \in [Submissions -> {"idle", "on", "detached", "done"}]
      BY DEF PyInit
    <2> QED
      BY <1>2, <2>1, <2>2 DEF PyInit, PyTables
  <1>4. QueueIsRuns
    <2>1. ActiveNow = {}
      BY DEF ActiveNow, PyInit
    <2> QED
      BY <2>1, FS_EmptySet, EmptyQueue DEF QueueIsRuns, PyInit
  <1>5. ResultFollowsRun /\ OpenRunIsKept /\ DrainStages
    BY <1>2, PyBounds DEF ResultFollowsRun, OpenRunIsKept, DrainStages, OpenRun, PyInit
  <1>6. Contract!ContractInit
    BY DEF Contract!ContractInit, PyInit
  <1> QED
    BY <1>3, <1>4, <1>5, <1>6 DEF PyInv

\* The job k of r moves to a and, if it has to, takes the terminal event along.
JobMoves(r, k, a, chain) ==
  /\ a \in {"due", "sending", "notifying", "done"} /\ (chain => k = 0 /\ a = "done")
  /\ UNCHANGED <<pstate, session, open, taking, forced, draining, reply, fifo, drainDue, ran, handler>>
  /\ job' \in JobTables
  /\ \A q \in Submissions, m \in Jobs :
       job'[q][m].at = IF q = r /\ m = k THEN a
                       ELSE IF q = r /\ m = TerminalJob /\ chain THEN "sending" ELSE job[q][m].at
  /\ k = 0 => /\ job[r][0].at \in {"sending", "notifying"} /\ a # "due"
              /\ job[r][0].at = "notifying" => a # "sending"
  /\ k = TerminalJob => job[r][k].at # "none" /\ a # "due"
  /\ \/ kept' = kept
     \/ \E st \in {"delivered", "callback_failed"} : k = 0 /\ a # "sending" /\ kept' = PyMarked({r}, st)

\* A job moves on; the result's job, when it leaves "sending", settles the run.
LEMMA PyJobMoves ==
  ASSUME PyInv, NEW r \in Submissions, NEW k \in Jobs, NEW a, NEW chain \in BOOLEAN, JobMoves(r, k, a, chain)
  PROVE  PyInv' /\ PyContractStep
PROOF
  <1> USE DEF JobMoves
  <1>0. PyTables /\ kept \in [PyKeys -> {NoPyRecord} \cup KeptRows]
    BY DEF PyInv, PyTables
  <1>1. /\ kept' \in [PyKeys -> {NoPyRecord} \cup KeptRows]
        /\ \A i \in PyKeys : kept[i] # NoPyRecord =>
             /\ kept'[i] # NoPyRecord /\ kept'[i].by = kept[i].by
             /\ kept'[i].state = kept[i].state \/ (k = 0 /\ a # "sending" /\ kept[i].by = r)
    <2>1. CASE kept' = kept
      BY <2>1, <1>0
    <2>2. ASSUME NEW st \in {"delivered", "callback_failed"}, k = 0, a # "sending", kept' = PyMarked({r}, st)
          PROVE  /\ kept' \in [PyKeys -> {NoPyRecord} \cup KeptRows]
                 /\ \A i \in PyKeys : kept[i] # NoPyRecord =>
                      /\ kept'[i] # NoPyRecord /\ kept'[i].by = kept[i].by
                      /\ kept'[i].state = kept[i].state \/ (k = 0 /\ a # "sending" /\ kept[i].by = r)
      <3>1. {r} \in SUBSET Submissions /\ st \in {"queued", "running", "callback_pending", "delivered", "callback_failed"}
        OBVIOUS
      <3>2. /\ PyMarked({r}, st) \in [PyKeys -> {NoPyRecord} \cup KeptRows]
            /\ \A i \in PyKeys : kept[i] # NoPyRecord =>
                 /\ PyMarked({r}, st)[i] # NoPyRecord
                 /\ PyMarked({r}, st)[i].by = kept[i].by
                 /\ PyMarked({r}, st)[i].state = IF kept[i].by \in {r} THEN st ELSE kept[i].state
        BY <3>1, <1>0, MarkedWrite
      <3> QED
        BY <3>2, <2>2
    <2> QED
      BY <2>1, <2>2
  <1>2. PyTables'
    BY <1>0, <1>1 DEF PyTables
  <1>3. QueueIsRuns'
    BY DEF PyInv, QueueIsRuns, ActiveNow
  <1>4. \A q \in Submissions : job'[q][0].at = IF q = r /\ k = 0 THEN a ELSE job[q][0].at
    BY PyBounds
  <1>5. ResultFollowsRun'
    <2>1. \A q \in Submissions : /\ reply'[q] \in {"new", "reading"} => ran'[q] = "none"
                                 /\ job'[q][0].at # "none" <=> ran'[q] = "over"
                                 /\ job'[q][0].at # "due"
      BY <1>4 DEF PyInv, ResultFollowsRun
    <2>2. \A q \in Submissions : /\ job'[q][TerminalJob].at # "due"
                                 /\ job'[q][TerminalJob].at # "none" => job'[q][0].at = "done"
      BY <1>4, PyBounds DEF PyInv, ResultFollowsRun
    <2> QED
      BY <2>1, <2>2 DEF ResultFollowsRun
  <1>6. \A q \in Submissions : (OpenRun(q))' => OpenRun(q) /\ ~(q = r /\ k = 0 /\ a # "sending")
    BY <1>4 DEF OpenRun
  <1>7. OpenRunIsKept'
    BY <1>1, <1>6, PyBounds DEF PyInv, OpenRunIsKept
  <1>8. DrainStages'
    BY <1>6 DEF PyInv, DrainStages
  <1>9. PyContractStep
    <2>1. UNCHANGED PyLife
      BY DEF PyLife
    <2>2. CASE k = 0 /\ job[r][0].at = "sending" /\ a # "sending"
      <3>1. PyWork[r] = "open"
        BY <2>2, PyWorkSays DEF OpenRun, PyInv, ResultFollowsRun
      <3>2. PyWork' = [PyWork EXCEPT ![r] = "settled"]
        BY <2>2, <1>4 DEF PyWork, PyInv, ResultFollowsRun
      <3> QED
        BY <2>1, <3>1, <3>2, ContractStepForms
    <2>3. CASE ~(k = 0 /\ job[r][0].at = "sending" /\ a # "sending")
      <3>1. PyWork' = PyWork
        BY <2>3, <1>4 DEF PyWork
      <3> QED
        BY <2>1, <3>1, ContractStepForms
    <2> QED
      BY <2>2, <2>3
  <1> QED
    BY <1>2, <1>3, <1>5, <1>7, <1>8, <1>9 DEF PyInv

LEMMA PyEnds ==
  ASSUME PyInv, NEW r \in Submissions, NEW k \in Jobs, NEW delivered \in BOOLEAN, Ends(r, k, delivered),
         job[r][k].at = "sending",
         UNCHANGED <<pstate, session, open, taking, forced, draining, reply, fifo, drainDue, ran, handler>>
  PROVE  PyInv' /\ PyContractStep
PROOF
  <1>1. PICK a \in {"done", "notifying"} :
          /\ job' = Chained([job EXCEPT ![r][k].at = a], r, k)
          /\ a = IF delivered \/ forced THEN "done" ELSE "notifying"
    BY DEF Ends
  <1> DEFINE t == Written(job, r, k, a)
             chain == k = 0 /\ a = "done"
  <1>2. job \in JobTables /\ a \in JobStates
    BY DEF PyInv, PyTables, JobStates
  <1>3. t \in JobTables /\ \A q \in Submissions, m \in Jobs : t[q][m].at = IF q = r /\ m = k THEN a ELSE job[q][m].at
    BY <1>2, JobWrite
  <1>4. job' = Chained(t, r, k)
    BY <1>1 DEF Written
  <1> HIDE DEF t
  <1>5. /\ job' \in JobTables
        /\ \A q \in Submissions, m \in Jobs :
             job'[q][m].at = IF q = r /\ m = TerminalJob /\ k = 0 /\ t[r][0].at = "done" THEN "sending" ELSE t[q][m].at
    BY <1>3, <1>4, ChainedWrite
  <1>6. \A q \in Submissions, m \in Jobs :
          job'[q][m].at = IF q = r /\ m = k THEN a
                          ELSE IF q = r /\ m = TerminalJob /\ chain THEN "sending" ELSE job[q][m].at
    BY <1>3, <1>5, PyBounds
  <1>c. chain \in BOOLEAN /\ (chain => k = 0 /\ a = "done")
    OBVIOUS
  <1> HIDE DEF chain
  <1>7. \/ kept' = kept
        \/ \E st \in {"delivered", "callback_failed"} : k = 0 /\ a # "sending" /\ kept' = PyMarked({r}, st)
    BY DEF Ends, AfterDelivery
  <1>8. k = TerminalJob => job[r][k].at # "none" /\ a # "due"
    OBVIOUS
  <1> QED
    <2>1. JobMoves(r, k, a, chain)
      BY <1>5, <1>6, <1>7, <1>8, <1>c DEF JobMoves
    <2> QED
      BY <2>1, <1>c, PyJobMoves

\* Every step of the delivery layer.
LEMMA PyDeliverySteps ==
  ASSUME PyInv, NEW r \in Submissions, NEW k \in Jobs,
         \/ ScheduleEvent(r, k) \/ AttemptJob(r, k) \/ AbortJob(r, k) \/ SessionGone(r, k)
         \/ HookDone(r, k) \/ HookCut(r, k)
  PROVE  PyInv' /\ PyContractStep
PROOF
  <1>0. UNCHANGED <<pstate, session, open, taking, forced, draining, reply, fifo, drainDue, ran, handler>>
    BY DEF ScheduleEvent, AttemptJob, AbortJob, SessionGone, HookDone, HookCut
  <1>j. job \in JobTables
    BY DEF PyInv, PyTables
  <1>1. ASSUME NEW a \in {"sending", "done"}, job' = Written(job, r, k, a), kept' = kept,
               job[r][k].at \in {"due", "sending"}, a = "done" => job[r][k].at = "sending"
        PROVE  PyInv' /\ PyContractStep
    <2>1. a \in JobStates
      BY DEF JobStates
    <2>2. job' \in JobTables /\ \A q \in Submissions, m \in Jobs :
                                  job'[q][m].at = IF q = r /\ m = k THEN a ELSE job[q][m].at
      BY <1>1, <1>j, <2>1, JobWrite
    <2>3. k = 0 => job[r][0].at = "sending"
      BY <1>1 DEF PyInv, ResultFollowsRun
    <2>4. k = TerminalJob => job[r][k].at # "none"
      BY <1>1
    <2>5. job' \in JobTables /\ kept' = kept
      BY <1>1, <2>2
    <2>6. \A q \in Submissions, m \in Jobs :
            job'[q][m].at = IF q = r /\ m = k THEN a
                            ELSE IF q = r /\ m = TerminalJob /\ FALSE THEN "sending" ELSE job[q][m].at
      BY <2>2
    <2>7. JobMoves(r, k, a, FALSE)
      BY <1>0, <2>3, <2>4, <2>5, <2>6 DEF JobMoves
    <2> QED
      BY <2>7, PyJobMoves
  <1>2. CASE ScheduleEvent(r, k)
    BY <1>2, <1>1 DEF ScheduleEvent, Written
  <1>3. CASE job[r][k].at = "sending" /\ \E d \in BOOLEAN : Ends(r, k, d)
    BY <1>0, <1>3, PyEnds
  <1>4. CASE AbortJob(r, k)
    BY <1>3, <1>4 DEF AbortJob
  <1>5. CASE HookDone(r, k) \/ HookCut(r, k)
    <2> DEFINE t == Written(job, r, k, "done")
               chain == k = 0
    <2>0. "done" \in JobStates
      BY DEF JobStates
    <2>1. t \in JobTables /\ \A q \in Submissions, m \in Jobs : t[q][m].at = IF q = r /\ m = k THEN "done" ELSE job[q][m].at
      BY <1>j, <2>0, JobWrite
    <2>2. job' = Chained(t, r, k) /\ job[r][k].at = "notifying" /\ kept' = kept
      BY <1>5 DEF HookDone, HookCut, Written
    <2> HIDE DEF t
    <2>3. /\ job' \in JobTables
          /\ \A q \in Submissions, m \in Jobs :
               job'[q][m].at = IF q = r /\ m = TerminalJob /\ k = 0 /\ t[r][0].at = "done" THEN "sending" ELSE t[q][m].at
      BY <2>1, <2>2, ChainedWrite
    <2>4. \A q \in Submissions, m \in Jobs :
            job'[q][m].at = IF q = r /\ m = k THEN "done"
                            ELSE IF q = r /\ m = TerminalJob /\ chain THEN "sending" ELSE job[q][m].at
      BY <2>1, <2>3, PyBounds
    <2>5. chain \in BOOLEAN /\ (chain => k = 0)
      OBVIOUS
    <2> HIDE DEF chain
    <2> QED
      <3>1. JobMoves(r, k, "done", chain)
        BY <1>0, <2>2, <2>3, <2>4, <2>5 DEF JobMoves
      <3> QED
        BY <2>5, <3>1, PyJobMoves
  <1>6. CASE AttemptJob(r, k)
    <2>1. CASE job[r][k].tries + 1 # PyMaxAttempts /\ job' = [job EXCEPT ![r][k].tries = @ + 1] /\ UNCHANGED kept
      <3>0. job[r][k].at = "sending"
        BY <1>6 DEF AttemptJob
      <3> DEFINE n == job[r][k].tries + 1
                 w == [job[r][k] EXCEPT !.tries = n]
                 v == [job[r] EXCEPT ![k] = w]
      <3>1. job[r] \in [Jobs -> JobRows] /\ job[r][k] \in JobRows
        BY <1>j DEF JobTables
      <3>2. job' = [job EXCEPT ![r] = v]
        BY <1>j, <2>1, <3>1 DEF JobTables
      <3>3. n \in 0 .. PyMaxAttempts - 1
        BY <2>1, <3>1, PyBounds DEF JobRows
      <3> HIDE DEF n
      <3>4. w \in JobRows /\ w.at = "sending"
        BY <3>0, <3>1, <3>3 DEF JobRows
      <3> HIDE DEF w
      <3>5. v \in [Jobs -> JobRows] /\ v[k] = w /\ \A m \in Jobs : m # k => v[m] = job[r][m]
        BY <3>1, <3>4
      <3> HIDE DEF v
      <3>6. job' \in JobTables /\ job'[r] = v /\ \A q \in Submissions : q # r => job'[q] = job[q]
        BY <1>j, <3>2, <3>5 DEF JobTables
      <3>7. \A q \in Submissions, m \in Jobs : job'[q][m].at = IF q = r /\ m = k THEN "sending" ELSE job[q][m].at
        BY <3>4, <3>5, <3>6
      <3>8. kept' = kept
        BY <2>1
      <3>9. \A q \in Submissions, m \in Jobs :
              job'[q][m].at = IF q = r /\ m = k THEN "sending"
                              ELSE IF q = r /\ m = TerminalJob /\ FALSE THEN "sending" ELSE job[q][m].at
        BY <3>7
      <3>10. JobMoves(r, k, "sending", FALSE)
        BY <1>0, <3>0, <3>6, <3>8, <3>9 DEF JobMoves
      <3> QED
        BY <3>10, PyJobMoves
    <2> QED
      BY <2>1, <1>3, <1>6 DEF AttemptJob
  <1>7. CASE SessionGone(r, k)
    <2>1. CASE job' = [job EXCEPT ![r][k].at = "done"] /\ UNCHANGED kept
      BY <2>1, <1>1, <1>7 DEF SessionGone, Written
    <2> QED
      BY <2>1, <1>3, <1>7 DEF SessionGone
  <1> QED
    BY <1>2, <1>4, <1>5, <1>6, <1>7

\* An event's job is written, which neither settles a run nor is a terminal one.
EventIsDue(r, k) ==
  /\ k # 0 /\ k # TerminalJob /\ job' = Written(job, r, k, "due") /\ kept' = kept
  /\ UNCHANGED <<pstate, session, open, taking, forced, draining, reply, fifo, drainDue, ran, handler>>

LEMMA PyDueStep ==
  ASSUME PyInv, NEW r \in Submissions, NEW k \in Jobs, EventIsDue(r, k)
  PROVE  PyInv' /\ PyContractStep
PROOF
  <1>0. job \in JobTables /\ "due" \in JobStates /\ PyTables
    BY DEF PyInv, PyTables, JobStates
  <1>1. job' \in JobTables /\ \A q \in Submissions, m \in Jobs :
                                job'[q][m].at = IF q = r /\ m = k THEN "due" ELSE job[q][m].at
    BY <1>0, JobWrite DEF EventIsDue
  <1>2. \A q \in Submissions : job'[q][0].at = job[q][0].at /\ job'[q][TerminalJob].at = job[q][TerminalJob].at
    BY <1>1, PyBounds DEF EventIsDue
  <1>3. PyTables'
    BY <1>0, <1>1 DEF PyTables, EventIsDue
  <1>4. QueueIsRuns' /\ ResultFollowsRun'
    BY <1>2 DEF PyInv, QueueIsRuns, ResultFollowsRun, ActiveNow, EventIsDue
  <1>5. \A q \in Submissions : (OpenRun(q))' <=> OpenRun(q)
    BY <1>2 DEF OpenRun, EventIsDue
  <1>6. OpenRunIsKept' /\ DrainStages'
    BY <1>5 DEF PyInv, OpenRunIsKept, DrainStages, EventIsDue
  <1>7. UNCHANGED <<PyLife, PyWork>>
    BY <1>2 DEF PyLife, PyWork, EventIsDue
  <1> QED
    BY <1>3, <1>4, <1>6, <1>7, ContractStepForms DEF PyInv

LEMMA PyEmitStep ==
  ASSUME PyInv, NEW r \in Submissions, EmitEvent(r)
  PROVE  PyInv' /\ PyContractStep
PROOF
  <1>1. PICK k \in 2 .. HandlerEvents + 1 : job' = Written(job, r, k, "due")
    BY DEF EmitEvent, Written
  <1>2. k \in Jobs /\ k # 0 /\ k # TerminalJob
    BY PyBounds DEF Jobs, TerminalJob
  <1>3. EventIsDue(r, k)
    BY <1>1, <1>2 DEF EmitEvent, EventIsDue
  <1> QED
    BY <1>2, <1>3, PyDueStep

\* Records, runs and jobs stay, the lifecycle or an answer moves.
LEMMA PyLifeSteps ==
  ASSUME PyInv,
         \/ StartWorker \/ Bind \/ StopWorker \/ GraceEnds \/ DrainEnds \/ CloseWorker
         \/ \E r \in Submissions : ReceiveRun(r) \/ RefuseRun(r) \/ ThreadEnds(r)
  PROVE  PyInv' /\ PyContractStep
PROOF
  <1>0. PyTables
    BY DEF PyInv
  <1>1. UNCHANGED <<kept, fifo, ran, job>>
    BY DEF StartWorker, Bind, StopWorker, GraceEnds, DrainEnds, CloseWorker, ReceiveRun, RefuseRun, ThreadEnds
  <1>2. PyTables'
    <2>1. CASE StartWorker \/ GraceEnds \/ DrainEnds
      BY <2>1, <1>0 DEF StartWorker, GraceEnds, DrainEnds, PyTables
    <2>2. CASE Bind \/ StopWorker
      BY <2>2, <1>0 DEF Bind, StopWorker, PyTables
    <2>3. CASE CloseWorker
      BY <2>3, <1>0 DEF CloseWorker, PyTables
    <2>4. CASE \E r \in Submissions : ReceiveRun(r) \/ RefuseRun(r) \/ ThreadEnds(r)
      BY <2>4, <1>0 DEF ReceiveRun, RefuseRun, ThreadEnds, PyTables
    <2> QED
      BY <2>1, <2>2, <2>3, <2>4
  <1>3. QueueIsRuns'
    BY <1>1 DEF PyInv, QueueIsRuns, ActiveNow
  <1>4. \A r \in Submissions : reply'[r] \in {"new", "reading"} => reply[r] \in {"new", "reading"}
    BY <1>0 DEF StartWorker, Bind, StopWorker, GraceEnds, DrainEnds, CloseWorker, ReceiveRun, RefuseRun, ThreadEnds,
                PyTables
  <1>5. ResultFollowsRun'
    BY <1>1, <1>4 DEF PyInv, ResultFollowsRun
  <1>6. \A r \in Submissions : (OpenRun(r))' <=> OpenRun(r)
    BY <1>1 DEF OpenRun
  <1>7. OpenRunIsKept'
    BY <1>1, <1>6 DEF PyInv, OpenRunIsKept
  <1>8. UNCHANGED PyWork
    BY <1>1 DEF PyWork
  <1>9. DrainStages' /\ PyContractStep
    <2>1. CASE StartWorker \/ GraceEnds \/ \E r \in Submissions : ReceiveRun(r) \/ RefuseRun(r) \/ ThreadEnds(r)
      <3>1. UNCHANGED <<PyLife, draining>> /\ (pstate' = "running" <=> pstate = "running")
            /\ (pstate' \in {"stopping", "stopped"} <=> pstate \in {"stopping", "stopped"})
        BY <2>1 DEF StartWorker, GraceEnds, ReceiveRun, RefuseRun, ThreadEnds, PyLife
      <3>2. DrainStages'
        BY <3>1, <1>1, <1>6 DEF PyInv, DrainStages
      <3> QED
        BY <3>1, <3>2, <1>8, ContractStepForms
    <2>2. CASE Bind
      <3>0. draining = "no" /\ pstate # "running"
        BY <2>2 DEF Bind
      <3>1. \A r \in Submissions : ran[r] = "none" /\ PyWork[r] # "open"
        BY <3>0, PyWorkSays DEF PyInv, DrainStages, OpenRun
      <3>2. DrainStages'
        BY <2>2, <3>0, <3>1, <1>1, <1>6 DEF Bind, DrainStages, PyInv, OpenRun
      <3>3. \/ PyLife = "down" /\ PyLife' = "up"
            \/ UNCHANGED PyLife
            \/ PyLife = "stopping" /\ PyLife' = "stopped"
        BY <2>2 DEF Bind, PyLife
      <3> QED
        BY <3>1, <3>2, <3>3, <1>8, ContractStepForms
    <2>3. CASE StopWorker
      <3>1. DrainStages'
        BY <2>3, <1>1, <1>6 DEF StopWorker, DrainStages, PyInv
      <3>2. CASE pstate \in {"created", "failed"} /\ pstate' = "stopped"
        <4>1. draining = "no"
          BY <3>2, <1>0 DEF PyInv, DrainStages, PyTables
        <4>2. \A r \in Submissions : PyWork[r] # "open"
          BY <4>1, <3>2, PyWorkSays DEF PyInv, DrainStages, OpenRun
        <4>3. PyLife = "down" /\ PyLife' = "stopped"
          BY <3>2 DEF PyLife
        <4> QED
          BY <3>1, <4>2, <4>3, <1>8, ContractStepForms
      <3>3. CASE pstate \in {"starting", "running"} /\ pstate' = "stopping"
        <4>1. PyLife \in {"down", "up"} /\ PyLife' = "stopping"
          BY <3>3 DEF PyLife
        <4> QED
          BY <3>1, <4>1, <1>8, ContractStepForms
      <3> QED
        BY <2>3, <3>2, <3>3 DEF StopWorker
    <2>4. CASE DrainEnds
      <3>1. ASSUME NEW r \in Submissions
            PROVE  ~OpenRun(r)
        <4>1. /\ ran[r] # "active" /\ ran[r] # "queued" /\ job[r][0].at \notin {"sending", "notifying"}
          <5>1. ~Holds(fifo, r)
            BY <2>4, EmptyQueue DEF DrainEnds, AllDrained
          <5>2. ran[r] # "queued"
            BY <5>1 DEF PyInv, QueueIsRuns
          <5> QED
            BY <2>4, <5>2, PyBounds DEF DrainEnds, AllDrained, ActiveNow, Tracked
        <4>2. job[r][0].at \in JobStates
          BY <1>0, PyBounds DEF PyTables, JobTables, JobRows
        <4>3. ran[r] \in {"none", "over"} /\ job[r][0].at \in {"none", "due", "done"}
          BY <4>1, <4>2, <1>0 DEF PyTables, JobStates
        <4> QED
          BY <4>3 DEF OpenRun, PyInv, ResultFollowsRun
      <3>2. draining = "drain" /\ draining' = "close" /\ UNCHANGED pstate
        BY <2>4 DEF DrainEnds
      <3>3. DrainStages'
        BY <3>1, <3>2, <1>1, <1>6 DEF DrainStages, PyInv
      <3>4. UNCHANGED PyLife
        BY <3>2 DEF PyLife
      <3> QED
        BY <3>3, <3>4, <1>8, ContractStepForms
    <2>5. CASE CloseWorker
      <3>1. draining = "close" /\ pstate = "stopping" /\ pstate' = "stopped" /\ draining' = draining
        BY <2>5 DEF CloseWorker
      <3>2. \A r \in Submissions : PyWork[r] # "open"
        BY <3>1, PyWorkSays DEF PyInv, DrainStages
      <3>3. DrainStages'
        BY <3>1, <1>1, <1>6 DEF DrainStages, PyInv
      <3>4. PyLife = "stopping" /\ PyLife' = "stopped"
        BY <3>1 DEF PyLife
      <3> QED
        BY <3>2, <3>3, <3>4, <1>8, ContractStepForms
    <2> QED
      BY <2>1, <2>2, <2>3, <2>4, <2>5
  <1> QED
    BY <1>2, <1>3, <1>5, <1>7, <1>9 DEF PyInv

\* The store forgets by age only what is settled.
LEMMA PyRecordSteps ==
  ASSUME PyInv, CleanupRecords \/ \E i \in PyKeys : RecordAges(i)
  PROVE  PyInv' /\ PyContractStep
PROOF
  <1>0. PyTables /\ kept \in [PyKeys -> {NoPyRecord} \cup KeptRows]
    BY DEF PyInv, PyTables
  <1>1. UNCHANGED <<pstate, session, open, taking, forced, draining, reply, fifo, drainDue, ran, handler, job>>
    BY DEF CleanupRecords, RecordAges
  <1>2. /\ kept' \in [PyKeys -> {NoPyRecord} \cup KeptRows]
        /\ \A j \in PyKeys : kept[j] # NoPyRecord /\ kept[j].state \in Unsettled =>
             kept'[j] # NoPyRecord /\ kept'[j].by = kept[j].by /\ kept'[j].state = kept[j].state
    <2>1. CASE CleanupRecords
      <3>1. kept' = [j \in PyKeys |-> IF ForgottenRecord(kept[j]) THEN NoPyRecord ELSE kept[j]]
        BY <2>1 DEF CleanupRecords
      <3>2. \A j \in PyKeys : kept[j].state \in Unsettled => ~ForgottenRecord(kept[j])
        BY DEF ForgottenRecord, Unsettled
      <3> QED
        BY <3>1, <3>2, <1>0
    <2>2. ASSUME NEW i \in PyKeys, RecordAges(i)
          PROVE  /\ kept' \in [PyKeys -> {NoPyRecord} \cup KeptRows]
                 /\ \A j \in PyKeys : kept[j] # NoPyRecord /\ kept[j].state \in Unsettled =>
                      kept'[j] # NoPyRecord /\ kept'[j].by = kept[j].by /\ kept'[j].state = kept[j].state
      <3> DEFINE w == [kept[i] EXCEPT !.old = TRUE]
      <3>1. kept[i] \in KeptRows
        BY <2>2, <1>0 DEF RecordAges
      <3>2. kept' = [kept EXCEPT ![i] = w]
        BY <2>2, <1>0 DEF RecordAges
      <3>3. w \in KeptRows /\ w.by = kept[i].by /\ w.state = kept[i].state
        BY <3>1 DEF KeptRows
      <3>4. \A v \in KeptRows : v # NoPyRecord
        BY DEF KeptRows, NoPyRecord
      <3> HIDE DEF w
      <3> QED
        BY <3>2, <3>3, <3>4, <1>0
    <2> QED
      BY <2>1, <2>2
  <1>3. PyTables'
    BY <1>0, <1>1, <1>2 DEF PyTables
  <1>4. QueueIsRuns' /\ ResultFollowsRun'
    BY <1>1 DEF PyInv, QueueIsRuns, ResultFollowsRun, ActiveNow
  <1>5. \A r \in Submissions : (OpenRun(r))' <=> OpenRun(r)
    BY <1>1 DEF OpenRun
  <1>6. OpenRunIsKept'
    BY <1>2, <1>5, PyBounds DEF PyInv, OpenRunIsKept
  <1>7. DrainStages'
    BY <1>1, <1>5 DEF PyInv, DrainStages
  <1>8. UNCHANGED <<PyLife, PyWork>>
    BY <1>1 DEF PyLife, PyWork
  <1> QED
    BY <1>3, <1>4, <1>6, <1>7, <1>8, ContractStepForms DEF PyInv

LEMMA PyEndRunStep ==
  ASSUME PyInv, NEW r \in Submissions, EndPyRun(r)
  PROVE  PyInv' /\ PyContractStep
PROOF
  <1>0. PyTables /\ job \in JobTables /\ "sending" \in JobStates
    BY DEF PyInv, PyTables, JobStates
  <1>1. /\ ran[r] = "active" /\ ran' = [ran EXCEPT ![r] = "over"]
        /\ job' = Written(job, r, 0, "sending") /\ kept' = PyMarked({r}, "callback_pending")
        /\ UNCHANGED <<pstate, session, open, taking, forced, draining, reply, fifo>>
        /\ drainDue' \in BOOLEAN
    BY DEF EndPyRun, Written
  <1>2. handler' \in [Submissions -> {"idle", "on", "detached", "done"}]
    BY <1>0 DEF EndPyRun, PyTables
  <1>3. /\ job' \in JobTables
        /\ \A q \in Submissions, m \in Jobs : job'[q][m].at = IF q = r /\ m = 0 THEN "sending" ELSE job[q][m].at
    BY <1>0, <1>1, JobWrite, PyBounds
  <1>4. /\ kept' \in [PyKeys -> {NoPyRecord} \cup KeptRows]
        /\ \A i \in PyKeys : kept[i] # NoPyRecord =>
             /\ kept'[i] # NoPyRecord /\ kept'[i].by = kept[i].by
             /\ kept'[i].state = IF kept[i].by \in {r} THEN "callback_pending" ELSE kept[i].state
    <2>1. {r} \in SUBSET Submissions
      OBVIOUS
    <2>2. kept \in [PyKeys -> {NoPyRecord} \cup KeptRows]
      BY <1>0 DEF PyTables
    <2>3. /\ PyMarked({r}, "callback_pending") \in [PyKeys -> {NoPyRecord} \cup KeptRows]
          /\ \A i \in PyKeys : kept[i] # NoPyRecord =>
               /\ PyMarked({r}, "callback_pending")[i] # NoPyRecord
               /\ PyMarked({r}, "callback_pending")[i].by = kept[i].by
               /\ PyMarked({r}, "callback_pending")[i].state =
                    IF kept[i].by \in {r} THEN "callback_pending" ELSE kept[i].state
      BY <2>1, <2>2, MarkedWrite
    <2> QED
      BY <2>3, <1>1
  <1>5. \A q \in Submissions : ran'[q] = IF q = r THEN "over" ELSE ran[q]
    BY <1>0, <1>1 DEF PyTables
  <1>6. PyTables'
    <2>1. ran' \in [Submissions -> {"none", "queued", "active", "over"}]
      BY <1>0, <1>1 DEF PyTables
    <2> QED
      BY <1>0, <1>1, <1>2, <1>3, <1>4, <2>1 DEF PyTables
  <1>7. QueueIsRuns'
    <2>1. ActiveNow' \subseteq ActiveNow
      BY <1>5 DEF ActiveNow
    <2>2. IsFiniteSet(ActiveNow')
      BY <2>1, FS_Subset DEF PyInv, QueueIsRuns
    <2>3. \A q \in Submissions : ran'[q] = "queued" <=> ran[q] = "queued"
      BY <1>1, <1>5
    <2>4. Distinct(fifo') /\ \A q \in Submissions : ran'[q] = "queued" <=> Holds(fifo', q)
      BY <2>3, <1>1 DEF PyInv, QueueIsRuns
    <2> QED
      BY <2>2, <2>4 DEF QueueIsRuns
  <1>8. /\ job[r][0].at = "none" /\ OpenRun(r)
        /\ \A q \in Submissions : job'[q][0].at = IF q = r THEN "sending" ELSE job[q][0].at
    BY <1>1, <1>3, PyBounds DEF PyInv, ResultFollowsRun, OpenRun
  <1>9. ResultFollowsRun'
    <2>1. \A q \in Submissions : job'[q][TerminalJob].at = job[q][TerminalJob].at
      BY <1>3, PyBounds
    <2>2. \A q \in Submissions :
            /\ reply'[q] \in {"new", "reading"} => ran'[q] = "none"
            /\ job'[q][0].at # "none" <=> ran'[q] = "over"
            /\ job'[q][0].at # "due"
      BY <1>1, <1>5, <1>8 DEF PyInv, ResultFollowsRun
    <2> QED
      BY <2>1, <2>2, <1>8 DEF PyInv, ResultFollowsRun
  <1>10. \A q \in Submissions : (OpenRun(q))' <=> OpenRun(q)
    BY <1>1, <1>5, <1>8 DEF OpenRun
  <1>11. OpenRunIsKept'
    BY <1>4, <1>10, PyBounds DEF PyInv, OpenRunIsKept, Unsettled
  <1>12. DrainStages'
    <2>1. draining # "close" /\ ~(draining = "no" /\ pstate # "running")
      BY <1>1, <1>8 DEF PyInv, DrainStages
    <2> QED
      BY <2>1, <1>1 DEF PyInv, DrainStages
  <1>13. UNCHANGED <<PyLife, PyWork>>
    BY <1>1, <1>5, <1>8 DEF PyLife, PyWork
  <1> QED
    BY <1>6, <1>7, <1>9, <1>11, <1>12, <1>13, ContractStepForms DEF PyInv

\* The code behind the submission lock: a run is taken on when its key is free,
\* and nothing else is lost from the store but what it may forget.
LEMMA PySubmitStep ==
  ASSUME PyInv, NEW r \in Submissions, SubmitRun(r)
  PROVE  PyInv' /\ PyContractStep
PROOF
  <1>0. /\ PyTables /\ job \in JobTables /\ kept \in [PyKeys -> {NoPyRecord} \cup KeptRows]
        /\ KeyOf[r] \in PyKeys /\ reply[r] = "reading" /\ ran[r] = "none"
    BY PyBounds DEF PyInv, PyTables, SubmitRun, ResultFollowsRun
  <1>1. UNCHANGED <<pstate, session, open, taking, forced, draining, handler>> /\ reply' = [reply EXCEPT ![r] = Verdict(r)]
    BY DEF SubmitRun
  <1>2. /\ Verdict(r) \in {"not_ready", "duplicate", "conflict", "queue_full", "capacity_full", "accepted"}
        /\ Verdict(r) = "accepted" => Ready /\ LookUp(r) = "miss"
    <2>1. LookUp(r) \in {"miss", "duplicate", "conflict"}
      BY DEF LookUp
    <2> DEFINE l == LookUp(r)
               big == Cardinality(Survivors(r)) >= PyMaxEntries
    <2>2. Verdict(r) = CASE ~ReadyAgain -> "not_ready"
                         [] ReadyAgain /\ l # "miss" -> l
                         [] ReadyAgain /\ l = "miss" /\ ~HasRoom -> "queue_full"
                         [] ReadyAgain /\ l = "miss" /\ HasRoom /\ big -> "capacity_full"
                         [] OTHER -> "accepted"
      BY DEF Verdict
    <2> HIDE DEF l, big
    <2>3. l \in {"miss", "duplicate", "conflict"}
      BY <2>1 DEF l
    <2>4. CASE ~ReadyAgain
      BY <2>2, <2>4
    <2>5. CASE ReadyAgain /\ l # "miss"
      BY <2>2, <2>3, <2>5
    <2>6. CASE ReadyAgain /\ l = "miss"
      <3>1. Verdict(r) \in {"queue_full", "capacity_full", "accepted"}
        BY <2>2, <2>6
      <3> QED
        BY <3>1, <2>6 DEF ReadyAgain, l
    <2> QED
      BY <2>4, <2>5, <2>6
  <1>3. \A q \in Submissions : q # r => reply'[q] = reply[q]
    BY <1>0, <1>1 DEF PyTables
  <1>4. /\ reply'[r] \notin {"new", "reading"}
        /\ reply' \in [Submissions -> {"new", "reading", "rejected", "not_ready", "accepted", "duplicate",
                                       "conflict", "queue_full", "capacity_full", "dropped"}]
    BY <1>0, <1>1, <1>2 DEF PyTables
  \* An open run's record is not forgotten, so a key that misses has none.
  <1>5. LookUp(r) = "miss" => \A q \in Submissions : KeyOf[q] = KeyOf[r] => ~OpenRun(q)
    <2> SUFFICES ASSUME NEW q \in Submissions, KeyOf[q] = KeyOf[r], OpenRun(q)
                 PROVE  LookUp(r) # "miss"
      OBVIOUS
    <2>1. kept[KeyOf[r]] # NoPyRecord /\ kept[KeyOf[r]].state \in Unsettled
      BY DEF PyInv, OpenRunIsKept
    <2>2. ~ForgottenRecord(kept[KeyOf[r]])
      BY <2>1 DEF ForgottenRecord, Unsettled
    <2> QED
      BY <2>1, <2>2 DEF LookUp
  <1>6. UNCHANGED PyLife
    BY <1>1 DEF PyLife
  <1>7. CASE Verdict(r) # "accepted"
    <2>1. UNCHANGED <<fifo, drainDue, ran, job>>
      BY <1>7 DEF SubmitRun
    <2>2. kept' = kept \/ (LookUp(r) = "miss" /\ kept' = [kept EXCEPT ![KeyOf[r]] = NoPyRecord])
      BY <1>7 DEF SubmitRun
    <2>3. kept' \in [PyKeys -> {NoPyRecord} \cup KeptRows]
      BY <1>0, <2>2
    <2>4. PyTables'
      BY <1>0, <1>1, <1>4, <2>1, <2>3 DEF PyTables
    <2>5. QueueIsRuns'
      BY <2>1 DEF PyInv, QueueIsRuns, ActiveNow
    <2>6. ResultFollowsRun'
      BY <1>3, <1>4, <2>1 DEF PyInv, ResultFollowsRun
    <2>7. \A q \in Submissions : (OpenRun(q))' <=> OpenRun(q)
      BY <2>1 DEF OpenRun
    <2>8. ASSUME NEW q \in Submissions, OpenRun(q)
          PROVE  kept'[KeyOf[q]] = kept[KeyOf[q]]
      <3>1. KeyOf[q] \in PyKeys
        BY PyBounds
      <3> QED
        BY <3>1, <2>8, <1>0, <1>5, <2>2
    <2>9. OpenRunIsKept'
      BY <2>7, <2>8 DEF PyInv, OpenRunIsKept
    <2>10. DrainStages'
      BY <1>1, <2>1, <2>7 DEF PyInv, DrainStages
    <2>11. UNCHANGED PyWork
      BY <2>1 DEF PyWork
    <2> QED
      BY <1>6, <2>4, <2>5, <2>6, <2>9, <2>10, <2>11, ContractStepForms DEF PyInv
  <1>8. CASE Verdict(r) = "accepted"
    <2>0. Ready /\ LookUp(r) = "miss"
      BY <1>2, <1>8
    <2>1. /\ kept' = PyRecorded(r) /\ fifo' = Append(fifo, r) /\ drainDue' = TRUE
          /\ ran' = [ran EXCEPT ![r] = "queued"] /\ job' = Written(job, r, AcceptedJob, "sending")
      BY <1>8 DEF SubmitRun, Written
    <2>2. "sending" \in JobStates /\ AcceptedJob \in Jobs
      BY PyBounds DEF JobStates
    <2>3. /\ job' \in JobTables
          /\ \A q \in Submissions, m \in Jobs :
               job'[q][m].at = IF q = r /\ m = AcceptedJob THEN "sending" ELSE job[q][m].at
      BY <1>0, <2>1, <2>2, JobWrite
    <2>4. \A q \in Submissions : job'[q][0].at = job[q][0].at /\ job'[q][TerminalJob].at = job[q][TerminalJob].at
      BY <2>3, PyBounds
    <2>5. ran' \in [Submissions -> {"none", "queued", "active", "over"}]
          /\ \A q \in Submissions : ran'[q] = IF q = r THEN "queued" ELSE ran[q]
      BY <1>0, <2>1 DEF PyTables
    <2> DEFINE new == [by |-> r, old |-> FALSE, state |-> "queued"]
    <2>6. new \in KeptRows /\ new.by = r /\ new.state \in Unsettled /\ new # NoPyRecord
      BY DEF KeptRows, Unsettled, NoPyRecord
    <2>7. kept' = [i \in PyKeys |-> IF i = KeyOf[r] THEN new ELSE IF i \in Survivors(r) THEN kept[i] ELSE NoPyRecord]
      BY <2>1 DEF PyRecorded
    <2> HIDE DEF new
    <2>8. kept' \in [PyKeys -> {NoPyRecord} \cup KeptRows]
      <3>1. \A i \in PyKeys : kept[i] \in {NoPyRecord} \cup KeptRows
        BY <1>0
      <3> QED
        BY <3>1, <2>6, <2>7
    <2>9. \A i \in PyKeys : i # KeyOf[r] /\ kept[i] # NoPyRecord /\ kept[i].state \in Unsettled => kept'[i] = kept[i]
      <3>1. \A i \in PyKeys : kept[i].state \in Unsettled => ~ForgottenRecord(kept[i])
        BY DEF ForgottenRecord, Unsettled
      <3>2. \A i \in PyKeys : i # KeyOf[r] /\ kept[i] # NoPyRecord /\ ~ForgottenRecord(kept[i]) => i \in Survivors(r)
        BY DEF Survivors
      <3> QED
        BY <3>1, <3>2, <2>7
    <2>10. ~Holds(fifo, r)
      BY <1>0 DEF PyInv, QueueIsRuns
    <2>11. /\ fifo' \in Seq(Submissions) /\ Distinct(fifo')
           /\ \A x : Holds(fifo', x) <=> Holds(fifo, x) \/ x = r
      <3>1. fifo \in Seq(Submissions) /\ Distinct(fifo)
        BY DEF PyInv, PyTables, QueueIsRuns
      <3> QED
        BY <3>1, <2>1, <2>10, PutLast
    <2>12. PyTables'
      BY <1>0, <1>1, <1>4, <2>1, <2>3, <2>5, <2>8, <2>11 DEF PyTables
    <2>13. QueueIsRuns'
      <3>1. ActiveNow' = ActiveNow
        BY <2>5, <1>0 DEF ActiveNow
      <3>2. \A q \in Submissions : ran'[q] = "queued" <=> Holds(fifo', q)
        BY <2>5, <2>11 DEF PyInv, QueueIsRuns
      <3> QED
        BY <3>1, <3>2, <2>11 DEF PyInv, QueueIsRuns
    <2>14. ResultFollowsRun'
      BY <1>0, <1>3, <1>4, <2>4, <2>5 DEF PyInv, ResultFollowsRun
    <2>15. \A q \in Submissions : q # r => ((OpenRun(q))' <=> OpenRun(q))
      BY <2>4, <2>5 DEF OpenRun
    <2>16. ASSUME NEW q \in Submissions, (OpenRun(q))'
           PROVE  /\ kept'[KeyOf[q]] # NoPyRecord
                  /\ kept'[KeyOf[q]].by = q /\ kept'[KeyOf[q]].state \in Unsettled
      <3>1. CASE q = r
        BY <3>1, <1>0, <2>6, <2>7
      <3>2. CASE q # r
        <4>1. OpenRun(q)
          BY <3>2, <2>15, <2>16
        <4>2. KeyOf[q] \in PyKeys /\ KeyOf[q] # KeyOf[r]
          BY <4>1, <2>0, <1>5, PyBounds
        <4> QED
          BY <4>1, <4>2, <2>9 DEF PyInv, OpenRunIsKept
      <3> QED
        BY <3>1, <3>2
    <2>17. OpenRunIsKept'
      BY <2>16 DEF OpenRunIsKept
    <2>18. DrainStages'
      <3>1. pstate = "running" /\ draining = "no"
        BY <2>0 DEF Ready, PyInv, DrainStages
      <3> QED
        BY <3>1, <1>1 DEF DrainStages
    <2>19. PyContractStep
      <3>1. PyLife = "up"
        BY <2>0 DEF PyLife, Ready
      <3>2. PyWork[r] = "none" /\ \A q \in Submissions : KeyOf[q] = KeyOf[r] => PyWork[q] # "open"
        BY <1>0, <1>5, <2>0, PyWorkSays
      <3>3. job[r][0].at = "none"
        BY <1>0, PyBounds DEF PyInv, ResultFollowsRun
      <3>4. PyWork' = [PyWork EXCEPT ![r] = "open"]
        BY <2>4, <2>5, <3>3 DEF PyWork
      <3> QED
        BY <1>6, <3>1, <3>2, <3>4, ContractStepForms
    <2> QED
      BY <2>12, <2>13, <2>14, <2>17, <2>18, <2>19 DEF PyInv
  <1> QED
    BY <1>7, <1>8

\* What stays of the state when runs only change hands between queue and slots.
LEMMA PyDrainStep ==
  ASSUME PyInv, DrainQueue
  PROVE  PyInv' /\ PyContractStep
PROOF
  <1> DEFINE c == Cardinality(ActiveNow)
             free == IF c < PyConcurrency THEN PyConcurrency - c ELSE 0
             n == IF ~taking THEN 0 ELSE IF Len(fifo) < free THEN Len(fifo) ELSE free
             first == {fifo[k] : k \in 1 .. n}
             rest == SubSeq(fifo, n + 1, Len(fifo))
  <1>0. PyTables /\ fifo \in Seq(Submissions) /\ Distinct(fifo) /\ IsFiniteSet(ActiveNow)
        /\ kept \in [PyKeys -> {NoPyRecord} \cup KeptRows]
    BY DEF PyInv, PyTables, QueueIsRuns
  <1>1. /\ drainDue' = FALSE /\ fifo' = rest /\ StartHandlers(first)
        /\ ran' = [r \in Submissions |-> IF r \in first THEN "active" ELSE ran[r]]
        /\ UNCHANGED <<pstate, session, open, taking, forced, draining, reply, job>>
    BY DEF DrainQueue
  <1>2. n \in 0 .. Len(fifo)
    <2>1. c \in Nat
      BY <1>0, FS_CardinalityType
    <2>2. PyConcurrency \in Nat /\ Len(fifo) \in Nat
      BY <1>0, PyBounds
    <2> HIDE DEF c
    <2>3. free \in Nat
      BY <2>1, <2>2
    <2> HIDE DEF free
    <2> QED
      BY <2>2, <2>3
  <1> HIDE DEF n
  <1>3. /\ rest \in Seq(Submissions) /\ Distinct(rest) /\ Len(rest) = Len(fifo) - n
        /\ \A x : Holds(rest, x) <=> Holds(fifo, x) /\ x \notin first
        /\ \A x \in first : x \in Submissions /\ Holds(fifo, x)
        /\ IsFiniteSet(first)
    BY <1>0, <1>2, TakeFirst
  <1> HIDE DEF first, rest
  <1>4. first \in SUBSET Submissions /\ \A r \in first : ran[r] = "queued"
    BY <1>3 DEF PyInv, QueueIsRuns
  <1>5. /\ ran' \in [Submissions -> {"none", "queued", "active", "over"}]
        /\ \A r \in Submissions : ran'[r] = IF r \in first THEN "active" ELSE ran[r]
    BY <1>0, <1>1 DEF PyTables
  <1>6. /\ kept' \in [PyKeys -> {NoPyRecord} \cup KeptRows]
        /\ \A i \in PyKeys : kept[i] # NoPyRecord =>
             /\ kept'[i] # NoPyRecord /\ kept'[i].by = kept[i].by
             /\ kept'[i].state = IF kept[i].by \in first THEN "running" ELSE kept[i].state
    <2>1. /\ PyMarked(first, "running") \in [PyKeys -> {NoPyRecord} \cup KeptRows]
          /\ \A i \in PyKeys : kept[i] # NoPyRecord =>
               /\ PyMarked(first, "running")[i] # NoPyRecord
               /\ PyMarked(first, "running")[i].by = kept[i].by
               /\ PyMarked(first, "running")[i].state = IF kept[i].by \in first THEN "running" ELSE kept[i].state
      BY <1>0, <1>4, MarkedWrite
    <2>2. kept' = PyMarked(first, "running")
      BY <1>1 DEF StartHandlers
    <2> QED
      BY <2>1, <2>2
  <1>7. handler' \in [Submissions -> {"idle", "on", "detached", "done"}]
    BY <1>0, <1>1 DEF StartHandlers, PyTables
  <1>8. PyTables'
    BY <1>0, <1>1, <1>3, <1>5, <1>6, <1>7 DEF PyTables
  <1>9. QueueIsRuns'
    <2>1. ActiveNow' \subseteq ActiveNow \cup first
      BY <1>5 DEF ActiveNow
    <2>2. IsFiniteSet(ActiveNow \cup first)
      BY <1>0, <1>3, FS_Union
    <2>3. IsFiniteSet(ActiveNow')
      BY <2>1, <2>2, FS_Subset
    <2>4. \A r \in Submissions : ran'[r] = "queued" <=> Holds(fifo', r)
      BY <1>1, <1>3, <1>5 DEF PyInv, QueueIsRuns
    <2> QED
      BY <2>3, <2>4, <1>1, <1>3 DEF QueueIsRuns
  <1>10. ResultFollowsRun'
    <2>1. \A r \in Submissions : (ran'[r] = "over" <=> ran[r] = "over") /\ (ran'[r] = "none" <=> ran[r] = "none")
      BY <1>4, <1>5
    <2> QED
      BY <1>1, <2>1 DEF PyInv, ResultFollowsRun
  <1>11. \A r \in Submissions : (ran'[r] = "none" <=> ran[r] = "none") /\ ((OpenRun(r))' <=> OpenRun(r))
    BY <1>1, <1>4, <1>5 DEF OpenRun
  <1>12. OpenRunIsKept'
    BY <1>6, <1>11, PyBounds DEF PyInv, OpenRunIsKept, Unsettled
  <1>13. DrainStages'
    <2>1. fifo = <<>> => fifo' = <<>>
      BY <1>0, <1>1, <1>2, <1>3
    <2> QED
      BY <1>1, <1>11, <2>1 DEF PyInv, DrainStages
  <1>14. UNCHANGED <<PyLife, PyWork>>
    BY <1>1, <1>11 DEF PyLife, PyWork
  <1> QED
    BY <1>8, <1>9, <1>10, <1>12, <1>13, <1>14, ContractStepForms DEF PyInv

LEMMA PyStopSchedulerStep ==
  ASSUME PyInv, StopScheduler
  PROVE  PyInv' /\ PyContractStep
PROOF
  <1> DEFINE queued == ToSet(fifo)
  <1>0. /\ PyTables /\ fifo \in Seq(Submissions) /\ job \in JobTables /\ "sending" \in JobStates
        /\ kept \in [PyKeys -> {NoPyRecord} \cup KeptRows]
    BY DEF PyInv, PyTables, JobStates
  <1>1. /\ draining = "scheduler" /\ draining' = "drain" /\ taking' = FALSE /\ fifo' = <<>>
        /\ ran' = [r \in Submissions |-> IF r \in queued THEN "over" ELSE ran[r]]
        /\ job' = [r \in Submissions |-> IF r \in queued THEN [job[r] EXCEPT ![0].at = "sending"] ELSE job[r]]
        /\ kept' = PyMarked(queued, "callback_pending")
        /\ UNCHANGED <<pstate, session, open, forced, reply, drainDue, handler>>
    BY DEF StopScheduler
  <1>2. \A r \in Submissions : r \in queued <=> ran[r] = "queued"
    <2>1. \A x : x \in queued <=> Holds(fifo, x)
      BY <1>0 DEF ToSet, Holds
    <2> QED
      BY <2>1 DEF PyInv, QueueIsRuns
  <1>3. queued \in SUBSET Submissions
    BY <1>0 DEF ToSet
  <1> HIDE DEF queued
  <1>4. /\ ran' \in [Submissions -> {"none", "queued", "active", "over"}]
        /\ \A r \in Submissions : ran'[r] = IF ran[r] = "queued" THEN "over" ELSE ran[r]
    BY <1>0, <1>1, <1>2 DEF PyTables
  <1>5. ASSUME NEW r \in Submissions
        PROVE  /\ job'[r] \in [Jobs -> JobRows]
               /\ \A m \in Jobs : job'[r][m].at = IF r \in queued /\ m = 0 THEN "sending" ELSE job[r][m].at
    <2>1. CASE r \notin queued
      BY <2>1, <1>0, <1>1 DEF JobTables
    <2>2. CASE r \in queued
      <3>1. job'[r] = Written(job, r, 0, "sending")[r]
        BY <2>2, <1>0, <1>1 DEF JobTables, Written
      <3>2. 0 \in Jobs
        BY PyBounds
      <3>3. /\ Written(job, r, 0, "sending") \in JobTables
            /\ \A q \in Submissions, m \in Jobs :
                 Written(job, r, 0, "sending")[q][m].at = IF q = r /\ m = 0 THEN "sending" ELSE job[q][m].at
        BY <1>0, <3>2, JobWrite
      <3>4. Written(job, r, 0, "sending")[r] \in [Jobs -> JobRows]
        BY <3>3 DEF JobTables
      <3> QED
        BY <2>2, <3>1, <3>3, <3>4
    <2> QED
      BY <2>1, <2>2
  <1>6. job' \in JobTables
    <2>1. job' = [r \in Submissions |-> job'[r]]
      BY <1>1
    <2> QED
      BY <2>1, <1>5 DEF JobTables
  <1>7. \A r \in Submissions : /\ job'[r][0].at = IF ran[r] = "queued" THEN "sending" ELSE job[r][0].at
                               /\ job'[r][TerminalJob].at = job[r][TerminalJob].at
    BY <1>2, <1>5, PyBounds
  <1>8. /\ kept' \in [PyKeys -> {NoPyRecord} \cup KeptRows]
        /\ \A i \in PyKeys : kept[i] # NoPyRecord =>
             /\ kept'[i] # NoPyRecord /\ kept'[i].by = kept[i].by
             /\ kept'[i].state = IF kept[i].by \in queued THEN "callback_pending" ELSE kept[i].state
    <2>1. /\ PyMarked(queued, "callback_pending") \in [PyKeys -> {NoPyRecord} \cup KeptRows]
          /\ \A i \in PyKeys : kept[i] # NoPyRecord =>
               /\ PyMarked(queued, "callback_pending")[i] # NoPyRecord
               /\ PyMarked(queued, "callback_pending")[i].by = kept[i].by
               /\ PyMarked(queued, "callback_pending")[i].state =
                    IF kept[i].by \in queued THEN "callback_pending" ELSE kept[i].state
      BY <1>0, <1>3, MarkedWrite
    <2> QED
      BY <1>1, <2>1
  <1>9. PyTables'
    <2>1. fifo' \in Seq(Submissions)
      BY <1>1
    <2> QED
      BY <1>0, <1>1, <1>4, <1>6, <1>8, <2>1 DEF PyTables
  <1>10. QueueIsRuns'
    <2>1. ActiveNow' = ActiveNow
      BY <1>4 DEF ActiveNow
    <2>2. \A r \in Submissions : ran'[r] # "queued"
      BY <1>4
    <2> QED
      BY <2>1, <2>2, <1>1, EmptyQueue DEF PyInv, QueueIsRuns
  <1>11. ResultFollowsRun'
    BY <1>1, <1>4, <1>7 DEF PyInv, ResultFollowsRun
  <1>12. \A r \in Submissions : (OpenRun(r))' <=> OpenRun(r)
    BY <1>4, <1>7 DEF OpenRun, PyInv, ResultFollowsRun
  <1>13. OpenRunIsKept'
    BY <1>8, <1>12, PyBounds DEF PyInv, OpenRunIsKept, Unsettled
  <1>14. DrainStages'
    BY <1>1, <1>12 DEF PyInv, DrainStages
  <1>15. UNCHANGED <<PyLife, PyWork>>
    <2>1. UNCHANGED PyWork
      BY <1>4, <1>7 DEF PyWork, PyInv, ResultFollowsRun
    <2> QED
      BY <1>1, <2>1 DEF PyLife
  <1> QED
    BY <1>9, <1>10, <1>11, <1>13, <1>14, <1>15, ContractStepForms DEF PyInv

LEMMA PyStep ==
  ASSUME PyInv, [PyNext]_pyVars
  PROVE  PyInv' /\ PyContractStep
PROOF
  <1>1. CASE UNCHANGED pyVars
    <2>1. PyTables'
      BY <1>1 DEF PyInv, PyTables, pyVars
    <2>2. QueueIsRuns' /\ ResultFollowsRun'
      BY <1>1 DEF PyInv, QueueIsRuns, ActiveNow, ResultFollowsRun, pyVars
    <2>3. \A r \in Submissions : (OpenRun(r))' <=> OpenRun(r)
      BY <1>1 DEF OpenRun, pyVars
    <2>4. OpenRunIsKept' /\ DrainStages'
      BY <1>1, <2>3 DEF PyInv, OpenRunIsKept, DrainStages, pyVars
    <2>5. UNCHANGED <<PyLife, PyWork>>
      BY <1>1 DEF PyLife, PyWork, pyVars
    <2> QED
      BY <2>1, <2>2, <2>4, <2>5, ContractStepForms DEF PyInv
  <1>2. CASE \/ StartWorker \/ Bind \/ StopWorker \/ GraceEnds \/ DrainEnds \/ CloseWorker
             \/ \E r \in Submissions : ReceiveRun(r) \/ RefuseRun(r) \/ ThreadEnds(r)
    BY <1>2, PyLifeSteps
  <1>3. CASE StopScheduler
    BY <1>3, PyStopSchedulerStep
  <1>4. CASE DrainQueue
    BY <1>4, PyDrainStep
  <1>5. CASE CleanupRecords \/ \E i \in PyKeys : RecordAges(i)
    BY <1>5, PyRecordSteps
  <1>6. ASSUME NEW r \in Submissions, SubmitRun(r)
        PROVE  PyInv' /\ PyContractStep
    BY <1>6, PySubmitStep
  <1>7. ASSUME NEW r \in Submissions, EndPyRun(r)
        PROVE  PyInv' /\ PyContractStep
    BY <1>7, PyEndRunStep
  <1>8. ASSUME NEW r \in Submissions, EmitEvent(r)
        PROVE  PyInv' /\ PyContractStep
    BY <1>8, PyEmitStep
  <1>9. ASSUME NEW r \in Submissions, NEW k \in Jobs,
               \/ ScheduleEvent(r, k) \/ AttemptJob(r, k) \/ AbortJob(r, k) \/ SessionGone(r, k)
               \/ HookDone(r, k) \/ HookCut(r, k)
        PROVE  PyInv' /\ PyContractStep
    BY <1>9, PyDeliverySteps
  <1> QED
    BY <1>1, <1>2, <1>3, <1>4, <1>5, <1>6, <1>7, <1>8, <1>9 DEF PyNext

LEMMA PyTypes == PyTables => PyTypeOK
PROOF
  <1> SUFFICES ASSUME PyTables PROVE PyTypeOK
    OBVIOUS
  <1>1. JobRows \subseteq [at : {"none", "due", "sending", "notifying", "done"}, tries : 0 .. PyMaxAttempts]
    <2>1. \A t \in 0 .. PyMaxAttempts - 1 : t \in 0 .. PyMaxAttempts
      BY PyBounds
    <2> QED
      BY <2>1 DEF JobRows, JobStates
  <1>2. job \in [Submissions -> [Jobs -> [at : {"none", "due", "sending", "notifying", "done"},
                                          tries : 0 .. PyMaxAttempts]]]
    BY <1>1 DEF PyTables, JobTables
  <1> QED
    BY <1>2 DEF PyTables, PyTypeOK, KeptRows

\* The Python worker keeps the worker contract and its types for every set of
\* requests, keys, capacities and attempt limits: what _handle_run takes on under
\* the submission lock is the only open run of its invocation, whatever the store
\* forgets by age, _shutdown resolves when no run it took on is open, and
\* _complete_run chains the terminal event behind the result's delivery.
THEOREM PyRefinement == PySpec => PyKeepsContract /\ [](TerminalEventFollowsResult /\ PyTypeOK)
PROOF
  <1>1. PyInit => PyInv /\ Contract!ContractInit
    BY PyInitHolds
  <1>2. PyInv /\ [PyNext]_pyVars => PyInv' /\ PyContractStep
    BY PyStep
  <1>3. PyInv => TerminalEventFollowsResult /\ PyTypeOK
    BY PyTypes DEF PyInv, ResultFollowsRun, TerminalEventFollowsResult
  <1> QED
    BY <1>1, <1>2, <1>3, PTL DEF PySpec, PyKeepsContract, Contract!ContractSpec, PyContractStep, PyLife, PyWork

(***************************************************************************)
(* The worker                                                              *)
(***************************************************************************)

RunRows == [phase : LiveRun \cup {"none", "ended"}, attempts : 0 .. MaxCallbackAttempts - 1, tracked : BOOLEAN]
RunTables == [RunRequests -> RunRows]
StoreRows == [by : RunRequests, state : RunStates, old : BOOLEAN]
StoreTables == [WorkerInvocations -> {NoRecord} \cup StoreRows]
OnHand == {"queued", "running", "delivering"}

RunsRunning(runs) == {r \in RunRequests : runs[r].phase = "running"}

\* The queue holds exactly the queued runs, each once, within the limits.
QueueFits(q, runs) ==
  /\ q \in Seq(RunRequests) /\ Distinct(q)
  /\ \A r \in RunRequests : runs[r].phase = "queued" <=> Holds(q, r)
  /\ IsFiniteSet(RunsRunning(runs)) /\ Cardinality(RunsRunning(runs)) <= Concurrency
  /\ Cardinality(RunsRunning(runs)) + Len(q) <= Concurrency + MaxQueuedRuns

\* The store holds the record of every run on hand, which no cleanup may take.
RunIsStored(runs, st) ==
  \A r \in RunRequests : runs[r].phase \in OnHand =>
    /\ st[InvocationOf[r]] # NoRecord
    /\ st[InvocationOf[r]].by = r /\ st[InvocationOf[r]].state \in Unsettled

\* A request becomes a run when it is answered.
RunsAreAnswered ==
  \A r \in RunRequests : /\ http[r] \in {"new", "reading"} => run[r].phase = "none"
                         /\ run[r].phase = "none" => ~run[r].tracked

\* What has been reached of start and stop.
WorkerStages ==
  /\ wstate \in {"created", "starting", "failed"} => ~bound
  /\ ~bound => \A r \in RunRequests : http[r] = "new"
  /\ wstate = "stopped" => \A r \in RunRequests : http[r] # "reading"
  /\ StoppedIsQuiet

WorkerInv == WorkerTypeOK /\ QueueFits(runq, run) /\ RunIsStored(run, store) /\ RunsAreAnswered /\ WorkerStages

LEMMA WorkerBounds ==
  /\ Concurrency \in Nat \ {0} /\ MaxQueuedRuns \in Nat /\ MaxCallbackAttempts \in Nat \ {0}
  /\ \A r \in RunRequests : InvocationOf[r] \in WorkerInvocations
PROOF
  <1>1. Concurrency \in Nat \ {0} /\ MaxQueuedRuns \in Nat /\ MaxCallbackAttempts \in Nat \ {0}
    BY WorkerAssumption DEF ParsedWorkerConfig
  <1>2. \A r \in RunRequests : InvocationOf[r] \in WorkerInvocations
    BY WorkerAssumption DEF WorkerInvocations, Range
  <1> QED
    BY <1>1, <1>2

LEMMA WorkerTables == WorkerTypeOK <=>
    /\ wstate \in {"created", "starting", "running", "stopping", "stopped", "failed"}
    /\ bound \in BOOLEAN /\ accepting \in BOOLEAN /\ aborted \in BOOLEAN
    /\ drainScheduled \in BOOLEAN
    /\ http \in [RunRequests -> Answers \cup {"new", "reading"}]
    /\ store \in StoreTables /\ runq \in Seq(RunRequests) /\ run \in RunTables
PROOF
  BY DEF WorkerTypeOK, StoreTables, StoreRows, RunTables, RunRows

\* Writing a phase, and with it that stop() waits for the run.
LEMMA PhaseWrite ==
  ASSUME NEW row \in RunRows, NEW p \in LiveRun \cup {"none", "ended"}
  PROVE  /\ [row EXCEPT !.phase = p] \in RunRows /\ [row EXCEPT !.phase = p].phase = p
         /\ [row EXCEPT !.phase = p].tracked = row.tracked
         /\ [row EXCEPT !.phase = p, !.tracked = TRUE] \in RunRows
         /\ [row EXCEPT !.phase = p, !.tracked = TRUE].phase = p
         /\ [row EXCEPT !.phase = p, !.tracked = TRUE].tracked = TRUE
PROOF
  BY DEF RunRows

\* Marking changes the state of the records that exist, and of nothing else.
LEMMA StatesWrite ==
  ASSUME NEW st \in StoreTables, NEW rs \in SUBSET RunRequests, NEW s \in RunStates
  PROVE  /\ UpdateStates(st, rs, s) \in StoreTables
         /\ \A i \in WorkerInvocations : st[i] # NoRecord =>
              /\ UpdateStates(st, rs, s)[i] # NoRecord
              /\ UpdateStates(st, rs, s)[i].by = st[i].by
              /\ UpdateStates(st, rs, s)[i].state = IF st[i].by \in rs THEN s ELSE st[i].state
PROOF
  <1>0. DOMAIN st = WorkerInvocations /\ \A i \in WorkerInvocations : st[i] \in {NoRecord} \cup StoreRows
    BY DEF StoreTables
  <1>1. ASSUME NEW i \in WorkerInvocations, st[i] # NoRecord, st[i].by \in rs
        PROVE  /\ UpdateStates(st, rs, s)[i] \in StoreRows
               /\ UpdateStates(st, rs, s)[i].by = st[i].by /\ UpdateStates(st, rs, s)[i].state = s
    <2>1. UpdateStates(st, rs, s)[i] = [st[i] EXCEPT !.state = s, !.old = FALSE]
      BY <1>0, <1>1 DEF UpdateStates
    <2>2. st[i] \in StoreRows
      BY <1>0, <1>1
    <2> QED
      BY <2>1, <2>2 DEF StoreRows
  <1>2. ASSUME NEW i \in WorkerInvocations, ~(st[i] # NoRecord /\ st[i].by \in rs)
        PROVE  UpdateStates(st, rs, s)[i] = st[i]
    BY <1>0, <1>2 DEF UpdateStates
  <1>3. \A v \in StoreRows : v # NoRecord
    BY DEF StoreRows, NoRecord
  <1>4. UpdateStates(st, rs, s) = [i \in WorkerInvocations |-> UpdateStates(st, rs, s)[i]]
    BY <1>0 DEF UpdateStates
  <1>5. \A i \in WorkerInvocations : UpdateStates(st, rs, s)[i] \in {NoRecord} \cup StoreRows
    BY <1>0, <1>1, <1>2
  <1>6. UpdateStates(st, rs, s) \in StoreTables
    BY <1>4, <1>5 DEF StoreTables
  <1> QED
    BY <1>1, <1>2, <1>3, <1>6

LEMMA StateWrite ==
  ASSUME NEW st \in StoreTables, NEW r \in RunRequests, NEW s \in RunStates
  PROVE  /\ UpdateState(st, r, s) \in StoreTables
         /\ \A i \in WorkerInvocations : st[i] # NoRecord =>
              /\ UpdateState(st, r, s)[i] # NoRecord
              /\ UpdateState(st, r, s)[i].by = st[i].by
              /\ UpdateState(st, r, s)[i].state = IF i = InvocationOf[r] /\ st[i].by = r THEN s ELSE st[i].state
PROOF
  <1> DEFINE j == InvocationOf[r]
             w == [st[j] EXCEPT !.state = s, !.old = FALSE]
  <1>0. j \in WorkerInvocations /\ st[j] \in {NoRecord} \cup StoreRows
    BY WorkerBounds DEF StoreTables
  <1>1. CASE st[j] # NoRecord /\ st[j].by = r
    <2>1. w \in StoreRows /\ w.by = st[j].by /\ w.state = s
      BY <1>0, <1>1 DEF StoreRows
    <2>2. UpdateState(st, r, s) = [st EXCEPT ![j] = w]
      BY <1>0, <1>1 DEF UpdateState, StoreTables
    <2> HIDE DEF w
    <2>3. w # NoRecord
      BY <2>1 DEF StoreRows, NoRecord
    <2> QED
      BY <1>0, <1>1, <2>1, <2>2, <2>3 DEF StoreTables
  <1>2. CASE ~(st[j] # NoRecord /\ st[j].by = r)
    <2>1. UpdateState(st, r, s) = st
      BY <1>2 DEF UpdateState
    <2> QED
      BY <1>2, <2>1
  <1> QED
    BY <1>1, <1>2

LEMMA WorkerInitHolds == WorkerInit => WorkerInv
PROOF
  <1> SUFFICES ASSUME WorkerInit PROVE WorkerInv
    OBVIOUS
  <1>1. NoRun \in RunRows /\ NoRun.phase = "none" /\ NoRun.tracked = FALSE
    <2>1. 0 \in 0 .. MaxCallbackAttempts - 1
      BY WorkerBounds
    <2> QED
      BY <2>1 DEF NoRun, RunRows
  <1>2. run \in RunTables /\ \A r \in RunRequests : run[r].phase = "none" /\ ~run[r].tracked
    BY <1>1 DEF WorkerInit, RunTables
  <1>3. WorkerTypeOK
    <2>1. store \in StoreTables /\ runq \in Seq(RunRequests) /\ http \in [RunRequests -> Answers \cup {"new", "reading"}]
      BY DEF WorkerInit, StoreTables
    <2> QED
      BY <1>2, <2>1, WorkerTables DEF WorkerInit
  <1>4. QueueFits(runq, run)
    <2>1. RunsRunning(run) = {}
      BY <1>2 DEF RunsRunning
    <2>2. IsFiniteSet(RunsRunning(run)) /\ Cardinality(RunsRunning(run)) = 0
      BY <2>1, FS_EmptySet
    <2>3. runq = <<>> /\ Len(runq) = 0 /\ runq \in Seq(RunRequests)
      BY DEF WorkerInit
    <2>4. 0 <= Concurrency /\ 0 + 0 <= Concurrency + MaxQueuedRuns
      BY WorkerBounds
    <2> QED
      BY <1>2, <2>2, <2>3, <2>4, EmptyQueue DEF QueueFits
  <1>5. RunIsStored(run, store) /\ RunsAreAnswered
    BY <1>2 DEF RunIsStored, RunsAreAnswered, OnHand
  <1>6. WorkerStages
    BY DEF WorkerInit, WorkerStages, StoppedIsQuiet
  <1> QED
    BY <1>3, <1>4, <1>5, <1>6 DEF WorkerInv

\* A queue that holds nothing is empty.
LEMMA NothingHeld ==
  ASSUME NEW S, NEW q \in Seq(S), \A x \in S : ~Holds(q, x)
  PROVE  q = <<>>
PROOF
  <1>1. Len(q) = 0
    <2> SUFFICES ASSUME Len(q) # 0 PROVE FALSE
      OBVIOUS
    <2>1. 1 \in 1 .. Len(q) /\ q[1] \in S
      OBVIOUS
    <2> QED
      BY <2>1 DEF Holds
  <1> QED
    BY <1>1

\* A worker that never listened has taken nothing on.
LEMMA UnboundIsQuiet ==
  ASSUME WorkerInv, ~bound
  PROVE  ActiveRuns = {} /\ runq = <<>> /\ \A r \in RunRequests : run[r].phase = "none" /\ ~run[r].tracked
PROOF
  <1>1. \A r \in RunRequests : run[r].phase = "none" /\ ~run[r].tracked
    BY DEF WorkerInv, WorkerStages, RunsAreAnswered
  <1>2. runq \in Seq(RunRequests) /\ \A r \in RunRequests : ~Holds(runq, r)
    BY <1>1 DEF WorkerInv, QueueFits
  <1> QED
    BY <1>1, <1>2, NothingHeld DEF ActiveRuns

\* Runs, queue and records stay; the lifecycle or an answer moves.
LEMMA WorkerLifeSteps ==
  ASSUME WorkerInv,
         \/ Start \/ BindFails \/ GraceExpires \/ Stopped
         \/ Listening /\ wstate = "starting"
         \/ Stop /\ wstate # "running"
         \/ \E r \in RunRequests : Receive(r) \/ Reject(r)
  PROVE  WorkerInv'
PROOF
  <1>0. WorkerTypeOK
    BY DEF WorkerInv
  <1>1. UNCHANGED <<store, runq, run>>
    BY DEF Start, BindFails, GraceExpires, Stopped, Listening, Stop, Receive, Reject
  <1>2. WorkerTypeOK'
    <2>1. CASE Start \/ BindFails \/ Stopped \/ (Listening /\ wstate = "starting")
      BY <2>1, <1>0 DEF Start, BindFails, Stopped, Listening, WorkerTypeOK
    <2>2. CASE Stop /\ wstate # "running"
      BY <2>2, <1>0 DEF Stop, WorkerTypeOK
    <2>3. CASE GraceExpires
      BY <2>3, <1>0 DEF GraceExpires, WorkerTypeOK, Answers
    <2>4. CASE \E r \in RunRequests : Receive(r) \/ Reject(r)
      BY <2>4, <1>0 DEF Receive, Reject, WorkerTypeOK, Answers
    <2> QED
      BY <2>1, <2>2, <2>3, <2>4
  <1>3. (QueueFits(runq, run))' /\ (RunIsStored(run, store))'
    BY <1>1 DEF WorkerInv, QueueFits, RunIsStored, RunsRunning
  <1>4. \A r \in RunRequests : http'[r] \in {"new", "reading"} => http[r] \in {"new", "reading"}
    BY <1>0 DEF Start, BindFails, GraceExpires, Stopped, Listening, Stop, Receive, Reject, WorkerTypeOK
  <1>5. RunsAreAnswered'
    BY <1>1, <1>4 DEF WorkerInv, RunsAreAnswered
  <1>6. ActiveRuns' = ActiveRuns
    BY <1>1 DEF ActiveRuns
  <1>7. WorkerStages'
    <2>1. CASE Start
      BY <2>1, <1>1, <1>6 DEF Start, WorkerInv, WorkerStages, StoppedIsQuiet
    <2>2. CASE BindFails \/ (Stop /\ wstate # "running")
      <3>1. ~bound /\ UNCHANGED <<bound, http>>
        BY <2>2 DEF BindFails, Stop, WorkerInv, WorkerStages
      <3>2. ActiveRuns = {} /\ runq = <<>> /\ \A r \in RunRequests : ~run[r].tracked
        BY <3>1, UnboundIsQuiet
      <3>3. \A r \in RunRequests : http[r] = "new"
        BY <3>1 DEF WorkerInv, WorkerStages
      <3> QED
        BY <3>1, <3>2, <3>3, <1>1, <1>6 DEF WorkerStages, StoppedIsQuiet
    <2>3. CASE GraceExpires
      <3>1. UNCHANGED <<wstate, bound>> /\ wstate = "stopping" /\ bound
        BY <2>3 DEF GraceExpires
      <3> QED
        BY <3>1 DEF WorkerStages, StoppedIsQuiet
    <2>4. CASE Stopped
      <3>1. bound /\ UNCHANGED <<bound, http>> /\ wstate' = "stopped" /\ Drained
        BY <2>4 DEF Stopped
      <3>2. \A r \in RunRequests : http[r] # "reading"
        BY <3>1 DEF Drained
      <3>3. ASSUME NEW r \in RunRequests, run[r].tracked
            PROVE  run[r].phase = "ended"
        <4>1. run[r].phase \in LiveRun \cup {"none", "ended"}
          BY <1>0, WorkerTables DEF RunTables, RunRows
        <4>2. run[r].phase # "none" /\ run[r].phase \notin LiveRun
          BY <3>1, <3>3 DEF Drained, WorkerInv, RunsAreAnswered
        <4> QED
          BY <4>1, <4>2
      <3>4. ActiveRuns = {} /\ runq = <<>>
        BY <3>1 DEF Drained
      <3> QED
        BY <3>1, <3>2, <3>3, <3>4, <1>1, <1>6 DEF WorkerStages, StoppedIsQuiet
    <2>5. CASE Listening /\ wstate = "starting"
      <3>1. wstate' = "running" /\ bound' = TRUE
        BY <2>5 DEF Listening
      <3> QED
        BY <3>1 DEF WorkerStages, StoppedIsQuiet
    <2>6. ASSUME NEW r \in RunRequests, Receive(r) \/ Reject(r)
          PROVE  WorkerStages'
      <3>1. UNCHANGED <<wstate, bound>> /\ bound /\ wstate # "stopped"
        <4>1. CASE Receive(r)
          BY <4>1 DEF Receive
        <4>2. CASE Reject(r)
          <5>1. http[r] = "reading" /\ UNCHANGED <<wstate, bound>>
            BY <4>2 DEF Reject
          <5> QED
            BY <5>1, <1>0 DEF WorkerInv, WorkerStages, WorkerTypeOK
        <4> QED
          BY <4>1, <4>2, <2>6
      <3> QED
        BY <3>1 DEF WorkerInv, WorkerStages, StoppedIsQuiet
    <2> QED
      BY <2>1, <2>2, <2>3, <2>4, <2>5, <2>6
  <1> QED
    BY <1>2, <1>3, <1>5, <1>7 DEF WorkerInv

\* The store forgets by age only what is settled.
LEMMA WorkerStoreSteps ==
  ASSUME WorkerInv, Cleanup \/ \E i \in WorkerInvocations : TimePasses(i)
  PROVE  WorkerInv'
PROOF
  <1>0. WorkerTypeOK /\ store \in StoreTables /\ \A i \in WorkerInvocations : store[i] \in {NoRecord} \cup StoreRows
    BY WorkerTables DEF WorkerInv, StoreTables
  <1>1. UNCHANGED <<wstate, bound, accepting, aborted, http, runq, drainScheduled, run>>
    BY DEF Cleanup, TimePasses
  <1>2. /\ store' \in StoreTables
        /\ \A j \in WorkerInvocations : store[j] # NoRecord /\ store[j].state \in Unsettled =>
             store'[j] # NoRecord /\ store'[j].by = store[j].by /\ store'[j].state = store[j].state
    <2>1. CASE Cleanup
      <3>1. store' = [j \in WorkerInvocations |-> IF IsExpiredTerminal(store[j]) THEN NoRecord ELSE store[j]]
        BY <2>1 DEF Cleanup
      <3>2. \A j \in WorkerInvocations : store[j].state \in Unsettled => ~IsExpiredTerminal(store[j])
        BY DEF IsExpiredTerminal, Unsettled
      <3> QED
        BY <3>1, <3>2, <1>0 DEF StoreTables
    <2>2. ASSUME NEW i \in WorkerInvocations, TimePasses(i)
          PROVE  /\ store' \in StoreTables
                 /\ \A j \in WorkerInvocations : store[j] # NoRecord /\ store[j].state \in Unsettled =>
                      store'[j] # NoRecord /\ store'[j].by = store[j].by /\ store'[j].state = store[j].state
      <3> DEFINE w == [store[i] EXCEPT !.old = TRUE]
      <3>1. store[i] \in StoreRows
        BY <2>2, <1>0 DEF TimePasses
      <3>2. store' = [store EXCEPT ![i] = w]
        BY <2>2, <1>0 DEF TimePasses, StoreTables
      <3>3. w \in StoreRows /\ w.by = store[i].by /\ w.state = store[i].state
        BY <3>1 DEF StoreRows
      <3>4. \A v \in StoreRows : v # NoRecord
        BY DEF StoreRows, NoRecord
      <3> HIDE DEF w
      <3> QED
        BY <3>2, <3>3, <3>4, <1>0 DEF StoreTables
    <2> QED
      BY <2>1, <2>2
  <1>3. WorkerTypeOK'
    BY <1>0, <1>1, <1>2 DEF WorkerTypeOK, StoreTables, StoreRows
  <1>4. (QueueFits(runq, run))' /\ RunsAreAnswered'
    BY <1>1 DEF WorkerInv, QueueFits, RunsAreAnswered, RunsRunning
  <1>5. (RunIsStored(run, store))'
    BY <1>1, <1>2, WorkerBounds DEF WorkerInv, RunIsStored
  <1>6. WorkerStages'
    BY <1>1 DEF WorkerInv, WorkerStages, StoppedIsQuiet, ActiveRuns
  <1> QED
    BY <1>3, <1>4, <1>5, <1>6 DEF WorkerInv

\* A callback moves on; its record is settled only when the run is off hand.
LEMMA WorkerDeliverySteps ==
  ASSUME WorkerInv, NEW r \in RunRequests,
         Attempt(r) \/ AbortDelivery(r) \/ HookReturns(r) \/ HookAborted(r)
  PROVE  WorkerInv'
PROOF
  <1>0. /\ WorkerTypeOK /\ store \in StoreTables /\ run \in RunTables /\ run[r] \in RunRows
        /\ InvocationOf[r] \in WorkerInvocations
    BY WorkerTables, WorkerBounds DEF WorkerInv, RunTables
  <1>1. UNCHANGED <<wstate, bound, accepting, aborted, http, runq, drainScheduled>>
    BY DEF Attempt, AbortDelivery, HookReturns, HookAborted
  <1>2. ASSUME NEW w \in RunRows, run' = [run EXCEPT ![r] = w], w.tracked = run[r].tracked,
               w.phase \in {"delivering", "notifying", "ended"}, run[r].phase \in {"delivering", "notifying"},
               w.phase = "delivering" => run[r].phase = "delivering",
               \/ UNCHANGED store
               \/ \E s \in {"delivered", "callback_failed"} :
                    w.phase # "delivering" /\ store' = UpdateState(store, r, s)
        PROVE  WorkerInv'
    <2>1. run' \in RunTables /\ \A q \in RunRequests : run'[q] = IF q = r THEN w ELSE run[q]
      BY <1>0, <1>2 DEF RunTables
    <2>2. /\ store' \in StoreTables
          /\ \A i \in WorkerInvocations : store[i] # NoRecord =>
               /\ store'[i] # NoRecord /\ store'[i].by = store[i].by
               /\ store'[i].state = store[i].state \/ (w.phase # "delivering" /\ store[i].by = r)
      <3>1. CASE UNCHANGED store
        BY <3>1, <1>0
      <3>2. ASSUME NEW s \in {"delivered", "callback_failed"}, w.phase # "delivering",
                   store' = UpdateState(store, r, s)
            PROVE  /\ store' \in StoreTables
                   /\ \A i \in WorkerInvocations : store[i] # NoRecord =>
                        /\ store'[i] # NoRecord /\ store'[i].by = store[i].by
                        /\ store'[i].state = store[i].state \/ (w.phase # "delivering" /\ store[i].by = r)
        <4>1. s \in RunStates
          BY DEF RunStates
        <4>2. /\ UpdateState(store, r, s) \in StoreTables
              /\ \A i \in WorkerInvocations : store[i] # NoRecord =>
                   /\ UpdateState(store, r, s)[i] # NoRecord
                   /\ UpdateState(store, r, s)[i].by = store[i].by
                   /\ UpdateState(store, r, s)[i].state =
                        IF i = InvocationOf[r] /\ store[i].by = r THEN s ELSE store[i].state
          BY <1>0, <4>1, StateWrite
        <4> QED
          BY <3>2, <4>2
      <3> QED
        BY <1>2, <3>1, <3>2
    <2>3. WorkerTypeOK'
      BY <1>0, <1>1, <2>1, <2>2 DEF WorkerTypeOK, StoreTables, StoreRows, RunTables, RunRows
    <2>4. \A q \in RunRequests : /\ run'[q].phase = "queued" <=> run[q].phase = "queued"
                                 /\ run'[q].phase = "running" <=> run[q].phase = "running"
                                 /\ run'[q].phase = "none" <=> run[q].phase = "none"
                                 /\ run'[q].tracked = run[q].tracked
      BY <1>2, <2>1
    <2>5. RunsRunning(run') = RunsRunning(run) /\ ActiveRuns' = ActiveRuns
      BY <2>4 DEF RunsRunning, ActiveRuns
    <2>6. QueueFits(runq', run')
      BY <1>1, <2>4, <2>5 DEF WorkerInv, QueueFits
    <2>7. RunIsStored(run', store')
      <3> SUFFICES ASSUME NEW q \in RunRequests, run'[q].phase \in OnHand
                   PROVE  /\ store'[InvocationOf[q]] # NoRecord
                          /\ store'[InvocationOf[q]].by = q /\ store'[InvocationOf[q]].state \in Unsettled
        BY DEF RunIsStored
      <3>1. run[q].phase \in OnHand /\ (q = r => w.phase = "delivering")
        BY <1>2, <2>1 DEF OnHand
      <3>2. /\ store[InvocationOf[q]] # NoRecord
            /\ store[InvocationOf[q]].by = q /\ store[InvocationOf[q]].state \in Unsettled
        BY <3>1 DEF WorkerInv, RunIsStored
      <3> QED
        BY <3>1, <3>2, <2>2, WorkerBounds
    <2>8. RunsAreAnswered'
      BY <1>1, <2>4 DEF WorkerInv, RunsAreAnswered
    <2>9. WorkerStages'
      <3>1. wstate = "stopped" => ~run[r].tracked
        BY <1>2 DEF WorkerInv, WorkerStages, StoppedIsQuiet
      <3>2. \A q \in RunRequests : q # r => run'[q].phase = run[q].phase
        BY <2>1
      <3>3. StoppedIsQuiet'
        BY <1>1, <2>4, <2>5, <3>1, <3>2 DEF WorkerInv, WorkerStages, StoppedIsQuiet
      <3> QED
        BY <1>1, <3>3 DEF WorkerInv, WorkerStages
    <2> QED
      BY <2>3, <2>6, <2>7, <2>8, <2>9 DEF WorkerInv
  <1>3. ASSUME NEW s \in {"delivered", "callback_failed"}, NEW p \in {"notifying", "ended"},
               run[r].phase \in {"delivering", "notifying"}, run' = [run EXCEPT ![r].phase = p],
               store' = UpdateState(store, r, s) \/ UNCHANGED store
        PROVE  WorkerInv'
    <2> DEFINE w == [run[r] EXCEPT !.phase = p]
    <2>1. w \in RunRows /\ w.phase = p /\ w.tracked = run[r].tracked
      BY <1>0 DEF RunRows, LiveRun
    <2>2. run' = [run EXCEPT ![r] = w]
      BY <1>3
    <2> HIDE DEF w
    <2> QED
      BY <1>2, <1>3, <2>1, <2>2
  <1>4. CASE AbortDelivery(r)
    BY <1>3, <1>4 DEF AbortDelivery, Settle
  <1>5. CASE HookReturns(r) \/ HookAborted(r)
    BY <1>3, <1>5 DEF HookReturns, HookAborted
  <1>6. CASE Attempt(r)
    <2>1. CASE ~LastAttempt(r) /\ run' = [run EXCEPT ![r].attempts = @ + 1] /\ UNCHANGED store
      <3> DEFINE n == run[r].attempts + 1
                 w == [run[r] EXCEPT !.attempts = n]
      <3>0. run[r].phase = "delivering"
        BY <1>6 DEF Attempt
      <3>1. n \in 0 .. MaxCallbackAttempts - 1
        <4>1. run[r].attempts \in 0 .. MaxCallbackAttempts - 1 /\ n # MaxCallbackAttempts
          BY <1>0, <2>1 DEF RunRows, LastAttempt
        <4> QED
          BY <4>1, WorkerBounds
      <3>2. run' = [run EXCEPT ![r] = w]
        BY <2>1
      <3> HIDE DEF n
      <3>3. w \in RunRows /\ w.phase = "delivering" /\ w.tracked = run[r].tracked
        BY <1>0, <3>0, <3>1 DEF RunRows
      <3> HIDE DEF w
      <3> QED
        BY <1>2, <2>1, <3>0, <3>2, <3>3
    <2>2. CASE Settle(r, "delivered", "ended") \/ Settle(r, "callback_failed", "notifying")
      BY <1>3, <1>6, <2>2 DEF Attempt, Settle
    <2> QED
      BY <1>6, <2>1, <2>2 DEF Attempt
  <1> QED
    BY <1>4, <1>5, <1>6

\* drain, from the slots that are taken: started runs leave the queue, fill free
\* slots only and keep their records.
LEMMA DrainKeeps ==
  ASSUME NEW runs \in RunTables, NEW st \in StoreTables, accepting \in BOOLEAN,
         QueueFits(runq, runs), RunIsStored(runs, st), Drain(Cardinality(RunsRunning(runs)), runs, st)
  PROVE  /\ QueueFits(runq', run') /\ RunIsStored(run', store') /\ run' \in RunTables /\ store' \in StoreTables
         /\ \A r \in RunRequests :
              /\ run'[r].tracked = runs[r].tracked
              /\ run'[r].phase = runs[r].phase \/ (runs[r].phase = "queued" /\ run'[r].phase = "running")
         /\ runq = <<>> => runq' = <<>>
PROOF
  <1> DEFINE c == Cardinality(RunsRunning(runs))
             n == Started(c, runq)
             firsts == {runq[k] : k \in 1 .. n}
             rest == SubSeq(runq, n + 1, Len(runq))
  <1>0. /\ runq \in Seq(RunRequests) /\ Distinct(runq) /\ Len(runq) \in Nat
        /\ IsFiniteSet(RunsRunning(runs)) /\ c \in Nat /\ c <= Concurrency
        /\ c + Len(runq) <= Concurrency + MaxQueuedRuns
        /\ Concurrency \in Nat /\ MaxQueuedRuns \in Nat
    BY FS_CardinalityType, WorkerBounds DEF QueueFits
  <1>1. /\ runq' = rest
        /\ run' = [r \in RunRequests |-> IF r \in firsts THEN [runs[r] EXCEPT !.phase = "running"] ELSE runs[r]]
        /\ store' = UpdateStates(st, firsts, "running")
    BY DEF Drain
  <1>2. n \in 0 .. Len(runq) /\ c + n <= Concurrency
    <2> DEFINE l == Len(runq)
    <2>1. n = IF ~accepting \/ c >= Concurrency THEN 0 ELSE IF l < Concurrency - c THEN l ELSE Concurrency - c
      BY DEF Started
    <2>2. l \in Nat /\ c \in Nat /\ c <= Concurrency /\ Concurrency \in Nat
      BY <1>0
    <2> HIDE DEF c, n, l
    <2>3. n \in 0 .. l /\ c + n <= Concurrency
      BY <2>1, <2>2
    <2> QED
      BY <2>3 DEF l
  <1> HIDE DEF n
  <1>3. /\ rest \in Seq(RunRequests) /\ Distinct(rest) /\ Len(rest) = Len(runq) - n
        /\ \A x : Holds(rest, x) <=> Holds(runq, x) /\ x \notin firsts
        /\ \A x \in firsts : x \in RunRequests /\ Holds(runq, x)
        /\ IsFiniteSet(firsts) /\ Cardinality(firsts) = n
    <2>1. runq \in Seq(RunRequests) /\ Distinct(runq) /\ n \in 0 .. Len(runq)
      BY <1>0, <1>2
    <2>2. /\ rest \in Seq(RunRequests) /\ Distinct(rest) /\ Len(rest) = Len(runq) - n
          /\ \A x : Holds(rest, x) <=> Holds(runq, x) /\ x \notin firsts
          /\ \A x \in firsts : x \in RunRequests /\ Holds(runq, x)
          /\ IsFiniteSet(firsts)
      BY <2>1, TakeFirst
    <2>3. Cardinality(FirstOf(runq, n)) = n
      BY <2>1, FirstCount
    <2>4. FirstOf(runq, n) = firsts
      BY DEF FirstOf
    <2> HIDE DEF firsts, rest
    <2> QED
      BY <2>2, <2>3, <2>4
  <1> HIDE DEF firsts, rest, c
  <1>4. firsts \in SUBSET RunRequests /\ \A r \in firsts : runs[r].phase = "queued"
    BY <1>3 DEF QueueFits
  <1>5. ASSUME NEW r \in RunRequests
        PROVE  /\ run'[r] \in RunRows /\ run'[r].tracked = runs[r].tracked
               /\ run'[r].phase = IF r \in firsts THEN "running" ELSE runs[r].phase
    <2>1. runs[r] \in RunRows /\ "running" \in LiveRun \cup {"none", "ended"}
      BY DEF RunTables, LiveRun
    <2>2. CASE r \in firsts
      <3>1. run'[r] = [runs[r] EXCEPT !.phase = "running"]
        BY <1>1, <2>2
      <3> QED
        BY <2>1, <2>2, <3>1 DEF RunRows
    <2>3. CASE r \notin firsts
      BY <1>1, <2>1, <2>3
    <2> QED
      BY <2>2, <2>3
  <1>6. run' \in RunTables
    <2>1. run' = [r \in RunRequests |-> run'[r]]
      BY <1>1
    <2> QED
      BY <1>5, <2>1 DEF RunTables
  <1>7. /\ store' \in StoreTables
        /\ \A i \in WorkerInvocations : st[i] # NoRecord =>
             /\ store'[i] # NoRecord /\ store'[i].by = st[i].by
             /\ store'[i].state = IF st[i].by \in firsts THEN "running" ELSE st[i].state
    <2>1. "running" \in RunStates
      BY DEF RunStates
    <2>2. /\ UpdateStates(st, firsts, "running") \in StoreTables
          /\ \A i \in WorkerInvocations : st[i] # NoRecord =>
               /\ UpdateStates(st, firsts, "running")[i] # NoRecord
               /\ UpdateStates(st, firsts, "running")[i].by = st[i].by
               /\ UpdateStates(st, firsts, "running")[i].state =
                    IF st[i].by \in firsts THEN "running" ELSE st[i].state
      BY <1>4, <2>1, StatesWrite
    <2> QED
      BY <1>1, <2>2
  <1>8. QueueFits(runq', run')
    <2>1. RunsRunning(run') = RunsRunning(runs) \cup firsts
      BY <1>4, <1>5 DEF RunsRunning
    <2>2. RunsRunning(runs) \cap firsts = {}
      BY <1>4 DEF RunsRunning
    <2>3. /\ IsFiniteSet(RunsRunning(runs) \cup firsts)
          /\ Cardinality(RunsRunning(runs) \cup firsts)
               = Cardinality(RunsRunning(runs)) + Cardinality(firsts) - Cardinality(RunsRunning(runs) \cap firsts)
      BY <1>0, <1>3, FS_Union
    <2>4. Cardinality(RunsRunning(runs) \cap firsts) = 0
      BY <2>2, FS_EmptySet
    <2>5. n \in Nat /\ c \in Nat
      BY <1>0, <1>2
    <2>6. Cardinality(RunsRunning(run')) = c + n
      BY <2>1, <2>3, <2>4, <2>5, <1>3 DEF c
    <2>7. Len(runq') = Len(runq) - n
      BY <1>1, <1>3
    <2>8. c + n <= Concurrency /\ (c + n) + (Len(runq) - n) <= Concurrency + MaxQueuedRuns
      BY <1>0, <1>2, <2>5
    <2>9. \A r \in RunRequests : run'[r].phase = "queued" <=> Holds(runq', r)
      BY <1>1, <1>3, <1>5 DEF QueueFits
    <2> QED
      BY <1>1, <1>3, <2>1, <2>3, <2>6, <2>7, <2>8, <2>9 DEF QueueFits
  <1>9. RunIsStored(run', store')
    <2> SUFFICES ASSUME NEW r \in RunRequests, run'[r].phase \in OnHand
                 PROVE  /\ store'[InvocationOf[r]] # NoRecord
                        /\ store'[InvocationOf[r]].by = r /\ store'[InvocationOf[r]].state \in Unsettled
      BY DEF RunIsStored
    <2>1. runs[r].phase \in OnHand
      BY <1>4, <1>5 DEF OnHand
    <2>2. st[InvocationOf[r]] # NoRecord /\ st[InvocationOf[r]].by = r /\ st[InvocationOf[r]].state \in Unsettled
      BY <2>1 DEF RunIsStored
    <2> QED
      BY <2>2, <1>7, WorkerBounds DEF Unsettled
  <1>10. runq = <<>> => runq' = <<>>
    BY <1>1, <1>2, <1>3
  <1> QED
    BY <1>4, <1>5, <1>6, <1>7, <1>8, <1>9, <1>10

\* The deferred drain, and the drain of a run that ends.
LEMMA WorkerDrainSteps ==
  ASSUME WorkerInv, ScheduledDrain \/ \E r \in RunRequests : EndRun(r)
  PROVE  WorkerInv'
PROOF
  <1>0. WorkerTypeOK /\ store \in StoreTables /\ run \in RunTables /\ accepting \in BOOLEAN
    BY WorkerTables DEF WorkerInv
  <1>1. UNCHANGED <<wstate, bound, accepting, aborted, http>> /\ drainScheduled' \in BOOLEAN
    BY <1>0 DEF ScheduledDrain, EndRun, WorkerTypeOK
  <1>2. ASSUME QueueFits(runq', run'), RunIsStored(run', store'), run' \in RunTables, store' \in StoreTables,
               \A q \in RunRequests : run'[q].phase = "none" => run[q].phase = "none" /\ run'[q].tracked = run[q].tracked,
               \A q \in RunRequests : run[q].phase = "none" => run'[q].phase = "none",
               StoppedIsQuiet'
        PROVE  WorkerInv'
    <2>1. runq' \in Seq(RunRequests)
      BY <1>2 DEF QueueFits
    <2>2. WorkerTypeOK'
      BY <1>0, <1>1, <1>2, <2>1 DEF WorkerTypeOK, StoreTables, StoreRows, RunTables, RunRows
    <2>3. RunsAreAnswered'
      BY <1>1, <1>2 DEF WorkerInv, RunsAreAnswered
    <2>4. WorkerStages'
      BY <1>1, <1>2 DEF WorkerInv, WorkerStages
    <2> QED
      BY <1>2, <2>2, <2>3, <2>4 DEF WorkerInv
  <1>3. CASE ScheduledDrain
    <2>1. ActiveRuns = RunsRunning(run)
      BY DEF ActiveRuns, RunsRunning
    <2>2. Drain(Cardinality(RunsRunning(run)), run, store)
      BY <1>3, <2>1 DEF ScheduledDrain
    <2>3. /\ QueueFits(runq', run') /\ RunIsStored(run', store') /\ run' \in RunTables /\ store' \in StoreTables
          /\ \A q \in RunRequests :
               /\ run'[q].tracked = run[q].tracked
               /\ run'[q].phase = run[q].phase \/ (run[q].phase = "queued" /\ run'[q].phase = "running")
          /\ runq = <<>> => runq' = <<>>
      BY <1>0, <2>2, DrainKeeps DEF WorkerInv
    <2>4. StoppedIsQuiet'
      <3> SUFFICES ASSUME wstate = "stopped"
                   PROVE  ActiveRuns' = {} /\ runq' = <<>> /\ \A q \in RunRequests : run'[q].tracked => run'[q].phase = "ended"
        BY <1>1 DEF StoppedIsQuiet
      <3>1. ActiveRuns = {} /\ runq = <<>> /\ \A q \in RunRequests : run[q].tracked => run[q].phase = "ended"
        BY DEF WorkerInv, WorkerStages, StoppedIsQuiet
      <3>2. \A q \in RunRequests : run[q].phase # "queued" /\ run[q].phase # "running"
        BY <3>1, EmptyQueue DEF WorkerInv, QueueFits, ActiveRuns
      <3> QED
        BY <2>3, <3>1, <3>2 DEF ActiveRuns
    <2> QED
      BY <1>2, <2>3, <2>4
  <1>4. ASSUME NEW r \in RunRequests, EndRun(r)
        PROVE  WorkerInv'
    <2> DEFINE runs == EndTracked(r)
               w == [run[r] EXCEPT !.phase = "delivering", !.tracked = TRUE]
               st == UpdateState(store, r, "callback_pending")
    <2>0. run[r].phase = "running" /\ Drain(Cardinality(ActiveRuns) - 1, runs, st)
      BY <1>4 DEF EndRun
    <2>1. w \in RunRows /\ w.phase = "delivering" /\ w.tracked = TRUE
      <3>1. run[r] \in RunRows
        BY <1>0 DEF RunTables
      <3>2. "delivering" \in LiveRun \cup {"none", "ended"}
        BY DEF LiveRun
      <3> QED
        BY <3>1, <3>2, PhaseWrite
    <2>2. runs = [run EXCEPT ![r] = w]
      BY <1>0 DEF EndTracked, RunTables
    <2> HIDE DEF w
    <2>3. runs \in RunTables /\ \A q \in RunRequests : runs[q] = IF q = r THEN w ELSE run[q]
      BY <1>0, <2>1, <2>2 DEF RunTables
    <2>4. /\ st \in StoreTables
          /\ \A i \in WorkerInvocations : store[i] # NoRecord =>
               /\ st[i] # NoRecord /\ st[i].by = store[i].by
               /\ st[i].state = IF i = InvocationOf[r] /\ store[i].by = r THEN "callback_pending" ELSE store[i].state
      <3>1. "callback_pending" \in RunStates
        BY DEF RunStates
      <3> QED
        BY <1>0, <3>1, StateWrite
    <2> HIDE DEF runs, st
    <2>5. r \in ActiveRuns /\ ActiveRuns = RunsRunning(run) /\ RunsRunning(runs) = ActiveRuns \ {r}
      BY <2>0, <2>1, <2>3 DEF ActiveRuns, RunsRunning
    <2>6. IsFiniteSet(ActiveRuns) /\ Cardinality(ActiveRuns) \in Nat
      BY <2>5, FS_CardinalityType DEF WorkerInv, QueueFits
    <2>7. /\ IsFiniteSet(ActiveRuns \ {r}) /\ Cardinality(ActiveRuns \ {r}) = Cardinality(ActiveRuns) - 1
      BY <2>5, <2>6, FS_RemoveElement
    <2>8. QueueFits(runq, runs)
      <3>1. \A q \in RunRequests : runs[q].phase = "queued" <=> Holds(runq, q)
        BY <2>0, <2>1, <2>3 DEF WorkerInv, QueueFits
      <3> DEFINE a == Cardinality(ActiveRuns)
      <3>2. a <= Concurrency /\ a + Len(runq) <= Concurrency + MaxQueuedRuns /\ Len(runq) \in Nat /\ a \in Nat
        BY <1>0, <2>5, <2>6 DEF WorkerInv, QueueFits
      <3> HIDE DEF a
      <3>3. a - 1 <= Concurrency /\ (a - 1) + Len(runq) <= Concurrency + MaxQueuedRuns
        BY <3>2, WorkerBounds
      <3> QED
        BY <3>1, <3>3, <2>5, <2>7 DEF WorkerInv, QueueFits, a
    <2>9. RunIsStored(runs, st)
      <3> SUFFICES ASSUME NEW q \in RunRequests, runs[q].phase \in OnHand
                   PROVE  st[InvocationOf[q]] # NoRecord /\ st[InvocationOf[q]].by = q
                          /\ st[InvocationOf[q]].state \in Unsettled
        BY DEF RunIsStored
      <3>1. run[q].phase \in OnHand
        BY <2>0, <2>3 DEF OnHand
      <3>2. /\ store[InvocationOf[q]] # NoRecord
            /\ store[InvocationOf[q]].by = q /\ store[InvocationOf[q]].state \in Unsettled
        BY <3>1 DEF WorkerInv, RunIsStored
      <3> QED
        BY <3>2, <2>4, WorkerBounds DEF Unsettled
    <2>10. Drain(Cardinality(RunsRunning(runs)), runs, st)
      BY <2>0, <2>5, <2>7
    <2>11. /\ QueueFits(runq', run') /\ RunIsStored(run', store') /\ run' \in RunTables /\ store' \in StoreTables
           /\ \A q \in RunRequests :
                /\ run'[q].tracked = runs[q].tracked
                /\ run'[q].phase = runs[q].phase \/ (runs[q].phase = "queued" /\ run'[q].phase = "running")
      BY <1>0, <2>3, <2>4, <2>8, <2>9, <2>10, DrainKeeps
    <2>12. StoppedIsQuiet'
      <3>1. wstate # "stopped"
        BY <2>5 DEF WorkerInv, WorkerStages, StoppedIsQuiet
      <3> QED
        BY <1>1, <3>1 DEF StoppedIsQuiet
    <2>13. \A q \in RunRequests : /\ run'[q].phase = "none" <=> run[q].phase = "none"
                                  /\ run'[q].phase = "none" => run'[q].tracked = run[q].tracked
      BY <2>0, <2>1, <2>3, <2>11
    <2> QED
      BY <1>2, <2>11, <2>12, <2>13
  <1> QED
    BY <1>3, <1>4

\* The queue becomes cancellation callbacks.
LEMMA WorkerStopAcceptingStep ==
  ASSUME WorkerInv, StopAccepting(store), bound' \in {bound, TRUE}, UNCHANGED <<aborted, http>>
  PROVE  WorkerInv'
PROOF
  <1> DEFINE queued == ToSet(runq)
  <1>0. WorkerTypeOK /\ store \in StoreTables /\ run \in RunTables /\ runq \in Seq(RunRequests)
    BY WorkerTables DEF WorkerInv
  <1>1. /\ wstate' = "stopping" /\ accepting' = FALSE /\ runq' = <<>> /\ UNCHANGED drainScheduled
        /\ run' = [r \in RunRequests |-> IF r \in queued THEN [run[r] EXCEPT !.phase = "delivering", !.tracked = TRUE]
                                         ELSE run[r]]
        /\ store' = UpdateStates(store, queued, "callback_pending")
    BY DEF StopAccepting
  <1>2. \A r \in RunRequests : r \in queued <=> run[r].phase = "queued"
    <2>1. \A x : x \in queued <=> Holds(runq, x)
      BY <1>0 DEF ToSet, Holds
    <2> QED
      BY <2>1 DEF WorkerInv, QueueFits
  <1>3. queued \in SUBSET RunRequests
    BY <1>0 DEF ToSet
  <1> HIDE DEF queued
  <1>4. ASSUME NEW r \in RunRequests
        PROVE  /\ run'[r] \in RunRows
               /\ run'[r].phase = IF run[r].phase = "queued" THEN "delivering" ELSE run[r].phase
               /\ run[r].phase # "queued" => run'[r] = run[r]
    <2>1. run[r] \in RunRows /\ "delivering" \in LiveRun \cup {"none", "ended"}
      BY <1>0 DEF RunTables, LiveRun
    <2>2. CASE r \in queued
      <3>1. run'[r] = [run[r] EXCEPT !.phase = "delivering", !.tracked = TRUE]
        BY <1>1, <2>2
      <3> QED
        BY <1>2, <2>1, <2>2, <3>1 DEF RunRows
    <2>3. CASE r \notin queued
      BY <1>1, <1>2, <2>1, <2>3
    <2> QED
      BY <2>2, <2>3
  <1>5. run' \in RunTables
    <2>1. run' = [r \in RunRequests |-> run'[r]]
      BY <1>1
    <2> QED
      BY <1>4, <2>1 DEF RunTables
  <1>6. /\ store' \in StoreTables
        /\ \A i \in WorkerInvocations : store[i] # NoRecord =>
             /\ store'[i] # NoRecord /\ store'[i].by = store[i].by
             /\ store'[i].state = IF store[i].by \in queued THEN "callback_pending" ELSE store[i].state
    <2>1. "callback_pending" \in RunStates
      BY DEF RunStates
    <2>2. /\ UpdateStates(store, queued, "callback_pending") \in StoreTables
          /\ \A i \in WorkerInvocations : store[i] # NoRecord =>
               /\ UpdateStates(store, queued, "callback_pending")[i] # NoRecord
               /\ UpdateStates(store, queued, "callback_pending")[i].by = store[i].by
               /\ UpdateStates(store, queued, "callback_pending")[i].state =
                    IF store[i].by \in queued THEN "callback_pending" ELSE store[i].state
      BY <1>0, <1>3, <2>1, StatesWrite
    <2> QED
      BY <1>1, <2>2
  <1>7. WorkerTypeOK'
    <2>1. runq' = <<>> /\ <<>> \in Seq(RunRequests)
      BY <1>1, EmptySeq
    <2> QED
      BY <1>0, <1>1, <1>5, <1>6, <2>1 DEF WorkerTypeOK, StoreTables, StoreRows, RunTables, RunRows
  <1>8. QueueFits(runq', run')
    <2>1. RunsRunning(run') = RunsRunning(run)
      BY <1>4 DEF RunsRunning
    <2>2. \A r \in RunRequests : run'[r].phase # "queued"
      BY <1>4
    <2>e. runq' = <<>> /\ <<>> \in Seq(RunRequests) /\ Len(<<>>) = 0
      BY <1>1, EmptySeq
    <2>3. runq' \in Seq(RunRequests) /\ Len(runq') = 0 /\ Len(runq) \in Nat
      BY <1>0, <2>e
    <2> DEFINE a == Cardinality(RunsRunning(run))
    <2>4. IsFiniteSet(RunsRunning(run)) /\ a \in Nat /\ a <= Concurrency /\ a + Len(runq) <= Concurrency + MaxQueuedRuns
      BY FS_CardinalityType DEF WorkerInv, QueueFits
    <2> HIDE DEF a
    <2>5. a + 0 <= Concurrency + MaxQueuedRuns
      BY <2>3, <2>4, WorkerBounds
    <2> QED
      BY <1>1, <2>1, <2>2, <2>3, <2>4, <2>5, EmptyQueue DEF QueueFits, a
  <1>9. RunIsStored(run', store')
    <2> SUFFICES ASSUME NEW r \in RunRequests, run'[r].phase \in OnHand
                 PROVE  /\ store'[InvocationOf[r]] # NoRecord
                        /\ store'[InvocationOf[r]].by = r /\ store'[InvocationOf[r]].state \in Unsettled
      BY DEF RunIsStored
    <2>1. run[r].phase \in OnHand
      BY <1>4 DEF OnHand
    <2>2. /\ store[InvocationOf[r]] # NoRecord
          /\ store[InvocationOf[r]].by = r /\ store[InvocationOf[r]].state \in Unsettled
      BY <2>1 DEF WorkerInv, RunIsStored
    <2> QED
      BY <2>2, <1>6, WorkerBounds DEF Unsettled
  <1>10. RunsAreAnswered'
    BY <1>4 DEF WorkerInv, RunsAreAnswered
  <1>11. WorkerStages'
    BY <1>1 DEF WorkerInv, WorkerStages, StoppedIsQuiet
  <1> QED
    BY <1>7, <1>8, <1>9, <1>10, <1>11 DEF WorkerInv

\* A request is answered: its run is taken on when no run of its invocation is
\* on hand, and of the store nothing is lost but what may be forgotten.
LEMMA WorkerAnswerStep ==
  ASSUME WorkerInv, NEW r \in RunRequests, Answer(r)
  PROVE  WorkerInv'
PROOF
  <1> DEFINE i == InvocationOf[r]
             kind == Lookup(i, FingerprintOf[r])
  <1>0. /\ WorkerTypeOK /\ store \in StoreTables /\ run \in RunTables /\ runq \in Seq(RunRequests)
        /\ http \in [RunRequests -> Answers \cup {"new", "reading"}] /\ run[r] \in RunRows
        /\ i \in WorkerInvocations /\ \A j \in WorkerInvocations : store[j] \in {NoRecord} \cup StoreRows
    BY WorkerTables, WorkerBounds DEF WorkerInv, RunTables, StoreTables
  <1>1. http[r] = "reading" /\ UNCHANGED <<wstate, bound, accepting, aborted>> /\ run[r].phase = "none"
    BY DEF Answer, WorkerInv, RunsAreAnswered
  <1>2. bound /\ wstate # "stopped" /\ ~run[r].tracked
    BY <1>1 DEF WorkerInv, WorkerStages, RunsAreAnswered
  <1>3. WorkerStages'
    BY <1>1, <1>2 DEF WorkerInv, WorkerStages, StoppedIsQuiet
  <1>4. kind \in {"miss", "duplicate", "conflict"}
    BY DEF Lookup
  <1>5. kind = "miss" => \A q \in RunRequests : InvocationOf[q] = i => run[q].phase \notin OnHand
    <2> SUFFICES ASSUME NEW q \in RunRequests, InvocationOf[q] = i, run[q].phase \in OnHand
                 PROVE  kind # "miss"
      OBVIOUS
    <2>1. store[i] # NoRecord /\ store[i].state \in Unsettled
      BY DEF WorkerInv, RunIsStored
    <2>2. ~IsExpiredTerminal(store[i])
      BY <2>1 DEF IsExpiredTerminal, Unsettled
    <2> QED
      BY <2>1, <2>2 DEF Lookup
  <1> HIDE DEF kind, i
  <1>6. ASSUME NEW a \in Answers, http' = [http EXCEPT ![r] = a],
               store' = store \/ (kind = "miss" /\ store' = [store EXCEPT ![i] = NoRecord]),
               UNCHANGED <<runq, drainScheduled, run>>
        PROVE  WorkerInv'
    <2>1. http' \in [RunRequests -> Answers \cup {"new", "reading"}] /\ a \notin {"new", "reading"}
      BY <1>0, <1>6 DEF Answers
    <2>2. store' \in StoreTables
      BY <1>0, <1>6 DEF StoreTables
    <2>3. WorkerTypeOK'
      BY <1>0, <1>1, <1>6, <2>1, <2>2 DEF WorkerTypeOK, StoreTables, StoreRows
    <2>4. (QueueFits(runq, run))'
      BY <1>6 DEF WorkerInv, QueueFits, RunsRunning
    <2>5. (RunIsStored(run, store))'
      <3> SUFFICES ASSUME NEW q \in RunRequests, run[q].phase \in OnHand
                   PROVE  store'[InvocationOf[q]] = store[InvocationOf[q]]
        BY <1>6 DEF WorkerInv, RunIsStored
      <3>1. InvocationOf[q] \in WorkerInvocations
        BY WorkerBounds
      <3> QED
        BY <3>1, <1>0, <1>5, <1>6 DEF StoreTables
    <2>6. RunsAreAnswered'
      BY <1>0, <1>6, <2>1 DEF WorkerInv, RunsAreAnswered
    <2> QED
      BY <1>3, <2>3, <2>4, <2>5, <2>6 DEF WorkerInv
  <1>7. CASE kind = "miss" /\ HasCapacity /\ http' = [http EXCEPT ![r] = "accepted"]
             /\ (\/ /\ store' = Create(r) /\ runq' = Append(runq, r) /\ drainScheduled' = TRUE
                    /\ run' = [run EXCEPT ![r].phase = "queued"]
                 \/ /\ store' = UpdateState(Create(r), r, "callback_pending")
                    /\ run' = [run EXCEPT ![r].phase = "delivering"]
                    /\ UNCHANGED <<runq, drainScheduled>>)
    <2>1. PICK p \in {"queued", "delivering"} :
            /\ run' = [run EXCEPT ![r].phase = p]
            /\ IF p = "queued" THEN store' = Create(r) /\ runq' = Append(runq, r) /\ drainScheduled' = TRUE
               ELSE store' = UpdateState(Create(r), r, "callback_pending") /\ UNCHANGED <<runq, drainScheduled>>
      BY <1>7
    <2> DEFINE w == [run[r] EXCEPT !.phase = p]
               new == [by |-> r, state |-> "queued", old |-> FALSE]
               made == Create(r)
    <2>2. w \in RunRows /\ w.phase = p /\ w.tracked = run[r].tracked
      BY <1>0 DEF RunRows, LiveRun
    <2>3. run' = [run EXCEPT ![r] = w]
      BY <2>1
    <2> HIDE DEF w
    <2>4. run' \in RunTables /\ \A q \in RunRequests : run'[q] = IF q = r THEN w ELSE run[q]
      BY <1>0, <2>2, <2>3 DEF RunTables
    <2>5. new \in StoreRows /\ new.by = r /\ new.state \in Unsettled /\ new # NoRecord
      BY DEF StoreRows, Unsettled, NoRecord, RunStates
    <2>6. made = [j \in WorkerInvocations |-> IF j = i THEN new ELSE IF j \in Kept(i) THEN store[j] ELSE NoRecord]
      BY DEF Create, i
    <2> HIDE DEF new, made
    <2>7. made \in StoreTables
      BY <1>0, <2>5, <2>6 DEF StoreTables
    <2>8. /\ made[i] # NoRecord /\ made[i].by = r /\ made[i].state \in Unsettled
          /\ \A j \in WorkerInvocations : j # i /\ store[j] # NoRecord /\ store[j].state \in Unsettled => made[j] = store[j]
      <3>1. \A j \in WorkerInvocations : store[j].state \in Unsettled => ~IsExpiredTerminal(store[j])
        BY DEF IsExpiredTerminal, Unsettled
      <3>2. \A j \in WorkerInvocations : j # i /\ store[j] # NoRecord /\ ~IsExpiredTerminal(store[j]) => j \in Kept(i)
        BY DEF Kept, Records
      <3> QED
        BY <1>0, <2>5, <2>6, <3>1, <3>2
    <2>9. /\ store' \in StoreTables /\ store'[i] # NoRecord /\ store'[i].by = r /\ store'[i].state \in Unsettled
          /\ \A j \in WorkerInvocations : j # i /\ made[j] # NoRecord =>
               store'[j] # NoRecord /\ store'[j].by = made[j].by /\ store'[j].state = made[j].state
      <3>1. CASE p = "queued"
        BY <2>1, <2>7, <2>8, <3>1 DEF made
      <3>2. CASE p = "delivering"
        <4>0. store' = UpdateState(made, r, "callback_pending")
          BY <2>1, <3>2 DEF made
        <4>1. "callback_pending" \in RunStates /\ "callback_pending" \in Unsettled
          BY DEF RunStates, Unsettled
        <4>2. /\ UpdateState(made, r, "callback_pending") \in StoreTables
              /\ \A j \in WorkerInvocations : made[j] # NoRecord =>
                   /\ UpdateState(made, r, "callback_pending")[j] # NoRecord
                   /\ UpdateState(made, r, "callback_pending")[j].by = made[j].by
                   /\ UpdateState(made, r, "callback_pending")[j].state =
                        IF j = InvocationOf[r] /\ made[j].by = r THEN "callback_pending" ELSE made[j].state
          BY <2>7, <4>1, StateWrite
        <4> QED
          BY <1>0, <2>8, <4>0, <4>1, <4>2 DEF i
      <3> QED
        BY <3>1, <3>2
    <2>10. RunIsStored(run', store')
      <3> SUFFICES ASSUME NEW q \in RunRequests, run'[q].phase \in OnHand
                   PROVE  /\ store'[InvocationOf[q]] # NoRecord
                          /\ store'[InvocationOf[q]].by = q /\ store'[InvocationOf[q]].state \in Unsettled
        BY DEF RunIsStored
      <3>1. CASE q = r
        BY <3>1, <2>9 DEF i
      <3>2. CASE q # r
        <4>1. run[q].phase \in OnHand /\ InvocationOf[q] \in WorkerInvocations
          BY <3>2, <2>4, WorkerBounds
        <4>2. InvocationOf[q] # i
          BY <4>1, <1>5, <1>7
        <4>3. /\ store[InvocationOf[q]] # NoRecord
              /\ store[InvocationOf[q]].by = q /\ store[InvocationOf[q]].state \in Unsettled
          BY <4>1 DEF WorkerInv, RunIsStored
        <4> QED
          BY <4>1, <4>2, <4>3, <2>8, <2>9
      <3> QED
        BY <3>1, <3>2
    <2>11. RunsRunning(run') = RunsRunning(run)
      BY <1>1, <2>1, <2>2, <2>4 DEF RunsRunning
    <2>12. QueueFits(runq', run')
      <3>1. CASE p = "delivering"
        <4>1. runq' = runq
          BY <2>1, <3>1
        <4>2. \A q \in RunRequests : run'[q].phase = "queued" <=> run[q].phase = "queued"
          BY <1>1, <2>2, <2>4, <3>1
        <4> QED
          BY <4>1, <4>2, <2>11 DEF WorkerInv, QueueFits
      <3>2. CASE p = "queued"
        <4>1. Distinct(runq) /\ ~Holds(runq, r) /\ runq' = Append(runq, r)
          BY <1>1, <2>1, <3>2 DEF WorkerInv, QueueFits
        <4>2. /\ runq' \in Seq(RunRequests) /\ Distinct(runq') /\ Len(runq') = Len(runq) + 1
              /\ \A x : Holds(runq', x) <=> Holds(runq, x) \/ x = r
          BY <1>0, <4>1, PutLast
        <4>3. \A q \in RunRequests : run'[q].phase = "queued" <=> Holds(runq', q)
          BY <2>2, <2>4, <3>2, <4>2 DEF WorkerInv, QueueFits
        <4> DEFINE c == Cardinality(RunsRunning(run))
                   l == Len(runq)
        <4>4. c \in Nat /\ l \in Nat /\ c <= Concurrency /\ IsFiniteSet(RunsRunning(run))
          BY <1>0, FS_CardinalityType DEF WorkerInv, QueueFits
        <4>5. c + l < Concurrency + MaxQueuedRuns
          <5>1. ActiveRuns = RunsRunning(run)
            BY DEF ActiveRuns, RunsRunning
          <5> QED
            BY <1>7, <5>1 DEF HasCapacity
        <4>6. Len(runq') = l + 1 /\ Cardinality(RunsRunning(run')) = c
          BY <4>2, <2>11
        <4> HIDE DEF c, l
        <4>7. c + (l + 1) <= Concurrency + MaxQueuedRuns
          BY <4>4, <4>5, WorkerBounds
        <4> QED
          BY <2>11, <4>2, <4>3, <4>4, <4>6, <4>7 DEF QueueFits
      <3> QED
        BY <3>1, <3>2
    <2>13. WorkerTypeOK'
      <3>1. runq' \in Seq(RunRequests) /\ drainScheduled' \in BOOLEAN
        BY <1>0, <2>1, <2>12 DEF QueueFits, WorkerTypeOK
      <3>2. http' \in [RunRequests -> Answers \cup {"new", "reading"}]
        BY <1>0, <1>7 DEF Answers
      <3> QED
        BY <1>0, <1>1, <2>4, <2>9, <3>1, <3>2 DEF WorkerTypeOK, StoreTables, StoreRows, RunTables, RunRows
    <2>14. RunsAreAnswered'
      <3>1. \A q \in RunRequests : http'[q] = IF q = r THEN "accepted" ELSE http[q]
        BY <1>0, <1>7
      <3> QED
        BY <2>2, <2>4, <3>1 DEF WorkerInv, RunsAreAnswered
    <2> QED
      BY <1>3, <2>10, <2>12, <2>13, <2>14 DEF WorkerInv
  <1>8. CASE kind # "miss" /\ http' = [http EXCEPT ![r] = kind] /\ UNCHANGED <<store, runq, drainScheduled, run>>
    <2>1. kind \in Answers
      BY <1>4, <1>8 DEF Answers
    <2> QED
      BY <1>6, <1>8, <2>1
  <1>9. ASSUME NEW a \in {"queue_full", "capacity_full"}, kind = "miss", http' = [http EXCEPT ![r] = a],
               store' = [store EXCEPT ![i] = NoRecord], UNCHANGED <<runq, drainScheduled, run>>
        PROVE  WorkerInv'
    <2>1. a \in Answers
      BY DEF Answers
    <2> QED
      BY <1>6, <1>9, <2>1
  <1> QED
    BY <1>7, <1>8, <1>9 DEF Answer, kind, i

LEMMA WorkerStep ==
  ASSUME WorkerInv, [WorkerNext]_workerVars
  PROVE  WorkerInv'
PROOF
  <1>1. CASE UNCHANGED workerVars
    BY <1>1 DEF WorkerInv, WorkerTypeOK, QueueFits, RunIsStored, RunsAreAnswered, WorkerStages, StoppedIsQuiet,
                RunsRunning, ActiveRuns, workerVars
  <1>2. CASE \/ Start \/ BindFails \/ GraceExpires \/ Stopped
             \/ Listening /\ wstate = "starting"
             \/ Stop /\ wstate # "running"
             \/ \E r \in RunRequests : Receive(r) \/ Reject(r)
    BY <1>2, WorkerLifeSteps
  <1>3. CASE (Listening /\ wstate # "starting") \/ (Stop /\ wstate = "running")
    <2>1. StopAccepting(store) /\ UNCHANGED <<aborted, http>>
      BY <1>3 DEF Listening, Stop
    <2>2. bound' \in {bound, TRUE}
      BY <1>3 DEF Listening, Stop
    <2> QED
      BY <2>1, <2>2, WorkerStopAcceptingStep
  <1>4. CASE ScheduledDrain \/ \E r \in RunRequests : EndRun(r)
    BY <1>4, WorkerDrainSteps
  <1>5. CASE Cleanup \/ \E i \in WorkerInvocations : TimePasses(i)
    BY <1>5, WorkerStoreSteps
  <1>6. ASSUME NEW r \in RunRequests, Answer(r)
        PROVE  WorkerInv'
    BY <1>6, WorkerAnswerStep
  <1>7. ASSUME NEW r \in RunRequests, Attempt(r) \/ AbortDelivery(r) \/ HookReturns(r) \/ HookAborted(r)
        PROVE  WorkerInv'
    BY <1>7, WorkerDeliverySteps
  <1> QED
    BY <1>1, <1>2, <1>3, <1>4, <1>5, <1>6, <1>7 DEF WorkerNext

\* The worker, for every set of requests, capacity and attempt limit: it executes
\* and queues no more than RunScheduler allows, has one run of an invocation on
\* hand whatever TTL and cleanup forget, and is quiet once stop() has resolved.
THEOREM WorkerInvariance ==
  WorkerSpec => [](WorkerCapacityHolds /\ OneLiveRunPerInvocation /\ StoppedIsQuiet /\ WorkerTypeOK)
PROOF
  <1>1. WorkerInv /\ [WorkerNext]_workerVars => WorkerInv'
    BY WorkerStep
  <1>2. WorkerInv => WorkerCapacityHolds /\ OneLiveRunPerInvocation /\ StoppedIsQuiet /\ WorkerTypeOK
    <2> SUFFICES ASSUME WorkerInv
                 PROVE  WorkerCapacityHolds /\ OneLiveRunPerInvocation /\ StoppedIsQuiet /\ WorkerTypeOK
      OBVIOUS
    <2>1. WorkerCapacityHolds
      <3>1. ActiveRuns = RunsRunning(run)
        BY DEF ActiveRuns, RunsRunning
      <3> QED
        BY <3>1 DEF WorkerInv, QueueFits, WorkerCapacityHolds
    <2>2. OneLiveRunPerInvocation
      BY DEF WorkerInv, RunIsStored, OneLiveRunPerInvocation, OnHand
    <2> QED
      BY <2>1, <2>2 DEF WorkerInv, WorkerStages
  <1> QED
    BY <1>1, <1>2, WorkerInitHolds, PTL DEF WorkerSpec

-----------------------------------------------------------------------------
(***************************************************************************)
(* Maintenance                                                             *)
(*                                                                         *)
(* What an invocation still has to do is a sequence of steps.  Labels      *)
(* annotate it the way assertions annotate a program: a label stands for a *)
(* condition on journal, databases and versions, and every step takes the  *)
(* label before it to the label after it.  Whatever is left to do has such *)
(* an annotation, whose first label stands now.                            *)
(***************************************************************************)

LostJournal == {"absent", "malformed"}
Labels == {"open", "active", "swapping", "moved", "vacant", "candidate",
           "upgrading", "older", "backed", "raised"}

\* What a label stands for, in the invocation i.
Stands(i, l) ==
  CASE l = "active"    -> db["active"] = authority
    [] l = "swapping"  -> db["active"] = authority /\ journal \in LostJournal \cup {"swap-active-to-safety"}
    [] l = "moved"     -> /\ ~Has("active") /\ db["safety"] = authority
                          /\ journal \notin {"complete", "verify-done", "quiescing"}
    [] l = "vacant"    -> /\ ~Has("active") /\ db["safety"] = authority
                          /\ journal \in LostJournal \cup {"swap-verified-to-active", "post-gates"}
    [] l = "candidate" -> /\ Has("active") /\ db["safety"] = authority
                          /\ journal \in LostJournal \cup {"swap-verified-to-active", "post-gates"}
    [] l = "upgrading" -> mode[i] = "upgrade"
    [] l = "older"     -> mode[i] = "upgrade" /\ versions.deployed = 1
    [] l = "backed"    -> /\ mode[i] = "upgrade" /\ versions.deployed = 1
                          /\ [by |-> i, version |-> 1] \in backups
    [] l = "raised"    -> versions.running = 2
    [] OTHER           -> TRUE

QuietOps == {"check", "restore", "start", "quiesce", "clear"}
Spare    == FailedNames \cup {"no free name"}

\* The step s takes the label l to the label m.
Takes(l, s, m) ==
  \/ s.op \in QuietOps /\ s.fail = <<>> /\ m = l
  \/ s.op \in {"own", "reconcile"} /\ s.fail = <<>> /\ l = "open" /\ m = "open"
  \/ s.op = "settle" /\ s.fail = <<>> /\ l = "active" /\ m = "active"
  \/ s.op = "gates" /\ s.fail = <<>> /\ l = "candidate" /\ m = "candidate"
  \/ s.op = "backup" /\ s.fail = <<>> /\ ((l = "open" /\ m = "open") \/ (l = "older" /\ m = "backed"))
  \/ s.op = "target" /\ s.fail = <<>> /\ l = "upgrading" /\ m = "older"
  \/ s.op = "up" /\ s.fail = <<>> /\ l = "backed" /\ m = "raised"
  \/ s.op = "persist" /\ s.fail = <<>> /\ l = "raised" /\ m = "open"
  \/ /\ s.op = "journal" /\ s.fail = <<>>
     /\ \/ s.phase \in {"verify-done", "quiescing"} /\ l = "active" /\ m = "active"
        \/ s.phase = "swap-active-to-safety" /\ l = "active" /\ m = "swapping"
        \/ s.phase = "swap-verified-to-active" /\ l = "moved" /\ m = "vacant"
        \/ s.phase = "post-gates" /\ l = "candidate" /\ m = "candidate"
        \/ s.phase = "complete" /\ l = "candidate" /\ m = "active"
  \/ /\ s.op = "drop"
     /\ \/ s.from \in Spare /\ s.fail = <<>> /\ m = l
        \/ s.from = "safety" /\ s.fail = RestartUntouched /\ l = "swapping" /\ m = "swapping"
  \/ /\ s.op = "rename"
     /\ \/ s.from = "active" /\ s.to = "safety" /\ s.fail = RestartUntouched /\ l = "swapping" /\ m = "moved"
        \/ s.from = "isolated" /\ s.to = "active" /\ s.fail = RollbackSwap /\ l = "vacant" /\ m = "candidate"
        \/ s.from = "active" /\ s.to \in Spare /\ s.fail = <<>> /\ l = "candidate" /\ m = "vacant"
        \/ s.from = "safety" /\ s.to = "active" /\ s.fail = <<>> /\ l \in {"moved", "vacant"} /\ m = "active"

PlainOps == QuietOps \cup {"own", "reconcile", "settle", "gates", "backup", "target", "up", "persist"}
Handlers == {<<>>, RestartUntouched, RollbackSwap}
Names    == Databases \cup Spare
RecoverySteps ==
  {Step0(o) : o \in PlainOps} \cup {JournalAt(p) : p \in JournalPhases}
  \cup {Drop(n, f) : n \in Names, f \in Handlers} \cup {Rename(a, b, f) : a \in Names, b \in Names, f \in Handlers}

\* The steps t lead from the label l to the label m.
Leads(t, l, m) ==
  /\ t \in Seq(RecoverySteps)
  /\ \E lab \in [1 .. Len(t) + 1 -> Labels] :
       /\ lab[1] = l /\ lab[Len(t) + 1] = m
       /\ \A k \in 1 .. Len(t) : Takes(lab[k], t[k], lab[k + 1])

\* Doing nothing keeps a label.
LEMMA LeadsNowhere == ASSUME NEW l \in Labels PROVE Leads(<<>>, l, l)
PROOF
  <1> DEFINE lab == [k \in 1 .. 1 |-> l]
  <1>1. <<>> \in Seq(RecoverySteps) /\ Len(<<>>) = 0
    OBVIOUS
  <1>2. lab \in [1 .. 0 + 1 -> Labels] /\ lab[1] = l /\ lab[0 + 1] = l /\ \A k \in 1 .. 0 : Takes(lab[k], <<>>[k], lab[k + 1])
    OBVIOUS
  <1> QED
    BY <1>1, <1>2 DEF Leads

\* One step.
LEMMA LeadsOne ==
  ASSUME NEW s \in RecoverySteps, NEW l \in Labels, NEW m \in Labels, Takes(l, s, m)
  PROVE  Leads(<<s>>, l, m)
PROOF
  <1> DEFINE lab == [k \in 1 .. 2 |-> IF k = 1 THEN l ELSE m]
  <1>1. <<s>> \in Seq(RecoverySteps) /\ Len(<<s>>) = 1 /\ <<s>>[1] = s
    OBVIOUS
  <1>2. lab \in [1 .. 1 + 1 -> Labels] /\ lab[1] = l /\ lab[1 + 1] = m
    OBVIOUS
  <1>3. \A k \in 1 .. 1 : Takes(lab[k], <<s>>[k], lab[k + 1])
    <2> SUFFICES ASSUME NEW k \in 1 .. 1 PROVE Takes(lab[k], <<s>>[k], lab[k + 1])
      OBVIOUS
    <2>1. k = 1 /\ lab[k] = l /\ lab[k + 1] = m /\ <<s>>[k] = s
      OBVIOUS
    <2> QED
      BY <2>1
  <1> QED
    BY <1>1, <1>2, <1>3 DEF Leads

\* One thing after another.
LEMMA LeadsOn ==
  ASSUME NEW t, NEW u, NEW l, NEW k, NEW m, Leads(t, l, k), Leads(u, k, m)
  PROVE  Leads(t \o u, l, m)
PROOF
  <1>1. t \in Seq(RecoverySteps) /\ u \in Seq(RecoverySteps)
    BY DEF Leads
  <1>2. PICK a \in [1 .. Len(t) + 1 -> Labels] :
          /\ a[1] = l /\ a[Len(t) + 1] = k
          /\ \A j \in 1 .. Len(t) : Takes(a[j], t[j], a[j + 1])
    BY DEF Leads
  <1>3. PICK b \in [1 .. Len(u) + 1 -> Labels] :
          /\ b[1] = k /\ b[Len(u) + 1] = m
          /\ \A j \in 1 .. Len(u) : Takes(b[j], u[j], b[j + 1])
    BY DEF Leads
  <1> DEFINE w == t \o u
             x == Len(t)
             y == Len(u)
             lab == [j \in 1 .. x + y + 1 |-> IF j <= x THEN a[j] ELSE b[j - x]]
  <1>4. /\ x \in Nat /\ y \in Nat /\ w \in Seq(RecoverySteps) /\ Len(w) = x + y
        /\ \A j \in 1 .. x + y : w[j] = IF j <= x THEN t[j] ELSE u[j - x]
    BY <1>1
  <1> HIDE DEF w, x, y
  <1>5. lab \in [1 .. x + y + 1 -> Labels]
    <2> SUFFICES ASSUME NEW j \in 1 .. x + y + 1
                 PROVE  (IF j <= x THEN a[j] ELSE b[j - x]) \in Labels
      OBVIOUS
    <2>1. CASE j <= x
      BY <2>1, <1>2, <1>4 DEF x
    <2>2. CASE ~(j <= x)
      <3>1. j - x \in 1 .. y + 1
        BY <2>2, <1>4
      <3> QED
        BY <3>1, <2>2, <1>3 DEF y
    <2> QED
      BY <2>1, <2>2
  <1>6. lab[1] = l /\ lab[x + y + 1] = m
    <2>1. lab[1] = l
      <3>1. 1 \in 1 .. x + y + 1
        BY <1>4
      <3>2. CASE 1 <= x
        BY <3>1, <3>2, <1>2
      <3>3. CASE ~(1 <= x)
        <4>1. x = 0 /\ 1 - x = 1
          BY <3>3, <1>4
        <4>2. l = k
          BY <4>1, <1>2 DEF x
        <4> QED
          BY <3>1, <3>3, <4>1, <4>2, <1>3
      <3> QED
        BY <3>2, <3>3
    <2>2. x + y + 1 \in 1 .. x + y + 1 /\ ~(x + y + 1 <= x) /\ x + y + 1 - x = y + 1
      BY <1>4
    <2>3. \A j \in 1 .. x + y + 1 : lab[j] = IF j <= x THEN a[j] ELSE b[j - x]
      OBVIOUS
    <2>4. lab[x + y + 1] = b[x + y + 1 - x]
      <3> HIDE DEF lab
      <3> QED
        BY <2>2, <2>3, <1>4
    <2> QED
      BY <2>1, <2>2, <2>4, <1>3 DEF y
  <1>7. ASSUME NEW j \in 1 .. x + y PROVE Takes(lab[j], w[j], lab[j + 1])
    <2>0. j \in 1 .. x + y + 1 /\ j + 1 \in 1 .. x + y + 1
      BY <1>4
    <2>4. \A n \in 1 .. x + y + 1 : lab[n] = IF n <= x THEN a[n] ELSE b[n - x]
      OBVIOUS
    <2> HIDE DEF lab
    <2>1. CASE j + 1 <= x
      <3>1. j \in 1 .. x /\ j <= x
        BY <2>1, <1>4
      <3>2. lab[j] = a[j] /\ lab[j + 1] = a[j + 1] /\ w[j] = t[j]
        BY <2>0, <2>4, <2>1, <3>1, <1>4
      <3> QED
        BY <3>1, <3>2, <1>2 DEF x
    <2>2. CASE j = x
      <3>1. j \in 1 .. x /\ j <= x /\ ~(j + 1 <= x) /\ j + 1 - x = 1
        BY <2>2, <1>4
      <3>2. lab[j] = a[j] /\ lab[j + 1] = b[1] /\ w[j] = t[j]
        BY <2>0, <2>4, <3>1, <1>4
      <3>3. b[1] = a[j + 1]
        BY <2>2, <1>2, <1>3 DEF x
      <3> QED
        BY <3>1, <3>2, <3>3, <1>2 DEF x
    <2>3. CASE j > x
      <3>1. j - x \in 1 .. y /\ ~(j <= x) /\ ~(j + 1 <= x) /\ j + 1 - x = (j - x) + 1
        BY <2>3, <1>4
      <3>2. w[j] = u[j - x]
        BY <3>1, <1>4
      <3>3. lab[j] = b[j - x]
        BY <2>0, <2>4, <3>1
      <3>4. \A n \in 1 .. x + y + 1 : ~(n <= x) => lab[n] = b[n - x]
        BY <2>4
      <3>5. lab[j + 1] = b[(j - x) + 1]
        <4> DEFINE n == j + 1
        <4>1. n \in 1 .. x + y + 1 /\ ~(n <= x) /\ n - x = (j - x) + 1
          BY <2>0, <3>1, <1>4
        <4> HIDE DEF n
        <4>2. lab[n] = b[(j - x) + 1]
          BY <3>4, <4>1
        <4> QED
          BY <4>2 DEF n
      <3> QED
        BY <3>1, <3>2, <3>3, <3>5, <1>3 DEF y
    <2> QED
      BY <2>1, <2>2, <2>3, <1>4
  <1> QED
    <2> HIDE DEF lab
    <2> QED
      BY <1>4, <1>5, <1>6, <1>7 DEF Leads, w

\* What is led to by the first step, and from there by the others.
LEMMA LeadsFirst ==
  ASSUME NEW t, NEW l, NEW m, Leads(t, l, m), t # <<>>
  PROVE  /\ Head(t) \in RecoverySteps
         /\ \E k \in Labels : Takes(l, Head(t), k) /\ Leads(Tail(t), k, m)
PROOF
  <1>1. t \in Seq(RecoverySteps)
    BY DEF Leads
  <1>2. PICK a \in [1 .. Len(t) + 1 -> Labels] :
          /\ a[1] = l /\ a[Len(t) + 1] = m
          /\ \A j \in 1 .. Len(t) : Takes(a[j], t[j], a[j + 1])
    BY DEF Leads
  <1> DEFINE x == Len(t)
             u == Tail(t)
             lab == [j \in 1 .. x |-> a[j + 1]]
  <1>3. /\ x \in Nat /\ x > 0 /\ Head(t) = t[1] /\ t[1] \in RecoverySteps
        /\ u \in Seq(RecoverySteps) /\ Len(u) = x - 1 /\ \A j \in 1 .. x - 1 : u[j] = t[j + 1]
    BY <1>1
  <1> HIDE DEF x, u
  <1>4. (x - 1) + 1 = x
    BY <1>3
  <1>5. lab \in [1 .. x -> Labels] /\ lab[1] = a[2] /\ lab[x] = m
    BY <1>2, <1>3 DEF x
  <1>6. ASSUME NEW j \in 1 .. x - 1 PROVE Takes(lab[j], u[j], lab[j + 1])
    <2>1. j \in 1 .. x /\ j + 1 \in 1 .. x
      BY <1>3
    <2>2. lab[j] = a[j + 1] /\ lab[j + 1] = a[(j + 1) + 1] /\ u[j] = t[j + 1]
      BY <2>1, <1>3
    <2> QED
      BY <2>1, <2>2, <1>2 DEF x
  <1>7. Takes(l, Head(t), a[2]) /\ a[2] \in Labels
    <2>1. 1 \in 1 .. x /\ 1 + 1 = 2 /\ 2 \in 1 .. x + 1
      BY <1>3
    <2> QED
      BY <2>1, <1>2, <1>3 DEF x
  <1>8. Leads(u, a[2], m)
    <2> HIDE DEF lab
    <2> QED
      BY <1>3, <1>4, <1>5, <1>6 DEF Leads
  <1> QED
    BY <1>3, <1>7, <1>8 DEF u

\* Every step of a command is one of those, and takes its label along.
LEMMA PlainStep ==
  ASSUME NEW o \in QuietOps, NEW l \in Labels
  PROVE  Leads(<<Step0(o)>>, l, l)
PROOF
  <1>1. Step0(o) \in RecoverySteps
    BY DEF RecoverySteps, PlainOps
  <1>2. Takes(l, Step0(o), l)
    BY DEF Takes, Step0
  <1> QED
    BY <1>1, <1>2, LeadsOne

LEMMA OtherStep ==
  ASSUME NEW o \in PlainOps, NEW l \in Labels, NEW m \in Labels, Takes(l, Step0(o), m)
  PROVE  Leads(<<Step0(o)>>, l, m)
PROOF
  <1>1. Step0(o) \in RecoverySteps
    BY DEF RecoverySteps
  <1> QED
    BY <1>1, LeadsOne

LEMMA JournalLeads ==
  ASSUME NEW p \in JournalPhases, NEW l \in Labels, NEW m \in Labels, Takes(l, JournalAt(p), m)
  PROVE  Leads(<<JournalAt(p)>>, l, m)
PROOF
  <1>1. JournalAt(p) \in RecoverySteps
    BY DEF RecoverySteps
  <1> QED
    BY <1>1, LeadsOne

LEMMA RenameLeads ==
  ASSUME NEW a \in Names, NEW b \in Names, NEW f \in Handlers, NEW l \in Labels, NEW m \in Labels,
         Takes(l, Rename(a, b, f), m)
  PROVE  Leads(<<Rename(a, b, f)>>, l, m)
PROOF
  <1>1. Rename(a, b, f) \in RecoverySteps
    BY DEF RecoverySteps
  <1> QED
    BY <1>1, LeadsOne

LEMMA DropLeads ==
  ASSUME NEW a \in Names, NEW f \in Handlers, NEW l \in Labels, NEW m \in Labels, Takes(l, Drop(a, f), m)
  PROVE  Leads(<<Drop(a, f)>>, l, m)
PROOF
  <1>1. Drop(a, f) \in RecoverySteps
    BY DEF RecoverySteps
  <1> QED
    BY <1>1, LeadsOne

\* Proving the deployment, and dropping what was kept aside, keep any label.
LEMMA QuietSteps ==
  ASSUME NEW l \in Labels
  PROVE  /\ Leads(<<Check>>, l, l) /\ Leads(<<Clear>>, l, l) /\ Leads(<<RestartAndProve>>, l, l)
         /\ Leads(<<Step0("restore")>>, l, l) /\ Leads(<<Step0("quiesce")>>, l, l)
         /\ \A n \in Spare : Leads(<<Drop(n, <<>>)>>, l, l)
PROOF
  <1>1. {"check", "clear", "start", "restore", "quiesce"} \subseteq QuietOps
    BY DEF QuietOps
  <1>2. ASSUME NEW n \in Spare PROVE Leads(<<Drop(n, <<>>)>>, l, l)
    <2>1. Takes(l, Drop(n, <<>>), l)
      BY DEF Takes, Drop
    <2>2. n \in Names /\ <<>> \in Handlers
      BY DEF Names, Handlers
    <2> QED
      BY <2>1, <2>2, DropLeads
  <1> QED
    BY <1>1, <1>2, PlainStep DEF Check, Clear, RestartAndProve

\* A tuple is its members one after another, however they are grouped.
LEMMA Joined2 ==
  ASSUME NEW a, NEW b
  PROVE  <<a>> \o <<b>> = <<a, b>>
PROOF
  <1> DEFINE S == {a, b}
             u == <<a>> \o <<b>>
             t == <<a, b>>
  <1>1. u \in Seq(S) /\ t \in Seq(S) /\ Len(u) = 2 /\ Len(t) = 2
    OBVIOUS
  <1>2. \A i \in 1 .. 2 : u[i] = t[i]
    OBVIOUS
  <1> HIDE DEF u, t, S
  <1>3. u = t
    BY <1>1, <1>2, SeqEqual
  <1> QED
    BY <1>3 DEF u, t

LEMMA Joined3 ==
  ASSUME NEW a, NEW b, NEW c
  PROVE  <<a>> \o (<<b>> \o <<c>>) = <<a, b, c>>
PROOF
  <1> DEFINE S == {a, b, c}
             u == <<a>> \o (<<b>> \o <<c>>)
             t == <<a, b, c>>
  <1>1. u \in Seq(S) /\ t \in Seq(S) /\ Len(u) = 3 /\ Len(t) = 3
    OBVIOUS
  <1>2. \A i \in 1 .. 3 : u[i] = t[i]
    OBVIOUS
  <1> HIDE DEF u, t, S
  <1>3. u = t
    BY <1>1, <1>2, SeqEqual
  <1> QED
    BY <1>3 DEF u, t

LEMMA Joined4 ==
  ASSUME NEW a, NEW b, NEW c, NEW d
  PROVE  <<a>> \o <<b, c, d>> = <<a, b, c, d>>
PROOF
  <1> DEFINE S == {a, b, c, d}
             u == <<a>> \o <<b, c, d>>
             t == <<a, b, c, d>>
  <1>1. u \in Seq(S) /\ t \in Seq(S) /\ Len(u) = 4 /\ Len(t) = 4
    OBVIOUS
  <1>2. \A i \in 1 .. 4 : u[i] = t[i]
    OBVIOUS
  <1> HIDE DEF u, t, S
  <1>3. u = t
    BY <1>1, <1>2, SeqEqual
  <1> QED
    BY <1>3 DEF u, t

LEMMA Joined6 ==
  ASSUME NEW a, NEW b, NEW c, NEW d, NEW e, NEW f
  PROVE  (<<a>> \o <<b>>) \o (<<c, d, e>> \o <<f>>) = <<a, b, c, d, e, f>>
PROOF
  <1> DEFINE S == {a, b, c, d, e, f}
             u == (<<a>> \o <<b>>) \o (<<c, d, e>> \o <<f>>)
             t == <<a, b, c, d, e, f>>
  <1>1. u \in Seq(S) /\ t \in Seq(S) /\ Len(u) = 6 /\ Len(t) = 6
    OBVIOUS
  <1>2. \A i \in 1 .. 6 : u[i] = t[i]
    OBVIOUS
  <1> HIDE DEF u, t, S
  <1>3. u = t
    BY <1>1, <1>2, SeqEqual
  <1> QED
    BY <1>3 DEF u, t

LEMMA Joined7 ==
  ASSUME NEW a, NEW b, NEW c, NEW d, NEW e, NEW f, NEW g,
         NEW l, NEW m, Leads((<<a>> \o <<b>>) \o ((<<c>> \o <<d>>) \o (<<e>> \o (<<f>> \o <<g>>))), l, m)
  PROVE  Leads(<<a, b, c, d, e, f, g>>, l, m)
PROOF
  <1> DEFINE S == {a, b, c, d, e, f, g}
             u == (<<a>> \o <<b>>) \o ((<<c>> \o <<d>>) \o (<<e>> \o (<<f>> \o <<g>>)))
             t == <<a, b, c, d, e, f, g>>
  <1>1. u \in Seq(S) /\ t \in Seq(S) /\ Len(u) = 7 /\ Len(t) = 7
    OBVIOUS
  <1>2. \A i \in 1 .. 7 : u[i] = t[i]
    OBVIOUS
  <1> HIDE DEF u, t, S
  <1>3. u = t
    BY <1>1, <1>2, SeqEqual
  <1> QED
    BY <1>3 DEF u, t

LEMMA Joined11 ==
  ASSUME NEW a, NEW b, NEW c, NEW d, NEW e, NEW f, NEW g, NEW h, NEW p, NEW q, NEW r,
         NEW l, NEW m, Leads(((<<a>> \o <<b>>) \o (<<c>> \o <<d>>)) \o (((<<e>> \o <<f>>) \o (<<g>> \o <<h>>)) \o (<<p>> \o (<<q>> \o <<r>>))), l, m)
  PROVE  Leads(<<a, b, c, d, e, f, g, h, p, q, r>>, l, m)
PROOF
  <1> DEFINE S == {a, b, c, d, e, f, g, h, p, q, r}
             u == ((<<a>> \o <<b>>) \o (<<c>> \o <<d>>)) \o (((<<e>> \o <<f>>) \o (<<g>> \o <<h>>)) \o (<<p>> \o (<<q>> \o <<r>>)))
             t == <<a, b, c, d, e, f, g, h, p, q, r>>
  <1>1. u \in Seq(S) /\ t \in Seq(S) /\ Len(u) = 11 /\ Len(t) = 11
    OBVIOUS
  <1>2. \A i \in 1 .. 11 : u[i] = t[i]
    OBVIOUS
  <1> HIDE DEF u, t, S
  <1>3. u = t
    BY <1>1, <1>2, SeqEqual
  <1> QED
    BY <1>3 DEF u, t

\* The failure handlers of the swap.
LEMMA HandlersLead ==
  /\ Leads(RestartUntouched, "swapping", "swapping")
  /\ Leads(RollbackSwap, "vacant", "active")
  /\ \A l \in {"moved", "vacant"} :
       Leads(<<Rename("safety", "active", <<>>), RestartAndProve, Clear>>, l, "active")
PROOF
  <1>1. "swapping" \in Labels /\ "vacant" \in Labels /\ "active" \in Labels /\ "moved" \in Labels
    BY DEF Labels
  <1>2. Leads(RestartUntouched, "swapping", "swapping")
    BY <1>1, QuietSteps DEF RestartUntouched
  <1>3. ASSUME NEW l \in {"moved", "vacant"}
        PROVE  Leads(<<Rename("safety", "active", <<>>), RestartAndProve, Clear>>, l, "active")
    <2>1. Takes(l, Rename("safety", "active", <<>>), "active")
      BY DEF Takes, Rename
    <2>2. "safety" \in Names /\ "active" \in Names /\ <<>> \in Handlers
      BY DEF Names, Databases, Handlers
    <2>3. Leads(<<Rename("safety", "active", <<>>)>>, l, "active")
      BY <1>1, <2>1, <2>2, RenameLeads
    <2>4. Leads(<<RestartAndProve>> \o <<Clear>>, "active", "active")
      BY <1>1, QuietSteps, LeadsOn
    <2>5. Leads(<<Rename("safety", "active", <<>>)>> \o (<<RestartAndProve>> \o <<Clear>>), l, "active")
      BY <2>3, <2>4, LeadsOn
    <2>6. <<Rename("safety", "active", <<>>)>> \o (<<RestartAndProve>> \o <<Clear>>)
            = <<Rename("safety", "active", <<>>), RestartAndProve, Clear>>
      BY Joined3
    <2> QED
      BY <2>5, <2>6
  <1> QED
    BY <1>2, <1>3 DEF RollbackSwap

\* The candidate is moved aside.
LEMMA AsideLeads ==
  ASSUME NEW n \in Spare
  PROVE  Leads(<<Rename("active", n, <<>>)>>, "candidate", "vacant")
PROOF
  <1>1. Takes("candidate", Rename("active", n, <<>>), "vacant")
    BY DEF Takes, Rename
  <1>2. "active" \in Names /\ n \in Names /\ <<>> \in Handlers /\ "candidate" \in Labels /\ "vacant" \in Labels
    BY DEF Names, Databases, Handlers, Labels
  <1> QED
    BY <1>1, <1>2, RenameLeads

LEMMA FreeNameIsSpare == FreeFailedPromotionName \in Spare
PROOF
  BY DEF FreeFailedPromotionName, Spare, FailedNames

\* The rollback after a failed gate.
LEMMA RollbackLeads == Leads(RollbackPostPromotion, "candidate", "active")
PROOF
  <1> DEFINE n == FreeFailedPromotionName
             back == <<Rename("safety", "active", <<>>), RestartAndProve, Clear>>
  <1>0. n \in Spare /\ "candidate" \in Labels /\ "active" \in Labels
    BY FreeNameIsSpare DEF Labels
  <1> HIDE DEF n
  <1>1. Leads(<<Step0("quiesce")>> \o <<Rename("active", n, <<>>)>>, "candidate", "vacant")
    BY <1>0, QuietSteps, AsideLeads, LeadsOn
  <1>2. Leads(back \o <<Drop(n, <<>>)>>, "vacant", "active")
    BY <1>0, QuietSteps, HandlersLead, LeadsOn
  <1>3. Leads((<<Step0("quiesce")>> \o <<Rename("active", n, <<>>)>>) \o (back \o <<Drop(n, <<>>)>>), "candidate", "active")
    BY <1>1, <1>2, LeadsOn
  <1>4. (<<Step0("quiesce")>> \o <<Rename("active", n, <<>>)>>) \o (back \o <<Drop(n, <<>>)>>) = RollbackPostPromotion
    BY Joined6 DEF RollbackPostPromotion, n
  <1> QED
    BY <1>3, <1>4

\* A drill leaves the active database alone; a promotion swaps it out.
LEMMA DrillLeads == Leads(Drill, "active", "active")
PROOF
  <1>1. "active" \in Labels
    BY DEF Labels
  <1>2. Leads(<<Check>> \o (<<Step0("restore")>> \o <<Check>>), "active", "active")
    BY <1>1, QuietSteps, LeadsOn
  <1>3. <<Check>> \o (<<Step0("restore")>> \o <<Check>>) = Drill
    BY Joined3 DEF Drill
  <1> QED
    BY <1>2, <1>3

LEMMA PromoteLeads == Leads(Promote, "active", "active")
PROOF
  <1> USE DEF Labels, JournalPhases, Names, Databases, Handlers
  <1> DEFINE s1 == <<JournalAt("verify-done")>>
             s2 == <<JournalAt("quiescing")>>
             s3 == <<Step0("quiesce")>>
             s4 == <<JournalAt("swap-active-to-safety")>>
             s5 == <<Drop("safety", RestartUntouched)>>
             s6 == <<Rename("active", "safety", RestartUntouched)>>
             s7 == <<JournalAt("swap-verified-to-active")>>
             s8 == <<Rename("isolated", "active", RollbackSwap)>>
             s9 == <<JournalAt("post-gates")>>
             s10 == <<Step0("gates")>>
             s11 == <<JournalAt("complete")>>
  <1>1. Leads(s1, "active", "active") /\ Leads(s2, "active", "active")
    <2>1. Takes("active", JournalAt("verify-done"), "active") /\ Takes("active", JournalAt("quiescing"), "active")
      BY DEF Takes, JournalAt
    <2> QED
      BY <2>1, JournalLeads
  <1>3. Leads(s3, "active", "active")
    BY QuietSteps
  <1>4. Leads(s4, "active", "swapping")
    <2>1. Takes("active", JournalAt("swap-active-to-safety"), "swapping")
      BY DEF Takes, JournalAt
    <2> QED
      BY <2>1, JournalLeads
  <1>5. Leads(s5, "swapping", "swapping")
    <2>1. Takes("swapping", Drop("safety", RestartUntouched), "swapping")
      BY DEF Takes, Drop
    <2> QED
      BY <2>1, DropLeads
  <1>6. Leads(s6, "swapping", "moved")
    <2>1. Takes("swapping", Rename("active", "safety", RestartUntouched), "moved")
      BY DEF Takes, Rename
    <2> QED
      BY <2>1, RenameLeads
  <1>7. Leads(s7, "moved", "vacant")
    <2>1. Takes("moved", JournalAt("swap-verified-to-active"), "vacant")
      BY DEF Takes, JournalAt
    <2> QED
      BY <2>1, JournalLeads
  <1>8. Leads(s8, "vacant", "candidate")
    <2>1. Takes("vacant", Rename("isolated", "active", RollbackSwap), "candidate")
      BY DEF Takes, Rename
    <2> QED
      BY <2>1, RenameLeads
  <1>9. Leads(s9, "candidate", "candidate")
    <2>1. Takes("candidate", JournalAt("post-gates"), "candidate")
      BY DEF Takes, JournalAt
    <2> QED
      BY <2>1, JournalLeads
  <1>10. Leads(s10, "candidate", "candidate")
    <2>1. Takes("candidate", Step0("gates"), "candidate") /\ "gates" \in PlainOps
      BY DEF Takes, Step0, PlainOps
    <2> QED
      BY <2>1, OtherStep
  <1>11. Leads(s11, "candidate", "active")
    <2>1. Takes("candidate", JournalAt("complete"), "active")
      BY DEF Takes, JournalAt
    <2> QED
      BY <2>1, JournalLeads
  <1> HIDE DEF s1, s2, s3, s4, s5, s6, s7, s8, s9, s10, s11
  <1>12. Leads((s1 \o s2) \o (s3 \o s4), "active", "swapping")
    <2>1. Leads(s1 \o s2, "active", "active") /\ Leads(s3 \o s4, "active", "swapping")
      BY <1>1, <1>3, <1>4, LeadsOn
    <2> QED
      BY <2>1, LeadsOn
  <1>13. Leads((s5 \o s6) \o (s7 \o s8), "swapping", "candidate")
    <2>1. Leads(s5 \o s6, "swapping", "moved") /\ Leads(s7 \o s8, "moved", "candidate")
      BY <1>5, <1>6, <1>7, <1>8, LeadsOn
    <2> QED
      BY <2>1, LeadsOn
  <1>14. Leads(s9 \o (s10 \o s11), "candidate", "active")
    <2>1. Leads(s10 \o s11, "candidate", "active")
      BY <1>10, <1>11, LeadsOn
    <2> QED
      BY <1>9, <2>1, LeadsOn
  <1>15. Leads(((s1 \o s2) \o (s3 \o s4)) \o (((s5 \o s6) \o (s7 \o s8)) \o (s9 \o (s10 \o s11))), "active", "active")
    <2>1. Leads(((s5 \o s6) \o (s7 \o s8)) \o (s9 \o (s10 \o s11)), "swapping", "active")
      BY <1>13, <1>14, LeadsOn
    <2> QED
      BY <1>12, <2>1, LeadsOn
  <1>16. Leads(<< JournalAt("verify-done"), JournalAt("quiescing"), Step0("quiesce"),
                  JournalAt("swap-active-to-safety"), Drop("safety", RestartUntouched),
                  Rename("active", "safety", RestartUntouched),
                  JournalAt("swap-verified-to-active"),
                  Rename("isolated", "active", RollbackSwap),
                  JournalAt("post-gates"), Step0("gates"), JournalAt("complete") >>, "active", "active")
    BY <1>15, Joined11 DEF s1, s2, s3, s4, s5, s6, s7, s8, s9, s10, s11
  <1> QED
    BY <1>16, DrillLeads, LeadsOn DEF Promote

\* An upgrade recreates the stack behind a backup of the old version.
LEMMA UpgradeLeads == Leads(Upgrade, "upgrading", "open")
PROOF
  <1> DEFINE s1 == <<Step0("target")>>
             s3 == <<Step0("backup")>>
             s5 == <<Step0("up")>>
             s7 == <<Step0("persist")>>
  <1> USE DEF Labels, PlainOps
  <1>0. Leads(<<Check>>, "older", "older") /\ Leads(<<Check>>, "backed", "backed") /\ Leads(<<Check>>, "raised", "raised")
    BY QuietSteps
  <1>1. Leads(s1, "upgrading", "older")
    <2>1. Takes("upgrading", Step0("target"), "older")
      BY DEF Takes, Step0
    <2> QED
      BY <2>1, OtherStep
  <1>2. Leads(s3, "older", "backed")
    <2>1. Takes("older", Step0("backup"), "backed")
      BY DEF Takes, Step0
    <2> QED
      BY <2>1, OtherStep
  <1>3. Leads(s5, "backed", "raised")
    <2>1. Takes("backed", Step0("up"), "raised")
      BY DEF Takes, Step0
    <2> QED
      BY <2>1, OtherStep
  <1>4. Leads(s7, "raised", "open")
    <2>1. Takes("raised", Step0("persist"), "open")
      BY DEF Takes, Step0
    <2> QED
      BY <2>1, OtherStep
  <1> HIDE DEF s1, s3, s5, s7
  <1>5. Leads(s1 \o <<Check>>, "upgrading", "older") /\ Leads(s3 \o <<Check>>, "older", "backed")
        /\ Leads(s5 \o (<<Check>> \o s7), "backed", "open")
    <2>1. Leads(<<Check>> \o s7, "raised", "open")
      BY <1>0, <1>4, LeadsOn
    <2> QED
      BY <2>1, <1>0, <1>1, <1>2, <1>3, LeadsOn
  <1>6. Leads((s3 \o <<Check>>) \o (s5 \o (<<Check>> \o s7)), "older", "open")
    BY <1>5, LeadsOn
  <1>7. Leads((s1 \o <<Check>>) \o ((s3 \o <<Check>>) \o (s5 \o (<<Check>> \o s7))), "upgrading", "open")
    BY <1>5, <1>6, LeadsOn
  <1> QED
    BY <1>7, Joined7 DEF Upgrade, s1, s3, s5, s7

\* The tables that maintenance writes.
RecoveryTables ==
  /\ journal \in JournalPhases \cup LostJournal
  /\ db \in [Databases -> Contents \cup {Missing}]
  /\ services \in {"running", "stopped"}
  /\ versions \in [deployed : 1..2, running : 1..2]
  /\ backups \subseteq [by : Contents, version : 1..2]
  /\ authority \in Contents /\ settled \subseteq Invocations

\* Whatever a killed invocation left behind, journal and databases say where
\* the authority is.
LayoutAgrees ==
  /\ db["active"] = authority \/ db["safety"] = authority
  /\ journal \in {"complete", "verify-done", "quiescing"} => db["active"] = authority
  /\ journal = "swap-active-to-safety" => db["active"] \in {authority, Missing}
  /\ journal \in {"swap-verified-to-active", "post-gates"} => db["safety"] \in {authority, Missing}

\* The lock names who runs; a clear under way holds a lock whose owner died.
LockIsHeld ==
  /\ \A i \in Invocations : life[i] = "alive" => lockFile # NoLock /\ lockFile.pid = i
  /\ \A c \in Clears : clearing[c] # Missing =>
       lockFile # NoLock /\ lockFile.pid = clearing[c] /\ life[clearing[c]] = "dead"

\* What is left to do is annotated from a label that stands.
Proceeds(i) == \E l, m \in Labels : Stands(i, l) /\ Leads(todo[i], l, m)

RecoveryInv ==
  /\ RecoveryTypeOK /\ todo = [i \in Invocations |-> todo[i]]
  /\ LockIsHeld /\ LayoutAgrees /\ FailedUpgradeIsRecoverable /\ ReconciledIsAuthority
  /\ \A i \in Invocations : life[i] = "new" => mode[i] = Missing /\ i \notin settled
  /\ \A i \in Invocations : life[i] = "alive" => Proceeds(i)

LEMMA RecoveryNames ==
  /\ Missing \notin Contents /\ NoLock \notin [pid : Invocations, record : BOOLEAN]
  /\ "original" \in Contents /\ \A i \in Invocations : i \in Contents /\ i # Missing
  /\ {"active", "safety", "isolated"} \subseteq Databases
PROOF
  BY RecoveryAssumption DEF Missing, Contents, NoLock, Databases

LEMMA TablesAreTyped == RecoveryTypeOK => RecoveryTables
PROOF
  BY DEF RecoveryTypeOK, RecoveryTables, LostJournal

LEMMA RecoveryInitHolds == RecoveryInit => RecoveryInv
PROOF
  <1> SUFFICES ASSUME RecoveryInit PROVE RecoveryInv
    OBVIOUS
  <1>1. RecoveryTypeOK
    <2>1. db \in [Databases -> Contents \cup {Missing}]
      BY RecoveryNames DEF RecoveryInit
    <2>2. backups \subseteq [by : Contents, version : 1..2] /\ authority \in Contents
      BY RecoveryNames DEF RecoveryInit
    <2>3. crashes \in 0 .. RecoveryCrashLimit /\ lostCopies \in 0 .. LossLimit
      BY RecoveryAssumption DEF RecoveryInit
    <2> QED
      BY <2>1, <2>2, <2>3 DEF RecoveryTypeOK, RecoveryInit
  <1>2. LayoutAgrees
    BY RecoveryNames DEF LayoutAgrees, RecoveryInit
  <1> QED
    BY <1>1, <1>2 DEF RecoveryInv, RecoveryInit, LockIsHeld, FailedUpgradeIsRecoverable, ReconciledIsAuthority

\* What leaves the two databases that matter, the authority and the versions
\* alone, and the journal too unless it is lost, keeps every label.
RecoveryStays ==
  /\ UNCHANGED <<authority, versions, mode>> /\ backups \subseteq backups'
  /\ db'["active"] = db["active"] /\ db'["safety"] = db["safety"]
  /\ journal' = journal \/ journal' \in LostJournal

LEMMA StaysStands ==
  ASSUME RecoveryStays, NEW i \in Invocations, NEW l \in Labels, Stands(i, l)
  PROVE  Stands(i, l)'
PROOF
  <1>1. CASE l \in {"active", "swapping", "moved", "vacant", "candidate"}
    BY <1>1 DEF RecoveryStays, Stands, Has, LostJournal
  <1>2. CASE l \in {"open", "upgrading", "older", "backed", "raised"}
    BY <1>2 DEF RecoveryStays, Stands
  <1> QED
    BY <1>1, <1>2 DEF Labels

LEMMA StaysSound ==
  ASSUME RecoveryStays, LayoutAgrees, FailedUpgradeIsRecoverable
  PROVE  LayoutAgrees' /\ FailedUpgradeIsRecoverable'
PROOF
  <1>1. LayoutAgrees'
    BY DEF RecoveryStays, LayoutAgrees, LostJournal
  <1>2. FailedUpgradeIsRecoverable'
    BY DEF RecoveryStays, FailedUpgradeIsRecoverable
  <1> QED
    BY <1>1, <1>2

\* One invocation runs at a time.
LEMMA OnlyOwner ==
  ASSUME RecoveryInv, NEW i \in Invocations, NEW j \in Invocations, life[i] = "alive", life[j] = "alive"
  PROVE  i = j
PROOF
  BY DEF RecoveryInv, LockIsHeld

\* The owner makes a step.
LEMMA OwnerMoves ==
  ASSUME RecoveryInv, NEW i \in Invocations, life[i] = "alive", Unlocked,
         lockFile' = lockFile \/ lockFile' = [lockFile EXCEPT !.record = TRUE],
         todo' = [todo EXCEPT ![i] = todo'[i]], Proceeds(i)',
         RecoveryTables', LayoutAgrees', FailedUpgradeIsRecoverable',
         settled' \subseteq settled \cup {i}, i \in settled' => db'["active"] = authority'
  PROVE  RecoveryInv'
PROOF
  <1>1. lockFile \in [pid : Invocations, record : BOOLEAN] /\ lockFile.pid = i
    BY DEF RecoveryInv, LockIsHeld, RecoveryTypeOK
  <1>2. lockFile' \in [pid : Invocations, record : BOOLEAN] /\ lockFile'.pid = i /\ lockFile' # NoLock
    <2>1. lockFile' \in [pid : Invocations, record : BOOLEAN] /\ lockFile'.pid = i
      BY <1>1
    <2> QED
      BY <2>1, RecoveryNames
  <1>3. \A j \in Invocations : j # i => todo'[j] = todo[j] /\ life[j] # "alive"
    BY OnlyOwner DEF RecoveryInv
  <1>4. RecoveryTypeOK'
    BY <1>2, <1>3 DEF RecoveryInv, RecoveryTypeOK, RecoveryTables, Unlocked, LostJournal
  <1>5. LockIsHeld'
    BY <1>1, <1>2, <1>3 DEF RecoveryInv, LockIsHeld, Unlocked
  <1>6. ReconciledIsAuthority'
    BY <1>3 DEF RecoveryInv, ReconciledIsAuthority, RecoveryTables, Unlocked
  <1>7. todo' = [j \in Invocations |-> todo'[j]]
    BY DEF RecoveryInv
  <1>8. \A j \in Invocations : life'[j] = "new" => mode'[j] = Missing /\ j \notin settled'
    BY DEF RecoveryInv, Unlocked
  <1>9. \A j \in Invocations : life'[j] = "alive" => Proceeds(j)'
    BY <1>3 DEF Unlocked
  <1> QED
    BY <1>4, <1>5, <1>6, <1>7, <1>8, <1>9 DEF RecoveryInv

\* What the owner's next step takes to what.
LEMMA StepTakes ==
  ASSUME RecoveryInv, NEW i \in Invocations, NEW op, AtStep(i, op)
  PROVE  /\ life[i] = "alive" /\ Head1(i).op = op
         /\ \E l, k, m \in Labels : Stands(i, l) /\ Takes(l, Head1(i), k) /\ Leads(Tail(todo[i]), k, m)
PROOF
  <1>1. life[i] = "alive" /\ Head1(i).op = op /\ todo[i] # <<>>
    BY DEF AtStep
  <1>2. PICK l \in Labels, m \in Labels : Stands(i, l) /\ Leads(todo[i], l, m)
    BY <1>1 DEF RecoveryInv, Proceeds
  <1>3. \E k \in Labels : Takes(l, Head1(i), k) /\ Leads(Tail(todo[i]), k, m)
    BY <1>1, <1>2, LeadsFirst DEF Head1
  <1> QED
    BY <1>1, <1>2, <1>3

LEMMA Advanced ==
  ASSUME RecoveryInv, NEW i \in Invocations, Advance(i), NEW k \in Labels, NEW m \in Labels,
         Leads(Tail(todo[i]), k, m), Stands(i, k)'
  PROVE  todo' = [todo EXCEPT ![i] = todo'[i]] /\ Proceeds(i)'
PROOF
  <1>1. todo'[i] = Tail(todo[i]) /\ todo' = [todo EXCEPT ![i] = todo'[i]]
    BY DEF Advance, RecoveryInv
  <1> QED
    BY <1>1 DEF Proceeds

LEMMA Replaced ==
  ASSUME RecoveryInv, NEW i \in Invocations, NEW t, todo' = [todo EXCEPT ![i] = t],
         t = <<>> \/ \E l, m \in Labels : Leads(t, l, m) /\ Stands(i, l)'
  PROVE  todo' = [todo EXCEPT ![i] = todo'[i]] /\ Proceeds(i)'
PROOF
  <1>1. todo'[i] = t /\ todo' = [todo EXCEPT ![i] = todo'[i]]
    BY DEF RecoveryInv
  <1>2. "open" \in Labels /\ Stands(i, "open")'
    BY DEF Labels, Stands
  <1>3. Leads(<<>>, "open", "open")
    BY <1>2, LeadsNowhere
  <1> QED
    BY <1>1, <1>2, <1>3 DEF Proceeds

\* A step that keeps every label, and its failure if nothing follows it.
LEMMA QuietStep ==
  ASSUME RecoveryInv, NEW i \in Invocations, NEW op, AtStep(i, op), Unlocked, lockFile' = lockFile,
         RecoveryTables', RecoveryStays,
         op \in QuietOps \cup {"settle", "gates", "target", "drop"},
         op = "drop" => Head1(i).from \in Spare,
         settled' \subseteq settled \/ (op = "settle" /\ settled' \subseteq settled \cup {i}),
         \/ Advance(i) /\ (op = "target" => versions.deployed = 1)
         \/ FailStep(i) /\ op # "drop"
  PROVE  RecoveryInv'
PROOF
  <1>1. PICK l \in Labels, k \in Labels, m \in Labels :
          Stands(i, l) /\ Takes(l, Head1(i), k) /\ Leads(Tail(todo[i]), k, m)
    BY StepTakes
  <1>2. life[i] = "alive" /\ Head1(i).op = op
    BY DEF AtStep
  <1>3. /\ op # "target" => l = k
        /\ op = "target" => l = "upgrading" /\ k = "older"
        /\ op = "settle" => l = "active"
        /\ op # "drop" => Head1(i).fail = <<>>
    BY <1>1, <1>2 DEF Takes, QuietOps, Spare, FailedNames
  <1>4. Stands(i, l)'
    BY <1>1, StaysStands
  <1>5. LayoutAgrees' /\ FailedUpgradeIsRecoverable'
    BY StaysSound DEF RecoveryInv
  <1>6. i \in settled' => db'["active"] = authority'
    <2>1. i \in settled => db["active"] = authority
      BY <1>2 DEF RecoveryInv, ReconciledIsAuthority
    <2>2. op = "settle" => db["active"] = authority
      BY <1>1, <1>3 DEF Stands
    <2> QED
      BY <2>1, <2>2 DEF RecoveryStays
  <1>7. todo' = [todo EXCEPT ![i] = todo'[i]] /\ Proceeds(i)'
    <2>1. CASE Advance(i) /\ (op = "target" => versions.deployed = 1)
      <3>1. Stands(i, k)'
        <4>1. CASE op = "target"
          BY <1>3, <1>4, <2>1, <4>1 DEF Stands, RecoveryStays
        <4>2. CASE op # "target"
          BY <1>3, <1>4, <4>2
        <4> QED
          BY <4>1, <4>2
      <3> QED
        BY <2>1, <1>1, <3>1, Advanced
    <2>2. CASE FailStep(i) /\ op # "drop"
      <3>1. todo' = [todo EXCEPT ![i] = <<>>]
        BY <1>3, <2>2 DEF FailStep
      <3> QED
        BY <3>1, Replaced
    <2> QED
      BY <2>1, <2>2
  <1> QED
    BY <1>2, <1>5, <1>6, <1>7, OwnerMoves

LEMMA QuietActions ==
  ASSUME RecoveryInv, NEW i \in Invocations,
         \/ SettleStep(i) \/ CheckStep(i) \/ RestoreStep(i) \/ ClearStep(i) \/ QuiesceStep(i)
         \/ StartStep(i) \/ TargetStep(i)
  PROVE  RecoveryInv'
PROOF
  <1>0. RecoveryTables
    BY TablesAreTyped DEF RecoveryInv
  <1> USE DEF QuietOps
  <1>1. CASE SettleStep(i)
    <2>1. AtStep(i, "settle") /\ Unlocked /\ lockFile' = lockFile /\ Advance(i) /\ settled' \subseteq settled \cup {i}
      BY <1>1 DEF SettleStep
    <2>2. RecoveryTables' /\ RecoveryStays
      BY <1>0, <1>1 DEF SettleStep, RecoveryTables, RecoveryStays, Unlocked
    <2> QED
      BY <2>1, <2>2, QuietStep
  <1>2. CASE CheckStep(i)
    <2>1. AtStep(i, "check") /\ Unlocked /\ lockFile' = lockFile /\ (Advance(i) \/ FailStep(i)) /\ settled' \subseteq settled
      BY <1>2 DEF CheckStep
    <2>2. RecoveryTables' /\ RecoveryStays
      BY <1>0, <1>2 DEF CheckStep, RecoveryTables, RecoveryStays, Unlocked
    <2> QED
      BY <2>1, <2>2, QuietStep
  <1>3. CASE RestoreStep(i)
    <2>1. AtStep(i, "restore") /\ Unlocked /\ lockFile' = lockFile /\ (Advance(i) \/ FailStep(i)) /\ settled' \subseteq settled
      BY <1>3 DEF RestoreStep
    <2>2. /\ db' \in [Databases -> Contents \cup {Missing}]
          /\ db'["active"] = db["active"] /\ db'["safety"] = db["safety"]
      BY <1>0, <1>3, RecoveryNames DEF RestoreStep, RecoveryTables
    <2>3. RecoveryTables' /\ RecoveryStays
      BY <1>0, <1>3, <2>2 DEF RestoreStep, RecoveryTables, RecoveryStays, Unlocked
    <2> QED
      BY <2>1, <2>3, QuietStep
  <1>4. CASE ClearStep(i)
    <2>1. AtStep(i, "clear") /\ Unlocked /\ lockFile' = lockFile /\ Advance(i) /\ settled' \subseteq settled
      BY <1>4 DEF ClearStep
    <2>2. RecoveryTables' /\ RecoveryStays
      BY <1>0, <1>4 DEF ClearStep, RecoveryTables, RecoveryStays, Unlocked, LostJournal
    <2> QED
      BY <2>1, <2>2, QuietStep
  <1>5. CASE QuiesceStep(i)
    <2>1. AtStep(i, "quiesce") /\ Unlocked /\ lockFile' = lockFile /\ (Advance(i) \/ FailStep(i)) /\ settled' \subseteq settled
      BY <1>5 DEF QuiesceStep
    <2>2. RecoveryTables' /\ RecoveryStays
      BY <1>0, <1>5 DEF QuiesceStep, RecoveryTables, RecoveryStays, Unlocked
    <2> QED
      BY <2>1, <2>2, QuietStep
  <1>6. CASE StartStep(i)
    <2>1. AtStep(i, "start") /\ Unlocked /\ lockFile' = lockFile /\ (Advance(i) \/ FailStep(i)) /\ settled' \subseteq settled
      BY <1>6 DEF StartStep
    <2>2. RecoveryTables' /\ RecoveryStays
      BY <1>0, <1>6 DEF StartStep, RecoveryTables, RecoveryStays, Unlocked
    <2> QED
      BY <2>1, <2>2, QuietStep
  <1>7. CASE TargetStep(i)
    <2>1. /\ AtStep(i, "target") /\ Unlocked /\ lockFile' = lockFile /\ settled' \subseteq settled
          /\ (Advance(i) /\ versions.deployed = 1) \/ FailStep(i)
      <3>1. versions.deployed \in 1..2
        BY <1>0 DEF RecoveryTables
      <3> QED
        BY <1>7, <3>1 DEF TargetStep
    <2>2. RecoveryTables' /\ RecoveryStays
      BY <1>0, <1>7 DEF TargetStep, RecoveryTables, RecoveryStays, Unlocked
    <2> QED
      BY <2>1, <2>2, QuietStep
  <1> QED
    BY <1>1, <1>2, <1>3, <1>4, <1>5, <1>6, <1>7

\* A failed gate rolls back.
LEMMA GatesMoves ==
  ASSUME RecoveryInv, NEW i \in Invocations, GatesStep(i)
  PROVE  RecoveryInv'
PROOF
  <1>0. RecoveryTables
    BY TablesAreTyped DEF RecoveryInv
  <1>1. AtStep(i, "gates") /\ Unlocked /\ lockFile' = lockFile /\ settled' = settled
    BY DEF GatesStep
  <1>2. RecoveryTables' /\ RecoveryStays
    BY <1>0 DEF GatesStep, RecoveryTables, RecoveryStays, Unlocked
  <1>3. CASE Advance(i)
    BY <1>1, <1>2, <1>3, QuietStep
  <1>4. CASE todo' = [todo EXCEPT ![i] = RollbackPostPromotion]
    <2>1. PICK l \in Labels, k \in Labels, m \in Labels :
            Stands(i, l) /\ Takes(l, Head1(i), k) /\ Leads(Tail(todo[i]), k, m)
      BY <1>1, StepTakes
    <2>2. life[i] = "alive" /\ l = "candidate"
      BY <1>1, <2>1 DEF AtStep, Takes, QuietOps
    <2>3. Stands(i, "candidate")' /\ "candidate" \in Labels /\ "active" \in Labels
      BY <1>2, <2>1, <2>2, StaysStands DEF Labels
    <2>4. LayoutAgrees' /\ FailedUpgradeIsRecoverable'
      BY <1>2, StaysSound DEF RecoveryInv
    <2>5. i \in settled' => db'["active"] = authority'
      BY <1>1, <1>2, <2>2 DEF RecoveryInv, ReconciledIsAuthority, RecoveryStays
    <2>6. todo' = [todo EXCEPT ![i] = todo'[i]] /\ Proceeds(i)'
      BY <1>4, <2>3, RollbackLeads, Replaced
    <2> QED
      BY <1>1, <1>2, <2>2, <2>4, <2>5, <2>6, OwnerMoves
  <1> QED
    BY <1>3, <1>4 DEF GatesStep

\* Backup, recreation and the new version number.
LEMMA UpgradeActions ==
  ASSUME RecoveryInv, NEW i \in Invocations, BackupStep(i) \/ UpStep(i) \/ PersistStep(i)
  PROVE  RecoveryInv'
PROOF
  <1>0. RecoveryTables /\ versions \in [deployed : 1..2, running : 1..2] /\ i \in Contents
    BY TablesAreTyped, RecoveryNames DEF RecoveryInv, RecoveryTables
  <1>1. PICK op \in {"backup", "up", "persist"} : AtStep(i, op)
    BY DEF BackupStep, UpStep, PersistStep
  <1>2. PICK l \in Labels, k \in Labels, m \in Labels :
          Stands(i, l) /\ Takes(l, Head1(i), k) /\ Leads(Tail(todo[i]), k, m)
    BY <1>1, StepTakes
  <1>3. /\ life[i] = "alive" /\ Head1(i).op = op /\ Head1(i).fail = <<>>
        /\ op = "backup" => (l = "open" /\ k = "open") \/ (l = "older" /\ k = "backed")
        /\ op = "up" => l = "backed" /\ k = "raised"
        /\ op = "persist" => l = "raised" /\ k = "open"
    BY <1>1, <1>2 DEF AtStep, Takes, QuietOps
  <1>4. /\ Unlocked /\ lockFile' = lockFile /\ settled' = settled
        /\ UNCHANGED <<journal, db, authority>>
        /\ BackupStep(i) => op = "backup"
        /\ UpStep(i) => op = "up"
        /\ PersistStep(i) => op = "persist"
    BY <1>3 DEF BackupStep, UpStep, PersistStep, AtStep
  <1>5. LayoutAgrees' /\ (i \in settled' => db'["active"] = authority')
    BY <1>3, <1>4 DEF RecoveryInv, LayoutAgrees, ReconciledIsAuthority
  <1>6. ASSUME FailStep(i) PROVE todo' = [todo EXCEPT ![i] = todo'[i]] /\ Proceeds(i)'
    <2>1. todo' = [todo EXCEPT ![i] = <<>>]
      BY <1>3, <1>6 DEF FailStep
    <2> QED
      BY <2>1, Replaced
  <1>7. ASSUME Advance(i), Stands(i, k)' PROVE todo' = [todo EXCEPT ![i] = todo'[i]] /\ Proceeds(i)'
    BY <1>2, <1>7, Advanced
  <1>8. CASE BackupStep(i)
    <2>1. RecoveryTables' /\ RecoveryStays
      BY <1>0, <1>8 DEF BackupStep, RecoveryTables, RecoveryStays, Unlocked
    <2>2. FailedUpgradeIsRecoverable'
      BY <2>1, StaysSound DEF RecoveryInv
    <2>3. CASE Advance(i) /\ backups' = backups \cup {[by |-> i, version |-> versions.deployed]}
      <3>1. Stands(i, k)'
        BY <1>2, <1>3, <1>4, <1>8, <2>1, <2>3 DEF Stands, RecoveryStays
      <3> QED
        BY <1>3, <1>4, <1>5, <1>7, <2>1, <2>2, <2>3, <3>1, OwnerMoves
    <2>4. CASE FailStep(i)
      BY <1>3, <1>4, <1>5, <1>6, <2>1, <2>2, <2>4, OwnerMoves
    <2> QED
      BY <1>8, <2>3, <2>4 DEF BackupStep
  <1>9. CASE UpStep(i)
    <2>1. /\ versions' \in {versions, [versions EXCEPT !.running = 2]} /\ UNCHANGED backups
          /\ services' \in {services, "running"}
          /\ (Advance(i) /\ versions' = [versions EXCEPT !.running = 2]) \/ FailStep(i)
      BY <1>9 DEF UpStep
    <2>2. versions' \in [deployed : 1..2, running : 1..2] /\ versions'.deployed = versions.deployed
      BY <1>0, <2>1
    <2>3. RecoveryTables'
      BY <1>0, <1>4, <2>1, <2>2 DEF RecoveryTables
    <2>4. FailedUpgradeIsRecoverable'
      BY <1>2, <1>3, <1>4, <1>9, <2>1, <2>2 DEF Stands, FailedUpgradeIsRecoverable, Unlocked
    <2>5. CASE Advance(i) /\ versions' = [versions EXCEPT !.running = 2]
      <3>1. Stands(i, k)'
        BY <1>0, <1>3, <1>4, <1>9, <2>5 DEF Stands
      <3> QED
        BY <1>3, <1>4, <1>5, <1>7, <2>3, <2>4, <2>5, <3>1, OwnerMoves
    <2>6. CASE FailStep(i)
      BY <1>3, <1>4, <1>5, <1>6, <2>3, <2>4, <2>6, OwnerMoves
    <2> QED
      BY <2>1, <2>5, <2>6
  <1>10. CASE PersistStep(i)
    <2>1. versions' = [versions EXCEPT !.deployed = 2] /\ UNCHANGED <<backups, services>> /\ Advance(i)
      BY <1>10 DEF PersistStep
    <2>2. versions' \in [deployed : 1..2, running : 1..2] /\ versions'.running = 2 /\ versions'.deployed = 2
      BY <1>0, <1>2, <1>3, <1>4, <1>10, <2>1 DEF Stands
    <2>3. RecoveryTables'
      BY <1>0, <1>4, <2>1, <2>2 DEF RecoveryTables
    <2>4. FailedUpgradeIsRecoverable'
      BY <2>2 DEF FailedUpgradeIsRecoverable
    <2>5. Stands(i, k)'
      BY <1>3, <1>4, <1>10 DEF Stands
    <2> QED
      BY <1>3, <1>4, <1>5, <1>7, <2>1, <2>3, <2>4, <2>5, OwnerMoves
  <1> QED
    BY <1>8, <1>9, <1>10

\* The journal is written when the databases are as it says.
LEMMA JournalMoves ==
  ASSUME RecoveryInv, NEW i \in Invocations, JournalStep(i)
  PROVE  RecoveryInv'
PROOF
  <1>0. RecoveryTables
    BY TablesAreTyped DEF RecoveryInv
  <1>1. AtStep(i, "journal") /\ Unlocked /\ lockFile' = lockFile /\ UNCHANGED <<db, services, versions, backups, settled>>
    BY DEF JournalStep
  <1>2. PICK l \in Labels, k \in Labels, m \in Labels :
          Stands(i, l) /\ Takes(l, Head1(i), k) /\ Leads(Tail(todo[i]), k, m)
    BY <1>1, StepTakes
  <1> DEFINE ph == Head1(i).phase
  <1>3. /\ life[i] = "alive" /\ Head1(i).fail = <<>>
        /\ \/ ph \in {"verify-done", "quiescing"} /\ l = "active" /\ k = "active"
           \/ ph = "swap-active-to-safety" /\ l = "active" /\ k = "swapping"
           \/ ph = "swap-verified-to-active" /\ l = "moved" /\ k = "vacant"
           \/ ph = "post-gates" /\ l = "candidate" /\ k = "candidate"
           \/ ph = "complete" /\ l = "candidate" /\ k = "active"
    BY <1>1, <1>2 DEF AtStep, Takes, QuietOps
  <1>4. FailedUpgradeIsRecoverable'
    BY <1>1 DEF RecoveryInv, FailedUpgradeIsRecoverable, Unlocked
  <1>5. CASE FailStep(i) /\ UNCHANGED <<journal, authority>>
    <2>1. todo' = [todo EXCEPT ![i] = <<>>]
      BY <1>3, <1>5 DEF FailStep
    <2>2. todo' = [todo EXCEPT ![i] = todo'[i]] /\ Proceeds(i)'
      BY <2>1, Replaced
    <2>3. RecoveryTables' /\ LayoutAgrees' /\ (i \in settled' => db'["active"] = authority')
      BY <1>0, <1>1, <1>3, <1>5 DEF RecoveryInv, RecoveryTables, LayoutAgrees, ReconciledIsAuthority
    <2> QED
      BY <1>1, <1>3, <1>4, <2>2, <2>3, OwnerMoves
  <1>6. CASE /\ journal' = ph /\ Advance(i)
             /\ authority' = IF ph = "complete" THEN db["active"] ELSE authority
    <2> HIDE DEF ph
    <2>1. ph \in JournalPhases
      BY <1>3 DEF JournalPhases
    <2>2. db["active"] \in Contents \cup {Missing}
      BY <1>0, RecoveryNames DEF RecoveryTables
    <2>3. authority' \in Contents
      BY <1>0, <1>2, <1>3, <1>6, <2>2 DEF RecoveryTables, Stands, Has
    <2>4. RecoveryTables'
      BY <1>0, <1>1, <1>6, <2>1, <2>3 DEF RecoveryTables
    <2>5. LayoutAgrees'
      BY <1>1, <1>2, <1>3, <1>6 DEF RecoveryInv, LayoutAgrees, Stands
    <2>6. Stands(i, k)'
      BY <1>1, <1>2, <1>3, <1>6 DEF Stands, Has, LostJournal
    <2>7. todo' = [todo EXCEPT ![i] = todo'[i]] /\ Proceeds(i)'
      BY <1>2, <1>6, <2>6, Advanced
    <2>8. i \in settled' => db'["active"] = authority'
      BY <1>1, <1>3, <1>6 DEF RecoveryInv, ReconciledIsAuthority
    <2> QED
      BY <1>1, <1>3, <1>4, <2>4, <2>5, <2>7, <2>8, OwnerMoves
  <1> QED
    BY <1>5, <1>6 DEF JournalStep

\* A rename moves the authority only where the journal allows it.
LEMMA RenameMoves ==
  ASSUME RecoveryInv, NEW i \in Invocations, RenameStep(i)
  PROVE  RecoveryInv'
PROOF
  <1>0. RecoveryTables
    BY TablesAreTyped DEF RecoveryInv
  <1> DEFINE s == Head1(i)
  <1>1. AtStep(i, "rename") /\ Unlocked /\ lockFile' = lockFile /\ UNCHANGED <<journal, services, versions, backups, authority>>
    BY DEF RenameStep
  <1>2. PICK l \in Labels, k \in Labels, m \in Labels :
          Stands(i, l) /\ Takes(l, Head1(i), k) /\ Leads(Tail(todo[i]), k, m)
    BY <1>1, StepTakes
  <1>3. /\ life[i] = "alive"
        /\ \/ s.from = "active" /\ s.to = "safety" /\ s.fail = RestartUntouched /\ l = "swapping" /\ k = "moved"
           \/ s.from = "isolated" /\ s.to = "active" /\ s.fail = RollbackSwap /\ l = "vacant" /\ k = "candidate"
           \/ s.from = "active" /\ s.to \in Spare /\ s.fail = <<>> /\ l = "candidate" /\ k = "vacant"
           \/ s.from = "safety" /\ s.to = "active" /\ s.fail = <<>> /\ l \in {"moved", "vacant"} /\ k = "active"
    BY <1>1, <1>2 DEF AtStep, Takes, QuietOps
  <1>4. FailedUpgradeIsRecoverable'
    BY <1>1 DEF RecoveryInv, FailedUpgradeIsRecoverable, Unlocked
  <1>5. CASE FailStep(i) /\ UNCHANGED <<db, settled>>
    <2>1. todo' = [todo EXCEPT ![i] = s.fail]
      BY <1>5 DEF FailStep
    <2>2. RecoveryStays
      BY <1>1, <1>5 DEF RecoveryStays, Unlocked
    <2>3. Stands(i, l)'
      BY <1>2, <2>2, StaysStands
    <2> HIDE DEF s
    <2>4. s.fail = <<>> \/ \E x, y \in Labels : Leads(s.fail, x, y) /\ Stands(i, x)'
      <3>1. "swapping" \in Labels /\ "vacant" \in Labels /\ "active" \in Labels
        BY DEF Labels
      <3> QED
        BY <1>3, <2>3, <3>1, HandlersLead
    <2>5. todo' = [todo EXCEPT ![i] = todo'[i]] /\ Proceeds(i)'
      BY <2>1, <2>4, Replaced
    <2>6. RecoveryTables' /\ LayoutAgrees' /\ (i \in settled' => db'["active"] = authority')
      BY <1>0, <1>1, <1>3, <1>5 DEF RecoveryInv, RecoveryTables, LayoutAgrees, ReconciledIsAuthority
    <2> QED
      BY <1>1, <1>3, <1>4, <1>5, <2>5, <2>6, OwnerMoves
  <1>6. CASE /\ s.to \in Databases /\ Has(s.from) /\ ~Has(s.to)
             /\ db' = [db EXCEPT ![s.to] = db[s.from], ![s.from] = Missing] /\ Advance(i)
             /\ settled' = settled \ {i}
    <2> HIDE DEF s
    <2>1. s.from \in Databases /\ s.from # s.to
      BY <1>3, <1>6 DEF Databases, Spare, FailedNames
    <2>2. db \in [Databases -> Contents \cup {Missing}]
      BY <1>0 DEF RecoveryTables
    <2>3. /\ db' \in [Databases -> Contents \cup {Missing}] /\ db'[s.to] = db[s.from] /\ db'[s.from] = Missing
          /\ \A n \in Databases : n # s.to /\ n # s.from => db'[n] = db[n]
      BY <1>6, <2>1, <2>2
    <2>4. RecoveryTables'
      BY <1>0, <1>1, <1>6, <2>3 DEF RecoveryTables
    <2>5. authority # Missing /\ "active" \in Databases /\ "safety" \in Databases
      BY <1>0, RecoveryNames DEF RecoveryTables
    <2>6. LayoutAgrees' /\ Stands(i, k)'
      <3>1. CASE s.from = "active" /\ s.to = "safety" /\ l = "swapping" /\ k = "moved"
        BY <1>1, <1>2, <1>6, <2>3, <2>5, <3>1 DEF LayoutAgrees, Stands, Has, LostJournal
      <3>2. CASE s.from = "isolated" /\ s.to = "active" /\ l = "vacant" /\ k = "candidate"
        BY <1>1, <1>2, <1>6, <2>3, <2>5, <3>2 DEF LayoutAgrees, Stands, Has, LostJournal
      <3>3. CASE s.from = "active" /\ s.to \in Spare /\ l = "candidate" /\ k = "vacant"
        BY <1>1, <1>2, <1>6, <2>3, <2>5, <3>3 DEF LayoutAgrees, Stands, Has, LostJournal, Spare, FailedNames
      <3>4. CASE s.from = "safety" /\ s.to = "active" /\ l \in {"moved", "vacant"} /\ k = "active"
        BY <1>1, <1>2, <1>6, <2>3, <2>5, <3>4 DEF LayoutAgrees, Stands, Has, LostJournal
      <3> QED
        BY <1>3, <3>1, <3>2, <3>3, <3>4
    <2>7. todo' = [todo EXCEPT ![i] = todo'[i]] /\ Proceeds(i)'
      BY <1>2, <1>6, <2>6, Advanced
    <2> QED
      BY <1>1, <1>3, <1>4, <1>6, <2>4, <2>6, <2>7, OwnerMoves
  <1> QED
    BY <1>5, <1>6 DEF RenameStep

\* The old safety copy is dropped while the authority is active.
LEMMA DropMoves ==
  ASSUME RecoveryInv, NEW i \in Invocations, DropStep(i)
  PROVE  RecoveryInv'
PROOF
  <1>0. RecoveryTables
    BY TablesAreTyped DEF RecoveryInv
  <1> DEFINE s == Head1(i)
  <1>1. /\ AtStep(i, "drop") /\ Unlocked /\ lockFile' = lockFile
        /\ UNCHANGED <<journal, services, versions, backups, authority, settled>>
        /\ db' = db \/ db' = [n \in Databases |-> IF n = s.from THEN Missing ELSE db[n]]
    BY DEF DropStep
  <1>2. PICK l \in Labels, k \in Labels, m \in Labels :
          Stands(i, l) /\ Takes(l, Head1(i), k) /\ Leads(Tail(todo[i]), k, m)
    BY <1>1, StepTakes
  <1>3. /\ life[i] = "alive"
        /\ \/ s.from \in Spare /\ s.fail = <<>> /\ k = l
           \/ s.from = "safety" /\ s.fail = RestartUntouched /\ l = "swapping" /\ k = "swapping"
    BY <1>1, <1>2 DEF AtStep, Takes, QuietOps
  <1>4. /\ db' \in [Databases -> Contents \cup {Missing}]
        /\ db'["active"] = db["active"] /\ (s.from \in Spare => db'["safety"] = db["safety"])
    <2> HIDE DEF s
    <2>1. db \in [Databases -> Contents \cup {Missing}] /\ "active" \in Databases /\ "safety" \in Databases
      BY <1>0, RecoveryNames DEF RecoveryTables
    <2> QED
      BY <1>1, <1>3, <2>1 DEF Spare, FailedNames
  <1>5. RecoveryTables'
    BY <1>0, <1>1, <1>4 DEF RecoveryTables
  <1>6. CASE s.from \in Spare /\ s.fail = <<>>
    <2>1. Advance(i)
      BY <1>6 DEF DropStep
    <2>2. RecoveryStays
      BY <1>1, <1>4, <1>6 DEF RecoveryStays, Unlocked
    <2> QED
      BY <1>1, <1>5, <1>6, <2>1, <2>2, QuietStep
  <1>7. CASE s.from = "safety" /\ s.fail = RestartUntouched /\ l = "swapping" /\ k = "swapping"
    <2>1. Advance(i) \/ FailStep(i)
      BY DEF DropStep
    <2>2. Stands(i, "swapping")' /\ LayoutAgrees'
      BY <1>1, <1>2, <1>4, <1>7 DEF Stands, LayoutAgrees, LostJournal
    <2>3. FailedUpgradeIsRecoverable'
      BY <1>1 DEF RecoveryInv, FailedUpgradeIsRecoverable, Unlocked
    <2>4. i \in settled' => db'["active"] = authority'
      BY <1>1, <1>3, <1>4 DEF RecoveryInv, ReconciledIsAuthority
    <2>5. CASE Advance(i)
      <3>1. todo' = [todo EXCEPT ![i] = todo'[i]] /\ Proceeds(i)'
        BY <1>2, <1>7, <2>2, <2>5, Advanced
      <3> QED
        BY <1>1, <1>3, <1>5, <2>2, <2>3, <2>4, <3>1, OwnerMoves
    <2>6. CASE FailStep(i)
      <3>1. todo' = [todo EXCEPT ![i] = RestartUntouched]
        BY <1>7, <2>6 DEF FailStep
      <3>2. todo' = [todo EXCEPT ![i] = todo'[i]] /\ Proceeds(i)'
        BY <1>2, <1>7, <2>2, <3>1, HandlersLead, Replaced
      <3> QED
        BY <1>1, <1>3, <1>5, <2>2, <2>3, <2>4, <3>2, OwnerMoves
    <2> QED
      BY <2>1, <2>5, <2>6
  <1> QED
    BY <1>3, <1>6, <1>7

\* What three of the labels stand for.
LEMMA StandsSays ==
  ASSUME NEW i, NEW l
  PROVE  /\ l = "active" => (Stands(i, l) <=> db["active"] = authority)
         /\ l = "moved" =>
              (Stands(i, l) <=> /\ ~Has("active") /\ db["safety"] = authority
                                /\ journal \notin {"complete", "verify-done", "quiescing"})
         /\ l = "candidate" =>
              (Stands(i, l) <=> /\ Has("active") /\ db["safety"] = authority
                                /\ journal \in LostJournal \cup {"swap-verified-to-active", "post-gates"})
         /\ l = "upgrading" => (Stands(i, l) <=> mode[i] = "upgrade")
         /\ l = "open" => Stands(i, l)
PROOF
  BY DEF Stands

\* What the decision table decides is what the databases call for.
LEMMA PlanFits ==
  ASSUME RecoveryTables, LayoutAgrees, NEW i \in Invocations
  PROVE  LET plan == PlanReconciliation IN
         /\ plan \in {"blocked", "proceed", "proceed-restart", "restart-original",
                      "restore-original", "rollback-candidate"}
         /\ plan \in {"proceed", "proceed-restart", "restart-original"} => Stands(i, "active")
         /\ plan = "restore-original" => Stands(i, "moved")
         /\ plan = "rollback-candidate" => Stands(i, "candidate")
PROOF
  <1>1. authority # Missing /\ journal \in JournalPhases \cup LostJournal
    BY RecoveryNames DEF RecoveryTables
  <1>2. CASE JournalState = "valid" /\ journal = "complete"
    <2>1. PlanReconciliation = "proceed"
      BY <1>2 DEF PlanReconciliation
    <2> QED
      BY <1>2, <2>1, StandsSays DEF LayoutAgrees
  <1>3. CASE JournalState # "valid" /\ Has("safety") /\ Has("active")
    <2>1. PlanReconciliation = "blocked"
      BY <1>3 DEF PlanReconciliation
    <2> QED
      BY <2>1
  <1>4. JournalState = "valid" <=> journal \in JournalPhases
    BY <1>1 DEF JournalState, LostJournal
  <1>5. CASE ~(JournalState = "valid" /\ journal = "complete")
             /\ ~(JournalState # "valid" /\ Has("safety") /\ Has("active"))
    <2> DEFINE swapped == journal \in {"swap-verified-to-active", "post-gates"}
               early == journal \in {"quiescing", "swap-active-to-safety"}
    <2>1. CASE Has("safety") /\ ~Has("active")
      <3>1. PlanReconciliation = "restore-original"
        BY <1>5, <2>1 DEF PlanReconciliation
      <3> QED
        BY <1>1, <2>1, <3>1, StandsSays DEF LayoutAgrees, Has
    <2>2. CASE ~Has("safety") /\ ~Has("active")
      <3>1. PlanReconciliation = "blocked"
        BY <1>5, <2>2 DEF PlanReconciliation
      <3> QED
        BY <3>1
    <2>3. CASE Has("active") /\ early
      <3>1. PlanReconciliation = "restart-original"
        BY <1>5, <2>3 DEF PlanReconciliation
      <3> QED
        BY <1>1, <2>3, <3>1, StandsSays DEF LayoutAgrees, Has
    <2>4. CASE Has("active") /\ swapped /\ Has("safety")
      <3>1. PlanReconciliation = "rollback-candidate"
        BY <1>5, <2>4 DEF PlanReconciliation
      <3> QED
        BY <1>1, <2>4, <3>1, StandsSays DEF LayoutAgrees, Has, LostJournal
    <2>5. CASE Has("active") /\ swapped /\ ~Has("safety")
      <3>1. PlanReconciliation = "proceed-restart"
        BY <1>5, <2>5 DEF PlanReconciliation
      <3> QED
        BY <1>1, <2>5, <3>1, StandsSays DEF LayoutAgrees, Has
    <2>6. CASE Has("active") /\ ~swapped /\ ~early
      <3>1. PlanReconciliation = "proceed"
        BY <1>5, <2>6 DEF PlanReconciliation
      <3>2. db["active"] = authority
        BY <1>1, <1>4, <1>5, <2>6 DEF LayoutAgrees, Has, JournalPhases
      <3> QED
        BY <3>1, <3>2, StandsSays
    <2> QED
      BY <2>1, <2>2, <2>3, <2>4, <2>5, <2>6
  <1> QED
    BY <1>2, <1>3, <1>5

\* The reconciliation leads to the active authority ...
LEMMA ReconciliationLeads ==
  /\ \A plan \in {"proceed", "proceed-restart", "restart-original"} : Leads(Reconciliation(plan), "active", "active")
  /\ Leads(Reconciliation("restore-original"), "moved", "active")
  /\ Leads(Reconciliation("rollback-candidate"), "candidate", "active")
PROOF
  <1>1. "active" \in Labels /\ "candidate" \in Labels
    BY DEF Labels
  <1>2. Leads(<<Clear>>, "active", "active") /\ Leads(<<RestartAndProve>>, "active", "active") /\ Leads(<<>>, "active", "active")
    BY <1>1, QuietSteps, LeadsNowhere
  <1>3. Leads(Reconciliation("proceed"), "active", "active")
    BY <1>2 DEF Reconciliation
  <1>4. Leads(Reconciliation("proceed-restart"), "active", "active")
    <2>1. Leads(<<Clear>> \o <<RestartAndProve>>, "active", "active")
      BY <1>2, LeadsOn
    <2>2. <<Clear>> \o <<RestartAndProve>> = <<Clear, RestartAndProve>>
      BY Joined2
    <2> QED
      BY <2>1, <2>2 DEF Reconciliation
  <1>5. Leads(Reconciliation("restart-original"), "active", "active")
    <2>1. Leads(IF Has("safety") THEN <<>> ELSE <<Clear>>, "active", "active")
      BY <1>2
    <2>2. Reconciliation("restart-original") = <<RestartAndProve>> \o (IF Has("safety") THEN <<>> ELSE <<Clear>>)
      BY DEF Reconciliation
    <2> QED
      BY <1>2, <2>1, <2>2, LeadsOn
  <1>6. Leads(Reconciliation("restore-original"), "moved", "active")
    BY HandlersLead DEF Reconciliation
  <1>7. Leads(Reconciliation("rollback-candidate"), "candidate", "active")
    <2> DEFINE n == FreeFailedPromotionName
               back == <<Rename("safety", "active", <<>>), RestartAndProve, Clear>>
    <2>1. Leads(<<Rename("active", n, <<>>)>> \o back, "candidate", "active")
      BY FreeNameIsSpare, AsideLeads, HandlersLead, LeadsOn
    <2>2. <<Rename("active", n, <<>>)>> \o back = <<Rename("active", n, <<>>), Rename("safety", "active", <<>>), RestartAndProve, Clear>>
      BY Joined4
    <2>3. Reconciliation("rollback-candidate") = <<Rename("active", n, <<>>), Rename("safety", "active", <<>>), RestartAndProve, Clear>>
      BY DEF Reconciliation
    <2> QED
      BY <2>1, <2>2, <2>3
  <1> QED
    BY <1>3, <1>4, <1>5, <1>6, <1>7

\* ... from which the command starts.
LEMMA CommandLeads ==
  ASSUME NEW i \in Invocations, NEW plan
  PROVE  Leads(<<Step0("settle")>>, "active", "active") /\ Leads(Command(i, plan), "active", "active")
PROOF
  <1>1. "active" \in Labels /\ "settle" \in PlainOps /\ "failed" \in Spare
    BY DEF Labels, PlainOps, Spare, FailedNames
  <1>2. Takes("active", Step0("settle"), "active")
    BY DEF Takes, Step0
  <1>3. Leads(<<Step0("settle")>>, "active", "active")
    BY <1>1, <1>2, OtherStep
  <1>4. Leads(<<>>, "active", "active") /\ Leads(<<Drop("failed", <<>>)>>, "active", "active")
    BY <1>1, LeadsNowhere, QuietSteps
  <1> DEFINE first == IF JournalState = "valid" THEN <<Drop("failed", <<>>)>> ELSE <<>>
             then == IF mode[i] = "drill" THEN Drill ELSE Promote
  <1>5. Leads(first, "active", "active") /\ Leads(then, "active", "active")
    BY <1>4, DrillLeads, PromoteLeads
  <1>6. Command(i, plan) = <<>> \/ Command(i, plan) = first \o then
    BY DEF Command
  <1> HIDE DEF first, then
  <1>7. Leads(first \o then, "active", "active")
    BY <1>5, LeadsOn
  <1> QED
    BY <1>3, <1>4, <1>6, <1>7

\* A command begins with what its reconciliation plans.
LEMMA BeginMoves ==
  ASSUME RecoveryInv, NEW i \in Invocations, WriteOwner(i) \/ ReconcileStep(i)
  PROVE  RecoveryInv'
PROOF
  <1>0. RecoveryTables /\ LayoutAgrees
    BY TablesAreTyped DEF RecoveryInv
  <1>1. /\ life[i] = "alive" /\ Unlocked /\ UNCHANGED <<journal, db, services, versions, backups, authority, settled>>
        /\ lockFile' = lockFile \/ lockFile' = [lockFile EXCEPT !.record = TRUE]
    BY DEF WriteOwner, ReconcileStep, AtStep
  <1>2. RecoveryTables' /\ RecoveryStays
    BY <1>0, <1>1 DEF RecoveryTables, RecoveryStays, Unlocked
  <1>3. LayoutAgrees' /\ FailedUpgradeIsRecoverable'
    BY <1>2, StaysSound DEF RecoveryInv
  <1>4. i \in settled' => db'["active"] = authority'
    BY <1>1 DEF RecoveryInv, ReconciledIsAuthority
  <1>5. ASSUME NEW t, todo' = [todo EXCEPT ![i] = t],
               t = <<>> \/ \E l, m \in Labels : Leads(t, l, m) /\ Stands(i, l)
        PROVE  RecoveryInv'
    <2>1. t = <<>> \/ \E l, m \in Labels : Leads(t, l, m) /\ Stands(i, l)'
      BY <1>2, <1>5, StaysStands
    <2>2. todo' = [todo EXCEPT ![i] = todo'[i]] /\ Proceeds(i)'
      BY <1>5, <2>1, Replaced
    <2> QED
      BY <1>1, <1>2, <1>3, <1>4, <2>2, OwnerMoves
  <1>6. CASE WriteOwner(i)
    <2>1. {"open", "upgrading"} \subseteq Labels /\ {"backup", "reconcile"} \subseteq PlainOps /\ Stands(i, "open")
      BY StandsSays DEF Labels, PlainOps
    <2>2. Takes("open", Step0("backup"), "open")
      BY DEF Takes, Step0
    <2>7. Takes("open", Step0("reconcile"), "open")
      BY DEF Takes, Step0
    <2>3. Leads(<<Step0("backup")>>, "open", "open") /\ Leads(<<Step0("reconcile")>>, "open", "open")
      BY <2>1, <2>2, <2>7, OtherStep
    <2>4. CASE mode[i] = "upgrade"
      <3>1. todo' = [todo EXCEPT ![i] = Upgrade]
        BY <1>6, <2>4 DEF WriteOwner
      <3>2. Stands(i, "upgrading")
        BY <2>4, StandsSays
      <3> QED
        BY <1>5, <2>1, <3>1, <3>2, UpgradeLeads
    <2>5. CASE mode[i] = "backup"
      <3>1. todo' = [todo EXCEPT ![i] = <<Step0("backup")>>]
        BY <1>6, <2>5 DEF WriteOwner
      <3> QED
        BY <1>5, <2>1, <2>3, <3>1
    <2>6. CASE mode[i] # "upgrade" /\ mode[i] # "backup"
      <3>1. todo' = [todo EXCEPT ![i] = <<Step0("reconcile")>>]
        BY <1>6, <2>6 DEF WriteOwner
      <3> QED
        BY <1>5, <2>1, <2>3, <3>1
    <2> QED
      BY <2>4, <2>5, <2>6
  <1>7. CASE ReconcileStep(i)
    <2>1. PICK plan \in {PlanReconciliation, "blocked"} :
            todo' = [todo EXCEPT ![i] =
              IF plan = "blocked" THEN <<>>
              ELSE Reconciliation(plan) \o <<Step0("settle")>> \o Command(i, plan)]
      BY <1>7 DEF ReconcileStep
    <2>2. CASE plan = "blocked"
      <3>1. todo' = [todo EXCEPT ![i] = <<>>]
        BY <2>1, <2>2
      <3> QED
        BY <1>5, <3>1
    <2>3. CASE plan # "blocked"
      <3>1. todo' = [todo EXCEPT ![i] = Reconciliation(plan) \o <<Step0("settle")>> \o Command(i, plan)]
        BY <2>1, <2>3
      <3>2. plan = PlanReconciliation
        BY <2>1, <2>3
      <3>3. PICK l \in {"active", "moved", "candidate"} : Stands(i, l) /\ Leads(Reconciliation(plan), l, "active")
        BY <1>0, <2>3, <3>2, PlanFits, ReconciliationLeads
      <3>4. Leads(Reconciliation(plan) \o <<Step0("settle")>>, l, "active")
        BY <3>3, CommandLeads, LeadsOn
      <3>5. Leads(Reconciliation(plan) \o <<Step0("settle")>> \o Command(i, plan), l, "active")
        BY <3>4, CommandLeads, LeadsOn
      <3>6. l \in Labels /\ "active" \in Labels
        BY DEF Labels
      <3> QED
        BY <1>5, <3>1, <3>3, <3>5, <3>6
    <2> QED
      BY <2>2, <2>3
  <1> QED
    BY <1>6, <1>7

\* A damaged journal says nothing.
LEMMA DamageMoves ==
  ASSUME RecoveryInv, JournalDamage
  PROVE  RecoveryInv'
PROOF
  <1>0. RecoveryTables /\ RecoveryTypeOK
    BY TablesAreTyped DEF RecoveryInv
  <1>1. RecoveryTables' /\ RecoveryStays /\ LostJournal = {"malformed", "absent"}
    BY <1>0 DEF JournalDamage, RecoveryTables, RecoveryStays, LostJournal
  <1>2. LayoutAgrees' /\ FailedUpgradeIsRecoverable'
    BY <1>1, StaysSound DEF RecoveryInv
  <1>3. \A j \in Invocations : life[j] = "alive" => Proceeds(j)'
    BY <1>1, StaysStands DEF RecoveryInv, Proceeds, JournalDamage
  <1>4. RecoveryTypeOK'
    <2>1. lostCopies' \in 0 .. LossLimit
      BY <1>0, RecoveryAssumption DEF JournalDamage, RecoveryTypeOK
    <2> QED
      BY <1>0, <2>1 DEF JournalDamage, RecoveryTypeOK
  <1> QED
    BY <1>2, <1>3, <1>4 DEF RecoveryInv, JournalDamage, LockIsHeld, ReconciledIsAuthority

\* Acquisition, release, kills and clears.
LEMMA OutsideMoves ==
  ASSUME \A c, d \in Clears : c = d, RecoveryInv, NEW i \in Invocations,
         \/ FinishInvocation(i) \/ Kill(i) \/ Denied(i) \/ \E m \in Modes : CreateLock(i, m)
         \/ \E c \in Clears : ReadStaleOwner(c) \/ RemoveStaleLock(c)
  PROVE  RecoveryInv'
PROOF
  <1>0. RecoveryTables /\ RecoveryTypeOK /\ life \in [Invocations -> {"new", "alive", "dead", "done"}]
    BY TablesAreTyped DEF RecoveryInv, RecoveryTypeOK
  <1>2. ASSUME UNCHANGED <<mode, journal, db, services, versions, backups, authority, settled>>,
               todo' = [j \in Invocations |-> todo'[j]],
               \A j \in Invocations : life'[j] = "alive" => life[j] = "alive" /\ todo'[j] = todo[j],
               \A j \in Invocations : life'[j] = "new" => life[j] = "new",
               RecoveryTypeOK', LockIsHeld'
        PROVE  RecoveryInv'
    <2>1. RecoveryStays
      BY <1>2 DEF RecoveryStays
    <2>2. LayoutAgrees' /\ FailedUpgradeIsRecoverable'
      BY <2>1, StaysSound DEF RecoveryInv
    <2>3. \A j \in Invocations : life'[j] = "alive" => Proceeds(j)'
      BY <1>2, <2>1, StaysStands DEF RecoveryInv, Proceeds
    <2>4. ReconciledIsAuthority'
      BY <1>0, <1>2 DEF RecoveryInv, ReconciledIsAuthority, RecoveryTables
    <2> QED
      BY <1>2, <2>2, <2>3, <2>4 DEF RecoveryInv
  <1>3. CASE FinishInvocation(i)
    <2>1. LockIsHeld'
      BY <1>0, <1>3, OnlyOwner DEF FinishInvocation, LockIsHeld, RecoveryInv
    <2>2. RecoveryTypeOK'
      BY <1>0, <1>3 DEF FinishInvocation, RecoveryTypeOK
    <2> QED
      BY <1>0, <1>2, <1>3, <2>1, <2>2 DEF FinishInvocation, RecoveryInv
  <1>4. CASE Kill(i)
    <2>1. LockIsHeld'
      BY <1>0, <1>4 DEF Kill, LockIsHeld, RecoveryInv
    <2>2. RecoveryTypeOK'
      <3>1. crashes' \in 0 .. RecoveryCrashLimit
        BY <1>0, <1>4, RecoveryAssumption DEF Kill, RecoveryTypeOK
      <3>2. \A j \in Invocations : life'[j] # "alive" => todo'[j] = <<>>
        BY <1>0, <1>4 DEF Kill, RecoveryTypeOK, RecoveryInv
      <3> QED
        BY <1>0, <1>4, <3>1, <3>2 DEF Kill, RecoveryTypeOK
    <2>3. /\ todo' = [j \in Invocations |-> todo'[j]]
          /\ \A j \in Invocations : life'[j] = "alive" => life[j] = "alive" /\ todo'[j] = todo[j]
          /\ \A j \in Invocations : life'[j] = "new" => life[j] = "new"
      BY <1>0, <1>4 DEF Kill, RecoveryInv
    <2> QED
      BY <1>2, <1>4, <2>1, <2>2, <2>3 DEF Kill
  <1>5. CASE Denied(i)
    <2>0. life[i] = "new"
      BY <1>5 DEF Denied, GivenNext
    <2>1. LockIsHeld'
      BY <1>0, <1>5, <2>0 DEF Denied, LockIsHeld, RecoveryInv
    <2>2. RecoveryTypeOK'
      BY <1>0, <1>5, <2>0 DEF Denied, RecoveryTypeOK
    <2> QED
      BY <1>0, <1>2, <1>5, <2>1, <2>2 DEF Denied, RecoveryInv
  <1>6. ASSUME NEW c \in Clears, ReadStaleOwner(c) PROVE RecoveryInv'
    <2>1. PICK j \in Invocations : clearing[c] = Missing /\ ProvablyDead(j) /\ clearing' = [clearing EXCEPT ![c] = j]
      BY <1>6 DEF ReadStaleOwner
    <2>2. UNCHANGED <<lockFile, life, mode, todo, journal, db, services, versions, backups, authority, settled, crashes, lostCopies>>
      BY <1>6 DEF ReadStaleOwner
    <2>3. clearing \in [Clears -> Invocations \cup {Missing}]
      BY <1>0 DEF RecoveryTypeOK
    <2>4. LockIsHeld'
      BY <2>1, <2>2, <2>3 DEF LockIsHeld, RecoveryInv, ProvablyDead
    <2>5. RecoveryTypeOK'
      BY <1>0, <2>1, <2>2, <2>3 DEF RecoveryTypeOK
    <2> QED
      BY <1>2, <2>2, <2>4, <2>5 DEF RecoveryInv
  <1>7. ASSUME NEW c \in Clears, RemoveStaleLock(c) PROVE RecoveryInv'
    <2>1. clearing \in [Clears -> Invocations \cup {Missing}]
      BY <1>0 DEF RecoveryTypeOK
    <2>2. lockFile.pid = clearing[c] /\ clearing[c] \in Invocations /\ life[clearing[c]] = "dead"
      BY <1>7, <2>1 DEF RemoveStaleLock, RecoveryInv, LockIsHeld
    <2>3. \A j \in Invocations : life[j] # "alive"
      BY <2>2 DEF RecoveryInv, LockIsHeld
    <2>4. \A d \in Clears : clearing'[d] = Missing
      BY <1>7, <2>1 DEF RemoveStaleLock
    <2>5. LockIsHeld'
      BY <1>7, <2>3, <2>4 DEF LockIsHeld, RemoveStaleLock
    <2>6. RecoveryTypeOK'
      BY <1>0, <1>7, <2>1 DEF RecoveryTypeOK, RemoveStaleLock
    <2> QED
      BY <1>2, <1>7, <2>3, <2>5, <2>6 DEF RecoveryInv, RemoveStaleLock
  <1>8. ASSUME NEW md \in Modes, CreateLock(i, md) PROVE RecoveryInv'
    <2>0. /\ life[i] = "new" /\ lockFile = NoLock /\ lockFile' = [pid |-> i, record |-> FALSE]
          /\ life' = [life EXCEPT ![i] = "alive"] /\ mode' = [mode EXCEPT ![i] = md]
          /\ todo' = [todo EXCEPT ![i] = <<Step0("own")>>]
          /\ UNCHANGED <<clearing, journal, db, services, versions, backups, authority, settled, crashes, lostCopies>>
      BY <1>8 DEF CreateLock, GivenNext
    <2>1. \A j \in Invocations : life[j] # "alive"
      BY <2>0 DEF RecoveryInv, LockIsHeld
    <2>2. \A d \in Clears : clearing[d] = Missing
      BY <2>0 DEF RecoveryInv, LockIsHeld
    <2>3. mode[i] = Missing /\ i \notin settled /\ mode \in [Invocations -> Modes \cup {Missing}]
      BY <1>0, <2>0 DEF RecoveryInv, RecoveryTypeOK
    <2>4. RecoveryTypeOK'
      BY <1>0, <2>0, <2>3 DEF RecoveryTypeOK, RecoveryInv
    <2>5. LockIsHeld'
      <3>1. lockFile' # NoLock /\ lockFile'.pid = i
        BY <2>0, RecoveryNames DEF NoLock
      <3> QED
        BY <1>0, <2>0, <2>1, <2>2, <3>1 DEF LockIsHeld
    <2>6. LayoutAgrees'
      BY <2>0 DEF RecoveryInv, LayoutAgrees
    <2>7. FailedUpgradeIsRecoverable'
      BY <2>0, <2>3 DEF RecoveryInv, FailedUpgradeIsRecoverable, Missing
    <2>8. ReconciledIsAuthority'
      BY <1>0, <2>0, <2>1, <2>3 DEF ReconciledIsAuthority, RecoveryTables
    <2>9. Proceeds(i)' /\ todo' = [j \in Invocations |-> todo'[j]]
      <3>0. Stands(i, "open")'
        BY DEF Stands
      <3>1. "open" \in Labels /\ "own" \in PlainOps /\ Takes("open", Step0("own"), "open")
        BY DEF Labels, PlainOps, Takes, Step0
      <3>2. Leads(<<Step0("own")>>, "open", "open")
        BY <3>1, OtherStep
      <3>3. todo'[i] = <<Step0("own")>> /\ todo' = [j \in Invocations |-> todo'[j]]
        BY <2>0 DEF RecoveryInv
      <3> QED
        BY <3>0, <3>1, <3>2, <3>3 DEF Proceeds
    <2>10. /\ \A j \in Invocations : life'[j] = "new" => mode'[j] = Missing /\ j \notin settled'
           /\ \A j \in Invocations : life'[j] = "alive" => j = i
      BY <1>0, <2>0, <2>1, <2>3 DEF RecoveryInv
    <2> QED
      BY <2>4, <2>5, <2>6, <2>7, <2>8, <2>9, <2>10 DEF RecoveryInv
  <1> QED
    BY <1>3, <1>4, <1>5, <1>6, <1>7, <1>8

LEMMA RecoveryStep ==
  ASSUME \A c, d \in Clears : c = d, RecoveryInv, [RecoveryNext]_recoveryVars
  PROVE  RecoveryInv'
PROOF
  <1>1. CASE UNCHANGED recoveryVars
    <2>1. RecoveryStays
      BY <1>1 DEF recoveryVars, RecoveryStays
    <2>2. LayoutAgrees' /\ FailedUpgradeIsRecoverable'
      BY <2>1, StaysSound DEF RecoveryInv
    <2>3. \A j \in Invocations : life[j] = "alive" => Proceeds(j)'
      BY <1>1, <2>1, StaysStands DEF RecoveryInv, Proceeds, recoveryVars
    <2>4. RecoveryTypeOK' /\ LockIsHeld' /\ ReconciledIsAuthority'
      BY <1>1 DEF recoveryVars, RecoveryInv, RecoveryTypeOK, LockIsHeld, ReconciledIsAuthority
    <2> QED
      BY <1>1, <2>2, <2>3, <2>4 DEF recoveryVars, RecoveryInv
  <1>2. ASSUME NEW i \in Invocations, Run(i) PROVE RecoveryInv'
    BY <1>2, BeginMoves, QuietActions, JournalMoves, RenameMoves, DropMoves, GatesMoves, UpgradeActions, OutsideMoves DEF Run
  <1>3. ASSUME NEW i \in Invocations, Kill(i) \/ Denied(i) \/ \E m \in Modes : CreateLock(i, m) PROVE RecoveryInv'
    BY <1>3, OutsideMoves
  <1>4. ASSUME NEW c \in Clears, ReadStaleOwner(c) \/ RemoveStaleLock(c) PROVE RecoveryInv'
    <2>1. clearing \in [Clears -> Invocations \cup {Missing}]
      BY DEF RecoveryInv, RecoveryTypeOK
    <2>2. \E i \in Invocations : TRUE
      BY <1>4, <2>1 DEF ReadStaleOwner, RemoveStaleLock
    <2> QED
      BY <1>4, <2>2, OutsideMoves
  <1>5. CASE JournalDamage
    BY <1>5, DamageMoves
  <1> QED
    BY <1>1, <1>2, <1>3, <1>4, <1>5 DEF RecoveryNext

\* With one recovery of a stale lock under way at a time (two of them can remove a
\* lock taken in between), maintenance keeps its promises for any command lines,
\* kills and losses of the journal: no authoritative database is lost, after a
\* reconciliation that was not blocked the active database is the authority,
\* maintenance has one owner, and a failed upgrade has a backup to restore.
THEOREM RecoveryInvariance ==
  ASSUME \A c, d \in Clears : c = d
  PROVE  RecoverySpec => [](/\ AuthorityIsKept /\ ReconciledIsAuthority /\ OneMaintenanceOwner
                            /\ FailedUpgradeIsRecoverable /\ RecoveryTypeOK)
PROOF
  <1>1. RecoveryInit => RecoveryInv
    BY RecoveryInitHolds
  <1>2. RecoveryInv /\ [RecoveryNext]_recoveryVars => RecoveryInv'
    BY RecoveryStep
  <1>3. RecoveryInv => /\ AuthorityIsKept /\ ReconciledIsAuthority /\ OneMaintenanceOwner
                       /\ FailedUpgradeIsRecoverable /\ RecoveryTypeOK
    <2> SUFFICES ASSUME RecoveryInv
                 PROVE  AuthorityIsKept /\ OneMaintenanceOwner /\ ReconciledIsAuthority
                        /\ FailedUpgradeIsRecoverable /\ RecoveryTypeOK
      OBVIOUS
    <2>1. AuthorityIsKept
      BY DEF RecoveryInv, LayoutAgrees, AuthorityIsKept, Databases
    <2>2. OneMaintenanceOwner
      <3> DEFINE S == {i \in Invocations : life[i] = "alive"}
      <3>1. \A x, y \in S : x = y
        BY DEF RecoveryInv, LockIsHeld
      <3>2. Cardinality(S) \in 0 .. 1
        BY <3>1, AtMostOne
      <3> QED
        BY <3>2 DEF OneMaintenanceOwner
    <2> QED
      BY <2>1, <2>2 DEF RecoveryInv
  <1> QED
    BY <1>1, <1>2, <1>3, PTL DEF RecoverySpec

(***************************************************************************)
(* The edge: a component out of focus rests, so the composition implements *)
(* each of its parts.                                                      *)
(***************************************************************************)

\* Every behaviour of the composition is one of each worker, host, maintenance
\* script and launcher: what is proved of a part holds of the whole.
THEOREM EdgeImplementsParts ==
  EdgeSpec => WorkerSpec /\ PySpec /\ HostSpec /\ RustSpec /\ RecoverySpec /\ LauncherSpec
PROOF
  <1>1. EdgeInit => WorkerInit /\ PyInit /\ HostInit /\ RustInit /\ RecoveryInit /\ LauncherInit
    BY DEF EdgeInit
  <1>2. [EdgeNext]_edgeVars =>
          /\ [WorkerNext]_workerVars /\ [PyNext]_pyVars /\ [HostNext]_hostVars
          /\ [RustNext]_rustVars /\ [RecoveryNext]_recoveryVars /\ [LauncherNext]_launcherVars
    <2> SUFFICES ASSUME [EdgeNext]_edgeVars
                 PROVE  /\ [WorkerNext]_workerVars /\ [PyNext]_pyVars /\ [HostNext]_hostVars
                        /\ [RustNext]_rustVars /\ [RecoveryNext]_recoveryVars /\ [LauncherNext]_launcherVars
      OBVIOUS
    <2>1. CASE UNCHANGED edgeVars
      BY <2>1 DEF edgeVars
    <2>2. CASE OthersRest /\ focus = "worker" /\ WorkerNext
      BY <2>2 DEF OthersRest, Frozen
    <2>3. CASE OthersRest /\ focus = "python" /\ PyNext
      BY <2>3 DEF OthersRest, Frozen
    <2>4. CASE OthersRest /\ focus = "host" /\ HostNext
      BY <2>4 DEF OthersRest, Frozen
    <2>5. CASE OthersRest /\ focus = "rust" /\ RustNext
      BY <2>5 DEF OthersRest, Frozen
    <2>6. CASE OthersRest /\ focus = "recovery" /\ RecoveryNext
      BY <2>6 DEF OthersRest, Frozen
    <2>7. CASE OthersRest /\ focus = "launcher" /\ LauncherNext
      BY <2>7 DEF OthersRest, Frozen
    <2> QED
      BY <2>1, <2>2, <2>3, <2>4, <2>5, <2>6, <2>7 DEF EdgeNext
  <1> QED
    BY <1>1, <1>2, PTL DEF EdgeSpec, WorkerSpec, PySpec, HostSpec, RustSpec, RecoverySpec, LauncherSpec

\* With configured agents (under the dynamic bridge runs of one agent share the
\* state file), each host accounts for every process group for any set of runs and
\* crashes: a settled run's group is gone, a live one is in the state file, and the
\* sweep at the next start terminates what a crash left behind.
THEOREM GroupsAreAccountedHolds ==
  ASSUME ~Bridge
  PROVE  EdgeSpec => []GroupsAreAccounted
PROOF
  <1>1. EdgeSpec => HostSpec /\ RustSpec
    BY EdgeImplementsParts, PTL
  <1>2. HostSpec => [](SettledGroupIsGone /\ RecordedOrphanIsTerminated /\ ActiveRunIsRecorded /\ HostTypeOK)
    BY HostInvariance
  <1>3. CASE ~RsBridge
    <2>1. RustSpec => [](RustGroupsFitSlots /\ RustRecordIsCurrent /\ RustOrphanIsTerminated /\ RustTypeOK)
      BY <1>3, RustInvariance
    <2> QED
      BY <1>1, <1>2, <2>1, PTL DEF GroupsAreAccounted
  <1>4. CASE RsBridge
    <2>1. RustGroupsFitSlots /\ RustRecordIsCurrent /\ RustOrphanIsTerminated
      BY <1>4 DEF RustGroupsFitSlots, RustRecordIsCurrent, RustOrphanIsTerminated
    <2> QED
      BY <1>1, <1>2, <2>1, PTL DEF GroupsAreAccounted
  <1> QED
    BY <1>3, <1>4

\* In the composition too the Python worker implements the worker contract.
THEOREM PyKeepsContractHolds == EdgeSpec => PyKeepsContract
PROOF
  BY EdgeImplementsParts, PyRefinement, PTL

\* Both workers keep their bounds in the composition: capacity, one run of an
\* invocation at a time, quiet after stop(), and results before terminal events.
THEOREM WorkersKeepBoundsHolds == EdgeSpec => []WorkersKeepBounds
PROOF
  <1>1. EdgeSpec => WorkerSpec /\ PySpec
    BY EdgeImplementsParts, PTL
  <1>2. WorkerSpec => [](WorkerCapacityHolds /\ OneLiveRunPerInvocation /\ StoppedIsQuiet /\ WorkerTypeOK)
    BY WorkerInvariance
  <1>3. PySpec => [](TerminalEventFollowsResult /\ PyTypeOK)
    BY PyRefinement, PTL
  <1> QED
    BY <1>1, <1>2, <1>3, PTL DEF WorkersKeepBounds

\* The stack can be brought back: with one recovery of a stale lock at a time, no
\* kill of a maintenance command loses or replaces the authoritative database,
\* and the launcher reports failures and takes down what it started.
THEOREM StackIsRecoverableHolds ==
  ASSUME \A c, d \in Clears : c = d
  PROVE  EdgeSpec => []StackIsRecoverable
PROOF
  <1>1. EdgeSpec => RecoverySpec /\ LauncherSpec
    BY EdgeImplementsParts, PTL
  <1>2. RecoverySpec => [](/\ AuthorityIsKept /\ ReconciledIsAuthority /\ OneMaintenanceOwner
                           /\ FailedUpgradeIsRecoverable /\ RecoveryTypeOK)
    BY RecoveryInvariance
  <1>3. LauncherSpec => [](CleanExitMeansNoFailure /\ InfrastructureIsTornDown)
    BY LauncherInvariance
  <1> QED
    BY <1>1, <1>2, <1>3, PTL DEF StackIsRecoverable

\* Workers, hosts with configured agents, state files, databases and the
\* maintenance lock keep their types in the composition.
THEOREM EdgeTypeOKHolds ==
  ASSUME ~Bridge, ~RsBridge, \A c, d \in Clears : c = d
  PROVE  EdgeSpec => []EdgeTypeOK
PROOF
  <1>1. EdgeSpec => WorkerSpec /\ PySpec /\ HostSpec /\ RustSpec /\ RecoverySpec
    BY EdgeImplementsParts, PTL
  <1>2. WorkerSpec => [](WorkerCapacityHolds /\ OneLiveRunPerInvocation /\ StoppedIsQuiet /\ WorkerTypeOK)
    BY WorkerInvariance
  <1>3. PySpec => [](TerminalEventFollowsResult /\ PyTypeOK)
    BY PyRefinement, PTL
  <1>4. HostSpec => [](SettledGroupIsGone /\ RecordedOrphanIsTerminated /\ ActiveRunIsRecorded /\ HostTypeOK)
    BY HostInvariance
  <1>5. RustSpec => [](RustGroupsFitSlots /\ RustRecordIsCurrent /\ RustOrphanIsTerminated /\ RustTypeOK)
    BY RustInvariance
  <1>6. RecoverySpec => [](/\ AuthorityIsKept /\ ReconciledIsAuthority /\ OneMaintenanceOwner
                           /\ FailedUpgradeIsRecoverable /\ RecoveryTypeOK)
    BY RecoveryInvariance
  <1> QED
    BY <1>1, <1>2, <1>3, <1>4, <1>5, <1>6, PTL DEF EdgeTypeOK

=============================================================================
