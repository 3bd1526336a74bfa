--------------------------- MODULE WorkbenchProofs ---------------------------
(***************************************************************************)
(* What holds of the operator's side for every set of commands, leases,    *)
(* deliveries, calls and processes: a lease agrees with its worktree and   *)
(* its run, a release is reported only when it happened, and the console   *)
(* says so only then.  Each component has its inductive invariant; the     *)
(* workbench, whose components rest out of focus, implements each of them. *)
(***************************************************************************)
EXTENDS MCWorkbench, FiniteSetTheorems, WellFoundedInduction, TLAPS

(***************************************************************************)
(* Leases                                                                  *)
(***************************************************************************)

Served == {"scan allocating", "scan ready", "scan in use", "runs", "sweep", "lookup",
           "adopt", "insert", "wait", "git", "added", "not added", "commit"}
Stages == Served \cup {"idle", "continue", "dead", "executed", "duplicate", "conflict", "refused"}
Allocating == {"git", "added", "not added"}
AnyLease == CHOOSE l \in Leases : TRUE
Payloads == LeaseStates \cup {NoPayload, "dirty source", "clean source"}
DeliveryRows == [pc : Stages, cmd : Leases \cup {AnyLease}, payload : Payloads, rows : SUBSET (Scans \X Leases)]

LeaseTables ==
  /\ LeaseTypeOK
  /\ aged \in [Leases -> BOOLEAN]
  /\ delivery \in [Deliveries -> DeliveryRows]

\* What a worktree, its allocation and its transfer have to do with each
\* other: a continuation holds the worktree only of a transferred lease, and
\* alone.
HeldHasTree ==
  \A l \in Leases : IsIsolated(l) /\ lease[l].state \in {"READY", "IN_USE", "PRESERVED"} => tree[RootOf(l)] # "none"

LeaseFacts ==
  /\ HeldHasTree
  /\ \A s \in Isolated : lease[s].state = "NONE" => tree[s] = "none" /\ ~aged[s]
  /\ \A c \in Continues : lease[c].state \in {"NONE", "IN_USE", "PRESERVED", "REMOVED"}
  /\ \A c \in Continues : Source[c] \in Isolated /\ lease[c].state # "NONE" =>
       /\ lease[Source[c]].state = "TRANSFERRED"
       /\ \A b \in Continues : Source[b] = Source[c] /\ lease[b].state # "NONE" => b = c
  /\ LiveRunKeepsItsLease
  /\ LeaseTellsTheTruth

\* What a delivery has observed still holds when it writes.
StillSo(r) ==
  /\ r[1] = "scan allocating" => lease[r[2]].state = "ALLOCATING"
  /\ r[1] = "scan ready" => lease[r[2]].state = "READY"
  /\ r[1] = "scan in use" => lease[r[2]].state = "IN_USE"

HandOK(v) ==
  /\ v.pc \in Served => v.cmd \in Starts
  /\ v.pc = "continue" => v.cmd \in Continues
  /\ v.pc \in Allocating \cup {"adopt"} => v.cmd \in Isolated /\ lease[v.cmd].state = "ALLOCATING"
  /\ v.pc = "git" => tree[v.cmd] = "none" /\ ~aged[v.cmd]
  /\ v.pc \in {"added", "adopt"} => tree[v.cmd] # "none"
  /\ v.pc \in {"runs", "sweep"} => \A r \in v.rows : StillSo(r)
  /\ v.pc = "runs" => \A r \in v.rows : r[1] = "scan in use"
  /\ v.pc = "sweep" => \A r \in v.rows : r[1] = "scan in use" => teamRun[r[2]] = "ended"

OneHand == \A d, e \in Deliveries : delivery[d].pc \in InHand /\ delivery[e].pc \in InHand => d = e

OneAllocator ==
  \A d, e \in Deliveries :
    delivery[d].pc \in Allocating /\ delivery[e].pc \in Allocating /\ delivery[d].cmd = delivery[e].cmd => d = e

LeaseInv ==
  /\ LeaseTables /\ LeaseFacts
  /\ \A d \in Deliveries : HandOK(delivery[d])
  /\ OneHand /\ OneAllocator

-----------------------------------------------------------------------------
\* Starts and continuations are distinct, and a start is its own root.
LEMMA Roots ==
  /\ \A s \in Starts : RootOf(s) = s /\ s \in Leases /\ (IsIsolated(s) <=> s \in Isolated)
  /\ \A c \in Continues : RootOf(c) = Source[c] /\ c \in Leases /\ Source[c] \in Starts
                          /\ (IsIsolated(c) <=> Source[c] \in Isolated)
  /\ \A l \in Leases : RootOf(l) \in Starts /\ (l \in Starts \/ l \in Continues)
  /\ Isolated \subseteq Starts /\ Starts \subseteq Leases
PROOF
  BY WorkspaceAssumption DEF RootOf, IsIsolated, Leases

LEMMA LeaseInitially == LeaseInit => LeaseInv
PROOF
  <1> SUFFICES ASSUME LeaseInit PROVE LeaseInv
    OBVIOUS
  <1>1. LeaseTables
    BY DEF LeaseInit, LeaseTables, LeaseTypeOK, LeaseStates, DeliveryRows, Stages, AnyLease, Payloads
  <1>2. LeaseFacts
    BY Roots DEF LeaseInit, LeaseFacts, LiveRunKeepsItsLease, LeaseTellsTheTruth, HeldHasTree
  <1>3. \A d \in Deliveries : delivery[d].pc = "idle"
    BY DEF LeaseInit
  <1>4. \A d \in Deliveries : HandOK(delivery[d])
    BY <1>3 DEF HandOK, Served, Allocating
  <1>5. OneHand /\ OneAllocator
    BY <1>3 DEF OneHand, OneAllocator, InHand, Allocating
  <1> QED
    BY <1>1, <1>2, <1>4, <1>5 DEF LeaseInv

\* A delivery that is not about to write depends only on what its command
\* is, and at git on its own row.
LEMMA OtherHands ==
  ASSUME NEW d \in Deliveries, HandOK(delivery[d]), delivery[d].pc \notin InHand, delivery'[d] = delivery[d],
         delivery[d].pc = "git" => /\ lease'[delivery[d].cmd].state = "ALLOCATING"
                                   /\ tree'[delivery[d].cmd] = "none" /\ ~aged'[delivery[d].cmd]
  PROVE  HandOK(delivery[d])'
PROOF
  BY DEF HandOK, InHand, Allocating

\* Only delivery d moves, to a stage and with a record it may have.
Moves(d) ==
  /\ delivery' \in [Deliveries -> DeliveryRows]
  /\ \A e \in Deliveries \ {d} : delivery'[e] = delivery[e]

\* Nobody but d writes what it has observed, unless d does not either.
AloneInHand(d) ==
  /\ delivery'[d].pc \in InHand => \A e \in Deliveries \ {d} : delivery[e].pc \notin InHand
  /\ delivery'[d].pc \in Allocating => \A e \in Deliveries \ {d} :
       delivery[e].pc \in Allocating => delivery[e].cmd # delivery'[d].cmd

\* A step of one delivery keeps the invariant when the tables keep theirs and
\* nobody else's observation is disturbed.
LEMMA OneDelivery ==
  ASSUME LeaseInv, NEW d \in Deliveries, Moves(d), AloneInHand(d),
         LeaseTypeOK', aged' \in [Leases -> BOOLEAN], LeaseFacts', HandOK(delivery[d])',
         \A e \in Deliveries \ {d} : HandOK(delivery[e])'
  PROVE  LeaseInv'
PROOF
  <1>2. \A e \in Deliveries : HandOK(delivery[e])'
    <2> SUFFICES ASSUME NEW e \in Deliveries PROVE HandOK(delivery[e])'
      OBVIOUS
    <2>1. CASE e = d
      BY <2>1 DEF HandOK, StillSo
    <2>2. CASE e # d
      BY <2>2
    <2> QED
      BY <2>1, <2>2
  <1>3. OneHand'
    BY DEF LeaseInv, OneHand, Moves, AloneInHand
  <1>4. OneAllocator'
    BY DEF LeaseInv, OneAllocator, Moves, AloneInHand
  <1> QED
    BY <1>2, <1>3, <1>4 DEF LeaseInv, LeaseTables, Moves

\* A step that touches no table but the delivery's own record.
LEMMA DeliveryOnly ==
  ASSUME LeaseInv, NEW d \in Deliveries, Moves(d), AloneInHand(d),
         UNCHANGED <<lease, tree, aged, teamRun>>, HandOK(delivery[d])'
  PROVE  LeaseInv'
PROOF
  <1>1. LeaseTypeOK' /\ aged' \in [Leases -> BOOLEAN]
    BY DEF LeaseInv, LeaseTables, LeaseTypeOK
  <1>2. LeaseFacts'
    BY DEF LeaseInv, LeaseFacts, LiveRunKeepsItsLease, LeaseTellsTheTruth, HeldHasTree
  <1>3. \A e \in Deliveries \ {d} : HandOK(delivery[e])'
    <2> SUFFICES ASSUME NEW e \in Deliveries \ {d} PROVE HandOK(delivery[e])'
      OBVIOUS
    <2>1. delivery'[e] = delivery[e] /\ HandOK(delivery[e])
      BY DEF LeaseInv, Moves
    <2>2. \A r \in delivery[e].rows : StillSo(r) => StillSo(r)'
      BY DEF StillSo
    <2> QED
      BY <2>1, <2>2 DEF HandOK
  <1> QED
    BY <1>1, <1>2, <1>3, OneDelivery

\* The stage of a delivery changes and nothing else of it.
LEMMA GotoMoves ==
  ASSUME LeaseInv, NEW d \in Deliveries, NEW pc \in Stages, Goto(d, pc)
  PROVE  /\ Moves(d)
         /\ delivery'[d].pc = pc /\ delivery'[d].cmd = delivery[d].cmd
         /\ delivery'[d].rows = delivery[d].rows /\ delivery'[d].payload = delivery[d].payload
PROOF
  <1>1. delivery \in [Deliveries -> DeliveryRows]
    BY DEF LeaseInv, LeaseTables
  <1>2. [delivery[d] EXCEPT !.pc = pc] \in DeliveryRows
    BY <1>1 DEF DeliveryRows
  <1> QED
    BY <1>1, <1>2 DEF Goto, Moves, DeliveryRows

\* A delivery that goes where nothing is in hand and nothing was observed.
LEMMA GotoKeeps ==
  ASSUME LeaseInv, NEW d \in Deliveries, UNCHANGED <<lease, tree, aged, teamRun>>,
         NEW pc \in {"lookup", "insert", "wait", "commit", "scan allocating", "scan ready", "scan in use",
                     "dead", "executed", "duplicate", "conflict", "refused"},
         pc \in Served => delivery[d].pc \in Served, Goto(d, pc)
  PROVE  LeaseInv'
PROOF
  <1>1. pc \in Stages
    BY DEF Stages, Served
  <1>2. /\ Moves(d) /\ delivery'[d].pc = pc /\ delivery'[d].cmd = delivery[d].cmd
    BY <1>1, GotoMoves
  <1>3. AloneInHand(d)
    BY <1>2 DEF AloneInHand, InHand, Allocating
  <1>4. HandOK(delivery[d])'
    BY <1>2 DEF LeaseInv, HandOK, Allocating, Served
  <1> QED
    BY <1>2, <1>3, <1>4, DeliveryOnly

-----------------------------------------------------------------------------
\* The sweep reads a list: what is in it is so until the sweep has written.
LEMMA ReadListKeeps ==
  ASSUME LeaseInv, NEW d \in Deliveries, ReadList(d), \A e \in Deliveries : delivery[e].pc \notin InHand
  PROVE  LeaseInv'
PROOF
  <1>0. PICK list \in Scans : list = delivery[d].pc
    BY DEF ReadList
  <1> DEFINE rows == ListOf(list)
             next == IF rows = {} THEN AfterScan(list) ELSE IF list = "scan in use" THEN "runs" ELSE "sweep"
  <1>1. delivery[d] \in DeliveryRows /\ delivery \in [Deliveries -> DeliveryRows]
    BY DEF LeaseInv, LeaseTables
  <1>2. rows \subseteq Leases
    BY <1>1 DEF ListOf, Scans
  <1>3. {<<list, l>> : l \in rows} \in SUBSET (Scans \X Leases)
    BY <1>1, <1>2
  <1>4. next \in Stages
    BY <1>1 DEF AfterScan, Scans, Stages, Served
  <1>5. delivery' = [delivery EXCEPT ![d].rows = {<<list, l>> : l \in rows}, ![d].pc = next]
    BY <1>0 DEF ReadList
  <1> HIDE DEF rows, next
  <1>6. /\ delivery'[d].pc = next /\ delivery'[d].cmd = delivery[d].cmd
        /\ delivery'[d].rows = {<<list, l>> : l \in rows}
        /\ delivery'[d] \in DeliveryRows
    BY <1>1, <1>3, <1>4, <1>5 DEF DeliveryRows
  <1>7. Moves(d)
    BY <1>1, <1>5, <1>6 DEF Moves
  <1>8. AloneInHand(d)
    BY <1>1, <1>6 DEF AloneInHand, next, AfterScan, Scans, Allocating, InHand
  <1>9. delivery[d].cmd \in Starts /\ list \in Served
    BY <1>0 DEF LeaseInv, HandOK, Scans, Served
  <1>10. UNCHANGED <<lease, tree, aged, teamRun>>
    BY DEF ReadList
  <1>11. \A r \in delivery'[d].rows : StillSo(r)' /\ r[1] = list
    <2> SUFFICES ASSUME NEW l \in rows PROVE StillSo(<<list, l>>)'
      BY <1>6
    <2>1. CASE list = "scan allocating"
      BY <1>10, <2>1 DEF rows, ListOf, StillSo
    <2>2. CASE list = "scan ready"
      BY <1>10, <2>2 DEF rows, ListOf, StillSo
    <2>3. CASE list = "scan in use"
      BY <1>10, <2>3 DEF rows, ListOf, StillSo
    <2> QED
      BY <1>1, <2>1, <2>2, <2>3 DEF Scans
  <1>12. /\ next \in {"lookup", "scan ready", "scan in use", "runs", "sweep"}
         /\ next = "runs" => list = "scan in use"
         /\ next = "sweep" => list # "scan in use"
    BY <1>1 DEF next, AfterScan, Scans
  <1>13. HandOK(delivery[d])'
    BY <1>6, <1>9, <1>11, <1>12 DEF HandOK, Allocating, Served
  <1> QED
    BY <1>7, <1>8, <1>10, <1>13, DeliveryOnly

\* Then it reads the runs of the leases in use: an ended run stays ended.
LEMMA ReadRunsKeeps ==
  ASSUME LeaseInv, NEW d \in Deliveries, ReadRuns(d)
  PROVE  LeaseInv'
PROOF
  <1> DEFINE rows == {r \in delivery[d].rows : teamRun[r[2]] = "ended"}
             next == IF rows = {} THEN "lookup" ELSE "sweep"
  <1>1. /\ delivery[d] \in DeliveryRows /\ delivery \in [Deliveries -> DeliveryRows]
        /\ delivery[d].pc = "runs" /\ HandOK(delivery[d])
    BY DEF LeaseInv, LeaseTables, ReadRuns, At
  <1>2. rows \in SUBSET (Scans \X Leases) /\ next \in Stages
    BY <1>1 DEF DeliveryRows, Stages, Served
  <1>3. delivery' = [delivery EXCEPT ![d].rows = rows, ![d].pc = next]
        /\ UNCHANGED <<lease, tree, aged, teamRun>>
    BY DEF ReadRuns
  <1>4. \A r \in rows : r \in delivery[d].rows /\ teamRun[r[2]] = "ended"
    OBVIOUS
  <1>5. next \in {"lookup", "sweep"}
    OBVIOUS
  <1> HIDE DEF rows, next
  <1>6. /\ delivery'[d].pc = next /\ delivery'[d].cmd = delivery[d].cmd /\ delivery'[d].rows = rows
        /\ delivery'[d] \in DeliveryRows
    BY <1>1, <1>2, <1>3 DEF DeliveryRows
  <1>7. Moves(d)
    BY <1>1, <1>3, <1>6 DEF Moves
  <1>8. AloneInHand(d)
    BY <1>1, <1>5, <1>6 DEF AloneInHand, LeaseInv, OneHand, InHand, Allocating
  <1>9. \A r \in rows : StillSo(r)'
    BY <1>1, <1>3, <1>4 DEF HandOK, StillSo
  <1>10. HandOK(delivery[d])'
    BY <1>1, <1>3, <1>4, <1>5, <1>6, <1>9 DEF HandOK, Served, Allocating
  <1> QED
    BY <1>3, <1>7, <1>8, <1>10, DeliveryOnly

\* A repeated delivery finds what its key allocated.
LEMMA LookupKeeps ==
  ASSUME LeaseInv, NEW d \in Deliveries, LookupDelivery(d), \A e \in Deliveries : delivery[e].pc \notin InHand
  PROVE  LeaseInv'
PROOF
  <1>1. /\ delivery[d].pc = "lookup" /\ delivery[d].cmd \in Starts /\ UNCHANGED <<lease, tree, aged, teamRun>>
        /\ delivery[d].pc \in Served
    BY DEF LookupDelivery, At, LeaseInv, HandOK, Served
  <1>2. \/ Goto(d, "commit") \/ Goto(d, "insert")
        \/ /\ Goto(d, "adopt") /\ lease[delivery[d].cmd].state = "ALLOCATING"
           /\ Registered(delivery[d].cmd)
    BY DEF LookupDelivery
  <1>3. CASE Goto(d, "commit") \/ Goto(d, "insert")
    BY <1>1, <1>3, GotoKeeps
  <1>4. CASE Goto(d, "adopt") /\ lease[delivery[d].cmd].state = "ALLOCATING" /\ Registered(delivery[d].cmd)
    <2>1. "adopt" \in Stages
      BY DEF Stages, Served
    <2>2. Moves(d) /\ delivery'[d].pc = "adopt" /\ delivery'[d].cmd = delivery[d].cmd
      BY <1>4, <2>1, GotoMoves
    <2>3. AloneInHand(d)
      BY <2>2 DEF AloneInHand, Allocating
    <2>4. delivery[d].cmd \in Isolated /\ tree[delivery[d].cmd] # "none"
      BY <1>1, <1>4, Roots DEF Registered
    <2>5. HandOK(delivery[d])'
      BY <1>1, <1>4, <2>2, <2>4 DEF HandOK, Served, Allocating
    <2> QED
      BY <1>1, <2>2, <2>3, <2>5, DeliveryOnly
  <1> QED
    BY <1>2, <1>3, <1>4

\* The loser of the insert waits and touches nothing.
LEMMA AwaitKeeps ==
  ASSUME LeaseInv, NEW d \in Deliveries, AwaitAllocation(d)
  PROVE  LeaseInv'
PROOF
  <1>1. delivery[d].pc \in Served /\ UNCHANGED <<lease, tree, aged, teamRun>>
    BY DEF AwaitAllocation, At, Served
  <1>2. Goto(d, "commit") \/ Goto(d, "refused")
    BY DEF AwaitAllocation
  <1> QED
    BY <1>1, <1>2, GotoKeeps

\* A process that dies leaves its rows as they are.
LEMMA CrashKeeps ==
  ASSUME LeaseInv, NEW d \in Deliveries, CrashDelivery(d)
  PROVE  LeaseInv'
PROOF
  BY GotoKeeps DEF CrashDelivery, Served

\* A command is taken in.
LEMMA DeliverKeeps ==
  ASSUME LeaseInv, NEW d \in Deliveries,
         \/ \E s \in Starts : DeliverStart(d, s)
         \/ \E c \in Continues : DeliverContinue(d, c)
  PROVE  LeaseInv'
PROOF
  <1>1. delivery \in [Deliveries -> DeliveryRows] /\ delivery[d] \in DeliveryRows
    BY DEF LeaseInv, LeaseTables
  <1>2. ASSUME NEW s \in Starts, DeliverStart(d, s)
        PROVE  LeaseInv'
    <2> DEFINE pay == IF source THEN "dirty source" ELSE "clean source"
               next == IF source /\ s \in Isolated THEN "refused" ELSE "scan allocating"
    <2>1. pay \in Payloads /\ next \in Stages /\ next \in {"refused", "scan allocating"} /\ s \in Leases
      BY Roots DEF Payloads, Stages, Served
    <2>2. delivery' = [delivery EXCEPT ![d].cmd = s, ![d].payload = pay, ![d].pc = next]
          /\ UNCHANGED <<lease, tree, aged, teamRun>>
      BY <1>2 DEF DeliverStart
    <2> HIDE DEF pay, next
    <2>3. /\ delivery'[d].pc = next /\ delivery'[d].cmd = s /\ delivery'[d] \in DeliveryRows
      BY <1>1, <2>1, <2>2 DEF DeliveryRows
    <2>4. Moves(d)
      BY <1>1, <2>2, <2>3 DEF Moves
    <2>5. AloneInHand(d)
      BY <2>1, <2>3 DEF AloneInHand, InHand, Allocating
    <2>6. HandOK(delivery[d])'
      BY <2>1, <2>3 DEF HandOK, Served, Allocating
    <2> QED
      BY <2>2, <2>4, <2>5, <2>6, DeliveryOnly
  <1>3. ASSUME NEW c \in Continues, DeliverContinue(d, c)
        PROVE  LeaseInv'
    <2> DEFINE pay == lease[Source[c]].state
               next == IF teamRun[Source[c]] = "ended" THEN "continue" ELSE "refused"
    <2>1. pay \in Payloads /\ next \in Stages /\ next \in {"refused", "continue"} /\ c \in Leases
      BY Roots DEF Payloads, Stages, LeaseInv, LeaseTables, LeaseTypeOK
    <2>2. delivery' = [delivery EXCEPT ![d].cmd = c, ![d].payload = pay, ![d].pc = next]
          /\ UNCHANGED <<lease, tree, aged, teamRun>>
      BY <1>3 DEF DeliverContinue
    <2> HIDE DEF pay, next
    <2>3. /\ delivery'[d].pc = next /\ delivery'[d].cmd = c /\ delivery'[d] \in DeliveryRows
      BY <1>1, <2>1, <2>2 DEF DeliveryRows
    <2>4. Moves(d)
      BY <1>1, <2>2, <2>3 DEF Moves
    <2>5. AloneInHand(d)
      BY <2>1, <2>3 DEF AloneInHand, InHand, Allocating
    <2>6. HandOK(delivery[d])'
      BY <2>1, <2>3 DEF HandOK, Served, Allocating
    <2> QED
      BY <2>2, <2>4, <2>5, <2>6, DeliveryOnly
  <1> QED
    BY <1>2, <1>3

-----------------------------------------------------------------------------
LeaseRows == [state : LeaseStates, bound : BOOLEAN, code : BOOLEAN]

\* One lease is written and says the truth about its worktree and its run.
LEMMA OneLease ==
  ASSUME LeaseInv, NEW l \in Leases, lease' \in [Leases -> LeaseRows],
         \A m \in Leases \ {l} : lease'[m] = lease[m],
         lease'[l].bound = lease[l].bound,
         UNCHANGED <<tree, aged, teamRun>>,
         lease[l].state # "TRANSFERRED",
         lease'[l].state \notin {"NONE", "REMOVED"},
         l \in Continues => lease[l].state # "NONE" /\ lease'[l].state \in {"IN_USE", "PRESERVED"},
         lease'[l].state \in {"READY", "IN_USE", "PRESERVED"} /\ IsIsolated(l) => tree[RootOf(l)] # "none",
         teamRun[l] = "live" => lease'[l].state = "IN_USE"
  PROVE  LeaseFacts' /\ LeaseTypeOK'
PROOF
  <1>1. LeaseTypeOK'
    BY DEF LeaseInv, LeaseTables, LeaseTypeOK, LeaseRows
  <1>2. \A s \in Isolated : lease'[s].state = "NONE" => tree'[s] = "none" /\ ~aged'[s]
    BY Roots DEF LeaseInv, LeaseFacts
  <1>3. \A c \in Continues : lease'[c].state \in {"NONE", "IN_USE", "PRESERVED", "REMOVED"}
    BY Roots DEF LeaseInv, LeaseFacts
  <1>4. \A c \in Continues : lease'[c].state # "NONE" => lease[c].state # "NONE"
    BY Roots
  <1>5. \A c \in Continues : Source[c] \in Isolated /\ lease'[c].state # "NONE" =>
          /\ lease'[Source[c]].state = "TRANSFERRED"
          /\ \A b \in Continues : Source[b] = Source[c] /\ lease'[b].state # "NONE" => b = c
    BY <1>4, Roots DEF LeaseInv, LeaseFacts
  <1>6. LiveRunKeepsItsLease'
    BY DEF LeaseInv, LeaseFacts, LiveRunKeepsItsLease
  <1>7. LeaseTellsTheTruth' /\ HeldHasTree'
    BY DEF LeaseInv, LeaseFacts, LeaseTellsTheTruth, HeldHasTree
  <1> QED
    BY <1>1, <1>2, <1>3, <1>5, <1>6, <1>7 DEF LeaseFacts

\* The stage of a writing delivery changes; everyone else rests.
LEMMA WritingAlone ==
  ASSUME LeaseInv, NEW d \in Deliveries, delivery[d].pc \in InHand
  PROVE  \A e \in Deliveries \ {d} : delivery[e].pc \notin InHand
PROOF
  BY DEF LeaseInv, OneHand

\* The unguarded write of the sweep is true when nobody came between.
LEMMA SweepRowKeeps ==
  ASSUME LeaseInv, NEW d \in Deliveries, SweepRow(d)
  PROVE  LeaseInv'
PROOF
  <1>1. PICK r \in delivery[d].rows :
          /\ lease' = [lease EXCEPT
                ![r[2]].state = SweptState(r[1], r[2]),
                ![r[2]].code = @ \/ SweptState(r[1], r[2]) = "FAILED"]
          /\ delivery' = [delivery EXCEPT
                ![d].rows = @ \ {r},
                ![d].pc = IF delivery[d].rows = {r} THEN AfterScan(r[1]) ELSE @]
    BY DEF SweepRow
  <1>2. /\ delivery \in [Deliveries -> DeliveryRows] /\ delivery[d] \in DeliveryRows /\ delivery[d].pc = "sweep"
        /\ HandOK(delivery[d]) /\ UNCHANGED <<tree, aged, teamRun>> /\ lease \in [Leases -> LeaseRows]
    BY DEF LeaseInv, LeaseTables, LeaseTypeOK, SweepRow, At, LeaseRows
  <1>3. PICK list \in Scans, l \in Leases : r = <<list, l>>
    BY <1>2 DEF DeliveryRows
  <1>4. /\ list = "scan allocating" => lease[l].state = "ALLOCATING"
        /\ list = "scan ready" => lease[l].state = "READY"
        /\ list = "scan in use" => lease[l].state = "IN_USE" /\ teamRun[l] = "ended"
    BY <1>1, <1>2, <1>3 DEF HandOK, StillSo
  <1> DEFINE new == SweptState(list, l)
  <1>5. /\ new = lease[l].state \/ new \in {"READY", "FAILED", "PRESERVED"}
        /\ new = "PRESERVED" /\ new # lease[l].state => list = "scan in use"
        /\ new \in {"READY", "FAILED"} /\ new # lease[l].state => list \in {"scan allocating", "scan ready"}
        /\ new = "READY" /\ new # lease[l].state => Registered(l)
        /\ list = "scan allocating" /\ ~Registered(l) /\ ~aged[l] => new = lease[l].state
        /\ list = "scan in use" => new = "PRESERVED"
    BY DEF SweptState, Scans
  <1> HIDE DEF new
  <1>6. new \in LeaseStates
    BY <1>2, <1>5 DEF LeaseRows, LeaseStates
  <1>7. /\ lease' \in [Leases -> LeaseRows] /\ \A m \in Leases \ {l} : lease'[m] = lease[m]
        /\ lease'[l].state = new /\ lease'[l].bound = lease[l].bound
    <2>1. lease' = [lease EXCEPT ![l].state = new, ![l].code = @ \/ new = "FAILED"]
      BY <1>1, <1>3 DEF new
    <2> QED
      BY <1>2, <1>6, <2>1 DEF LeaseRows
  <1>8. lease[l].state \in {"ALLOCATING", "READY", "IN_USE"}
    BY <1>4 DEF Scans
  <1>9. /\ l \in Continues => lease[l].state = "IN_USE"
        /\ teamRun[l] = "live" => lease[l].state = "IN_USE" /\ list # "scan in use"
    BY <1>4, <1>8 DEF LeaseInv, LeaseFacts, LiveRunKeepsItsLease
  <1>10. lease[l].state = "IN_USE" => list = "scan in use"
    BY <1>4 DEF Scans
  <1>11. LeaseFacts' /\ LeaseTypeOK'
    <2>1. lease'[l].state \in {"READY", "IN_USE", "PRESERVED"} /\ IsIsolated(l) => tree[RootOf(l)] # "none"
      BY <1>4, <1>5, <1>7 DEF Registered, LeaseInv, LeaseFacts, HeldHasTree
    <2>2. lease'[l].state \notin {"NONE", "REMOVED"}
      BY <1>5, <1>7, <1>8
    <2>3. l \in Continues => lease[l].state # "NONE" /\ lease'[l].state \in {"IN_USE", "PRESERVED"}
      BY <1>5, <1>7, <1>9, <1>10
    <2>4. teamRun[l] # "live"
      BY <1>9, <1>10
    <2> QED
      BY <1>2, <1>7, <1>8, <2>1, <2>2, <2>3, <2>4, OneLease
  <1> DEFINE next == IF delivery[d].rows = {r} THEN AfterScan(list) ELSE "sweep"
  <1>12. /\ next \in Stages /\ next \in {"sweep", "scan ready", "scan in use", "lookup"}
    BY DEF Stages, Served, AfterScan, Scans
  <1>13. delivery' = [delivery EXCEPT ![d].rows = @ \ {r}, ![d].pc = next]
    BY <1>1, <1>2, <1>3 DEF DeliveryRows
  <1> HIDE DEF next
  <1>14. /\ delivery'[d].rows = delivery[d].rows \ {r} /\ delivery'[d].pc = next
         /\ delivery'[d].cmd = delivery[d].cmd /\ delivery'[d] \in DeliveryRows
    BY <1>2, <1>12, <1>13 DEF DeliveryRows
  <1>15. Moves(d)
    BY <1>2, <1>13, <1>14 DEF Moves
  <1>16. \A e \in Deliveries \ {d} : delivery[e].pc \notin InHand
    BY <1>2, WritingAlone DEF InHand
  <1>17. AloneInHand(d)
    BY <1>12, <1>14, <1>16 DEF AloneInHand, Allocating
  <1>18. \A q \in delivery[d].rows \ {r} : StillSo(q)' /\ (q[1] = "scan in use" => teamRun'[q[2]] = "ended")
    <2> SUFFICES ASSUME NEW q \in delivery[d].rows \ {r}
                 PROVE  StillSo(q)' /\ (q[1] = "scan in use" => teamRun'[q[2]] = "ended")
      OBVIOUS
    <2>1. PICK k \in Scans, m \in Leases : q = <<k, m>>
      BY <1>2 DEF DeliveryRows
    <2>2. StillSo(q) /\ (q[1] = "scan in use" => teamRun[q[2]] = "ended")
      BY <1>2 DEF HandOK
    <2>3. m # l
      <3>1. ASSUME m = l PROVE FALSE
        <4>1. k # list
          BY <1>3, <2>1, <3>1
        <4> QED
          BY <1>4, <2>1, <2>2, <3>1, <4>1 DEF StillSo, Scans
      <3> QED
        BY <3>1
    <2> QED
      BY <1>2, <1>7, <2>1, <2>2, <2>3 DEF StillSo
  <1>19. HandOK(delivery[d])'
    BY <1>2, <1>12, <1>14, <1>18 DEF HandOK, Served, Allocating
  <1>20. \A e \in Deliveries \ {d} : HandOK(delivery[e])'
    <2> SUFFICES ASSUME NEW e \in Deliveries \ {d} PROVE HandOK(delivery[e])'
      OBVIOUS
    <2>1. HandOK(delivery[e]) /\ delivery'[e] = delivery[e] /\ delivery[e].pc \notin InHand
      BY <1>15, <1>16 DEF LeaseInv, Moves
    <2>2. ASSUME delivery[e].pc = "git"
          PROVE  lease'[delivery[e].cmd].state = "ALLOCATING" /\ tree'[delivery[e].cmd] = "none"
                 /\ ~aged'[delivery[e].cmd]
      <3>1. /\ delivery[e].cmd \in Isolated /\ lease[delivery[e].cmd].state = "ALLOCATING"
            /\ tree[delivery[e].cmd] = "none" /\ ~aged[delivery[e].cmd]
        BY <2>1, <2>2 DEF HandOK, Allocating
      <3>2. delivery[e].cmd \in Leases /\ ~Registered(delivery[e].cmd)
        BY <3>1, Roots DEF Registered
      <3>3. CASE l = delivery[e].cmd
        BY <1>2, <1>4, <1>5, <1>7, <3>1, <3>2, <3>3 DEF Scans
      <3>4. CASE l # delivery[e].cmd
        BY <1>2, <1>7, <3>1, <3>2, <3>4
      <3> QED
        BY <3>3, <3>4
    <2> QED
      BY <2>1, <2>2, OtherHands
  <1>21. aged' \in [Leases -> BOOLEAN]
    BY <1>2 DEF LeaseInv, LeaseTables
  <1> QED
    BY <1>11, <1>15, <1>17, <1>19, <1>20, <1>21, OneDelivery

\* The end of an allocation, by its allocator or by adoption: git has made
\* the worktree, or the row says it failed.
LEMMA AllocationKeeps ==
  ASSUME LeaseInv, NEW d \in Deliveries, Adopt(d) \/ EndAllocation(d)
  PROVE  LeaseInv'
PROOF
  <1>0. PICK l \in Leases : l = delivery[d].cmd /\ l \in Isolated /\ l \in Starts
    BY Roots DEF Adopt, EndAllocation, At, LeaseInv, HandOK, Allocating
  <1>1. /\ delivery[d].pc \in {"adopt", "added", "not added"} /\ HandOK(delivery[d])
        /\ lease[l].state = "ALLOCATING" /\ lease \in [Leases -> LeaseRows]
        /\ UNCHANGED <<tree, aged, teamRun>>
    BY <1>0 DEF Adopt, EndAllocation, At, LeaseInv, LeaseTables, LeaseTypeOK, LeaseRows, HandOK, Allocating
  <1> DEFINE ok == delivery[d].pc \in {"adopt", "added"}
             next == IF ok THEN "commit" ELSE "refused"
  <1>2. /\ lease' \in [Leases -> LeaseRows] /\ \A m \in Leases \ {l} : lease'[m] = lease[m]
        /\ lease'[l].state = (IF ok THEN "READY" ELSE "FAILED") /\ lease'[l].bound = lease[l].bound
    <2>1. CASE Adopt(d)
      <3>1. lease' = [lease EXCEPT ![l].state = "READY"] /\ ok /\ "READY" \in LeaseStates
        BY <1>0, <2>1 DEF Adopt, At, SetLease, LeaseStates
      <3> QED
        BY <1>1, <3>1 DEF LeaseRows
    <2>2. CASE EndAllocation(d)
      <3>1. PICK st \in LeaseStates, code \in BOOLEAN :
              /\ lease' = [lease EXCEPT ![l].state = st, ![l].code = code]
              /\ st = (IF ok THEN "READY" ELSE "FAILED")
        <4>1. /\ ok <=> At(d, "added")
              /\ (IF ok THEN "READY" ELSE "FAILED") \in LeaseStates
          BY <2>2 DEF EndAllocation, At, LeaseStates
        <4>2. (lease[l].code \/ ~ok) \in BOOLEAN
          BY <1>1 DEF LeaseRows
        <4>3. lease' = [lease EXCEPT ![l].state = IF ok THEN "READY" ELSE "FAILED",
                                     ![l].code = @ \/ ~ok]
          BY <1>0, <2>2, <4>1 DEF EndAllocation
        <4> QED
          BY <1>1, <4>1, <4>2, <4>3 DEF LeaseRows
      <3> QED
        BY <1>1, <3>1 DEF LeaseRows
    <2> QED
      BY <2>1, <2>2
  <1>3. Goto(d, next) /\ next \in Stages
    BY <1>1 DEF Adopt, EndAllocation, At, Stages, Served
  <1>4. ok => tree[l] # "none"
    BY <1>0, <1>1 DEF HandOK
  <1>5. LeaseFacts' /\ LeaseTypeOK'
    <2>1. teamRun[l] # "live" /\ l \notin Continues /\ RootOf(l) = l
      BY <1>0, <1>1, Roots, WorkspaceAssumption DEF LeaseInv, LeaseFacts, LiveRunKeepsItsLease
    <2>2. /\ lease'[l].state \notin {"NONE", "REMOVED"} /\ lease[l].state # "TRANSFERRED"
          /\ lease'[l].state = "READY" => tree[l] # "none"
      BY <1>1, <1>2, <1>4
    <2> QED
      BY <1>1, <1>2, <2>1, <2>2, OneLease
  <1>6. Moves(d) /\ delivery'[d].pc = next /\ delivery'[d].cmd = delivery[d].cmd
    BY <1>3, GotoMoves
  <1>7. AloneInHand(d) /\ HandOK(delivery[d])'
    BY <1>0, <1>6 DEF AloneInHand, InHand, Allocating, HandOK, Served
  <1>8. \A e \in Deliveries \ {d} : HandOK(delivery[e])'
    <2> SUFFICES ASSUME NEW e \in Deliveries \ {d} PROVE HandOK(delivery[e])'
      OBVIOUS
    <2>1. HandOK(delivery[e]) /\ delivery'[e] = delivery[e] /\ delivery[e].pc \notin InHand
      BY <1>1, <1>6, WritingAlone DEF LeaseInv, Moves, InHand
    <2>2. ASSUME delivery[e].pc = "git"
          PROVE  lease'[delivery[e].cmd].state = "ALLOCATING" /\ tree'[delivery[e].cmd] = "none"
                 /\ ~aged'[delivery[e].cmd]
      <3>1. /\ delivery[e].cmd \in Isolated /\ lease[delivery[e].cmd].state = "ALLOCATING"
            /\ tree[delivery[e].cmd] = "none" /\ ~aged[delivery[e].cmd] /\ delivery[e].cmd \in Leases
        BY <2>1, <2>2, Roots DEF HandOK, Allocating
      <3>2. l # delivery[e].cmd
        BY <1>0, <1>1, <2>2, <3>1 DEF HandOK, LeaseInv, OneAllocator, Allocating
      <3> QED
        BY <1>1, <1>2, <3>1, <3>2
    <2> QED
      BY <2>1, <2>2, OtherHands
  <1>9. aged' \in [Leases -> BOOLEAN]
    BY <1>1 DEF LeaseInv, LeaseTables
  <1> QED
    BY <1>5, <1>6, <1>7, <1>8, <1>9, OneDelivery

\* The unique key makes one delivery the allocator.
LEMMA InsertKeeps ==
  ASSUME LeaseInv, NEW d \in Deliveries, InsertLease(d), \A e \in Deliveries : delivery[e].pc \notin InHand
  PROVE  LeaseInv'
PROOF
  <1>0. PICK l \in Leases : l = delivery[d].cmd /\ l \in Starts
    BY Roots DEF InsertLease, At, LeaseInv, HandOK, Served
  <1>1. /\ delivery[d].pc = "insert" /\ delivery[d].pc \in Served
        /\ lease \in [Leases -> LeaseRows] /\ UNCHANGED <<tree, aged, teamRun>>
    BY DEF InsertLease, At, LeaseInv, LeaseTables, LeaseTypeOK, LeaseRows, Served
  <1>2. CASE lease[l].state # "NONE"
    <2>1. (Goto(d, "commit") \/ Goto(d, "wait")) /\ UNCHANGED lease
      BY <1>0, <1>2 DEF InsertLease
    <2> QED
      BY <1>1, <2>1, GotoKeeps
  <1>3. CASE lease[l].state = "NONE"
    <2> DEFINE new == IF l \in Isolated THEN "ALLOCATING" ELSE "READY"
               next == IF l \in Isolated THEN "git" ELSE "commit"
    <2>1. lease' = [lease EXCEPT ![l].state = new] /\ Goto(d, next)
      BY <1>0, <1>3, Roots DEF InsertLease, SetLease
    <2>2. new \in LeaseStates /\ next \in Stages
      BY DEF LeaseStates, Stages, Served
    <2>3. /\ lease' \in [Leases -> LeaseRows] /\ \A m \in Leases \ {l} : lease'[m] = lease[m]
          /\ lease'[l].state = new /\ lease'[l].bound = lease[l].bound
      BY <1>1, <2>1, <2>2 DEF LeaseRows
    <2>4. LeaseFacts' /\ LeaseTypeOK'
      <3>1. teamRun[l] # "live" /\ l \notin Continues /\ (IsIsolated(l) <=> l \in Isolated)
        BY <1>0, <1>3, Roots, WorkspaceAssumption DEF LeaseInv, LeaseFacts, LiveRunKeepsItsLease
      <3> QED
        BY <1>1, <1>3, <2>3, <3>1, OneLease
    <2>5. Moves(d) /\ delivery'[d].pc = next /\ delivery'[d].cmd = delivery[d].cmd
      BY <2>1, <2>2, GotoMoves
    <2>6. l \in Isolated => tree[l] = "none" /\ ~aged[l]
      BY <1>3 DEF LeaseInv, LeaseFacts
    <2>7. ASSUME NEW e \in Deliveries \ {d}, delivery[e].pc = "git"
          PROVE  /\ delivery[e].cmd # l /\ lease'[delivery[e].cmd].state = "ALLOCATING"
                 /\ tree'[delivery[e].cmd] = "none" /\ ~aged'[delivery[e].cmd]
      <3>1. /\ delivery[e].cmd \in Isolated /\ lease[delivery[e].cmd].state = "ALLOCATING"
            /\ tree[delivery[e].cmd] = "none" /\ ~aged[delivery[e].cmd] /\ delivery[e].cmd \in Leases
        BY <2>7, Roots DEF LeaseInv, HandOK, Allocating
      <3> QED
        BY <1>1, <1>3, <2>3, <3>1
    <2>8. AloneInHand(d)
      BY <1>0, <2>5, <2>7 DEF AloneInHand, InHand, Allocating
    <2>9. HandOK(delivery[d])'
      BY <1>0, <1>1, <2>3, <2>5, <2>6 DEF HandOK, Served, Allocating
    <2>10. \A e \in Deliveries \ {d} : HandOK(delivery[e])'
      <3> SUFFICES ASSUME NEW e \in Deliveries \ {d} PROVE HandOK(delivery[e])'
        OBVIOUS
      <3>1. HandOK(delivery[e]) /\ delivery'[e] = delivery[e] /\ delivery[e].pc \notin InHand
        BY <2>5 DEF LeaseInv, Moves
      <3> QED
        BY <2>7, <3>1, OtherHands
    <2>11. aged' \in [Leases -> BOOLEAN]
      BY <1>1 DEF LeaseInv, LeaseTables
    <2> QED
      BY <2>4, <2>5, <2>8, <2>9, <2>10, <2>11, OneDelivery
  <1> QED
    BY <1>2, <1>3

\* git worktree add, for the one allocator of the row.
LEMMA GitAddKeeps ==
  ASSUME LeaseInv, NEW d \in Deliveries, GitAdd(d), \A e \in Deliveries : delivery[e].pc \notin InHand
  PROVE  LeaseInv'
PROOF
  <1>0. PICK l \in Leases : l = delivery[d].cmd /\ l \in Isolated /\ l \in Starts
    BY Roots DEF GitAdd, At, LeaseInv, HandOK, Allocating
  <1>1. /\ delivery[d].pc = "git" /\ UNCHANGED <<lease, aged, teamRun>>
        /\ lease[l].state = "ALLOCATING" /\ tree[l] = "none"
        /\ tree \in [Isolated -> {"none", "clean", "dirty", "committed"}]
    BY <1>0 DEF GitAdd, At, LeaseInv, LeaseTables, LeaseTypeOK, HandOK, Allocating
  <1>2. \/ tree' = [tree EXCEPT ![l] = "clean"] /\ Goto(d, "added")
        \/ UNCHANGED tree /\ Goto(d, "not added")
    BY <1>0 DEF GitAdd
  <1>3. PICK next \in {"added", "not added"} : Goto(d, next) /\ (next = "added" => tree' = [tree EXCEPT ![l] = "clean"])
    BY <1>2
  <1>4. /\ tree' \in [Isolated -> {"none", "clean", "dirty", "committed"}]
        /\ \A s \in Isolated \ {l} : tree'[s] = tree[s]
        /\ next = "added" => tree'[l] # "none"
    <2>1. CASE tree' = [tree EXCEPT ![l] = "clean"]
      BY <1>0, <1>1, <2>1
    <2>2. CASE UNCHANGED tree
      BY <1>0, <1>1, <1>3, <2>2
    <2> QED
      BY <1>2, <2>1, <2>2
  <1>5. Moves(d) /\ delivery'[d].pc = next /\ delivery'[d].cmd = delivery[d].cmd
    <2>1. next \in Stages
      BY DEF Stages, Served
    <2> QED
      BY <1>3, <2>1, GotoMoves
  <1>6. LeaseTypeOK' /\ aged' \in [Leases -> BOOLEAN]
    BY <1>1, <1>4 DEF LeaseInv, LeaseTables, LeaseTypeOK
  <1>7. \A m \in Leases : RootOf(m) = l /\ IsIsolated(m) => lease[m].state \notin {"READY", "REMOVED"} /\ teamRun[m] # "live"
    <2> SUFFICES ASSUME NEW m \in Leases, RootOf(m) = l, IsIsolated(m)
                 PROVE  lease[m].state \notin {"READY", "REMOVED"} /\ teamRun[m] # "live"
      OBVIOUS
    <2>1. CASE m \in Starts
      BY <1>1, <2>1, Roots DEF LeaseInv, LeaseFacts, LiveRunKeepsItsLease
    <2>2. CASE m \in Continues
      BY <1>1, <2>2, Roots DEF LeaseInv, LeaseFacts, LiveRunKeepsItsLease
    <2> QED
      BY <2>1, <2>2, Roots
  <1>8. LeaseFacts'
    <2>1. ASSUME NEW m \in Leases, IsIsolated(m), RootOf(m) # l
          PROVE  tree'[RootOf(m)] = tree[RootOf(m)]
      BY <1>4, <2>1 DEF IsIsolated
    <2>2. LiveRunKeepsItsLease'
      <3> SUFFICES ASSUME NEW m \in Leases, teamRun[m] = "live"
                   PROVE  /\ lease[m].bound /\ lease[m].state = "IN_USE"
                          /\ IsIsolated(m) => tree'[RootOf(m)] # "none"
        BY <1>1 DEF LiveRunKeepsItsLease
      <3> QED
        BY <1>7, <2>1 DEF LeaseInv, LeaseFacts, LiveRunKeepsItsLease
    <2>3. LeaseTellsTheTruth'
      <3> SUFFICES ASSUME NEW m \in Leases, IsIsolated(m)
                   PROVE  /\ lease[m].state = "READY" => tree'[RootOf(m)] # "none"
                          /\ lease[m].state = "REMOVED" => tree'[RootOf(m)] = "none"
        BY <1>1 DEF LeaseTellsTheTruth
      <3>1. CASE RootOf(m) # l
        BY <2>1, <3>1 DEF LeaseInv, LeaseFacts, LeaseTellsTheTruth
      <3>2. CASE RootOf(m) = l
        BY <1>7, <3>2
      <3> QED
        BY <3>1, <3>2
    <2>4. \A s \in Isolated : lease[s].state = "NONE" => tree'[s] = "none" /\ ~aged[s]
      BY <1>1, <1>4 DEF LeaseInv, LeaseFacts
    <2>5. HeldHasTree'
      <3> SUFFICES ASSUME NEW m \in Leases, IsIsolated(m), lease[m].state \in {"READY", "IN_USE", "PRESERVED"}
                   PROVE  tree'[RootOf(m)] # "none"
        BY <1>1 DEF HeldHasTree
      <3>1. tree[RootOf(m)] # "none"
        BY DEF LeaseInv, LeaseFacts, HeldHasTree
      <3> QED
        BY <1>1, <2>1, <3>1
    <2> QED
      BY <1>1, <2>2, <2>3, <2>4, <2>5 DEF LeaseInv, LeaseFacts
  <1>9. ASSUME NEW e \in Deliveries \ {d}, delivery[e].pc = "git"
        PROVE  /\ delivery[e].cmd # l /\ lease'[delivery[e].cmd].state = "ALLOCATING"
               /\ tree'[delivery[e].cmd] = "none" /\ ~aged'[delivery[e].cmd]
    <2>1. /\ delivery[e].cmd \in Isolated /\ lease[delivery[e].cmd].state = "ALLOCATING"
          /\ tree[delivery[e].cmd] = "none" /\ ~aged[delivery[e].cmd]
      BY <1>9 DEF LeaseInv, HandOK, Allocating
    <2>2. delivery[e].cmd # l
      BY <1>0, <1>1, <1>9 DEF LeaseInv, OneAllocator, Allocating
    <2> QED
      BY <1>1, <1>4, <2>1, <2>2
  <1>10. AloneInHand(d)
    BY <1>0, <1>5, <1>9 DEF AloneInHand, InHand, Allocating
  <1>11. HandOK(delivery[d])'
    BY <1>0, <1>1, <1>4, <1>5 DEF HandOK, Served, Allocating
  <1>12. \A e \in Deliveries \ {d} : HandOK(delivery[e])'
    <2> SUFFICES ASSUME NEW e \in Deliveries \ {d} PROVE HandOK(delivery[e])'
      OBVIOUS
    <2>1. HandOK(delivery[e]) /\ delivery'[e] = delivery[e] /\ delivery[e].pc \notin InHand
      BY <1>5 DEF LeaseInv, Moves
    <2> QED
      BY <1>9, <2>1, OtherHands
  <1> QED
    BY <1>5, <1>6, <1>8, <1>10, <1>11, <1>12, OneDelivery

-----------------------------------------------------------------------------
\* A delivery at git is the allocator of its row.
LEMMA GitRow ==
  ASSUME LeaseInv, NEW e \in Deliveries, delivery[e].pc = "git"
  PROVE  /\ delivery[e].cmd \in Isolated /\ delivery[e].cmd \in Starts /\ delivery[e].cmd \in Leases
         /\ lease[delivery[e].cmd].state = "ALLOCATING"
         /\ tree[delivery[e].cmd] = "none" /\ ~aged[delivery[e].cmd]
PROOF
  BY Roots DEF LeaseInv, HandOK, Allocating

\* A step of delivery d to one of its last stages, while nobody has an
\* observation in hand and no allocation is disturbed.
LEMMA LastStage ==
  ASSUME LeaseInv, NEW d \in Deliveries, NEW pc \in {"executed", "duplicate", "conflict", "refused"},
         Goto(d, pc), \A e \in Deliveries : delivery[e].pc \notin InHand,
         LeaseTypeOK', LeaseFacts', UNCHANGED <<tree, aged>>,
         \A s \in Isolated : lease[s].state = "ALLOCATING" => lease'[s].state = "ALLOCATING"
  PROVE  LeaseInv'
PROOF
  <1>1. pc \in Stages
    BY DEF Stages
  <1>2. /\ Moves(d) /\ delivery'[d].pc = pc /\ delivery'[d].cmd = delivery[d].cmd
    BY <1>1, GotoMoves
  <1>3. AloneInHand(d)
    BY <1>2 DEF AloneInHand, InHand, Allocating
  <1>4. HandOK(delivery[d])'
    BY <1>2 DEF HandOK, Allocating, Served
  <1>5. \A e \in Deliveries \ {d} : HandOK(delivery[e])'
    <2> SUFFICES ASSUME NEW e \in Deliveries \ {d} PROVE HandOK(delivery[e])'
      OBVIOUS
    <2>1. HandOK(delivery[e]) /\ delivery'[e] = delivery[e] /\ delivery[e].pc \notin InHand
      BY <1>2 DEF LeaseInv, Moves
    <2>2. delivery[e].pc = "git" => /\ lease'[delivery[e].cmd].state = "ALLOCATING"
                                    /\ tree'[delivery[e].cmd] = "none" /\ ~aged'[delivery[e].cmd]
      BY GitRow
    <2> QED
      BY <2>1, <2>2, OtherHands
  <1>6. aged' \in [Leases -> BOOLEAN]
    BY DEF LeaseInv, LeaseTables
  <1> QED
    BY <1>2, <1>3, <1>4, <1>5, <1>6, OneDelivery

\* A step of no delivery.
LEMMA NoDelivery ==
  ASSUME LeaseInv, UNCHANGED delivery, \A e \in Deliveries : delivery[e].pc \notin InHand,
         LeaseTypeOK', LeaseFacts', aged' \in [Leases -> BOOLEAN],
         \A e \in Deliveries : delivery[e].pc = "git" =>
            /\ lease'[delivery[e].cmd].state = "ALLOCATING"
            /\ tree'[delivery[e].cmd] = "none" /\ ~aged'[delivery[e].cmd]
  PROVE  LeaseInv'
PROOF
  <1>1. \A e \in Deliveries : HandOK(delivery[e])'
    <2> SUFFICES ASSUME NEW e \in Deliveries PROVE HandOK(delivery[e])'
      OBVIOUS
    <2>1. HandOK(delivery[e]) /\ delivery'[e] = delivery[e] /\ delivery[e].pc \notin InHand
      BY DEF LeaseInv
    <2> QED
      BY <2>1, OtherHands
  <1>2. OneHand' /\ OneAllocator'
    BY DEF LeaseInv, OneHand, OneAllocator
  <1> QED
    BY <1>1, <1>2 DEF LeaseInv, LeaseTables

\* The start's transaction binds a READY lease to the run it creates.
LEMMA CommitStartKeeps ==
  ASSUME LeaseInv, NEW d \in Deliveries, CommitStart(d), \A e \in Deliveries : delivery[e].pc \notin InHand
  PROVE  LeaseInv'
PROOF
  <1>0. PICK l \in Leases : l = delivery[d].cmd /\ l \in Starts
    BY Roots DEF CommitStart, At, LeaseInv, HandOK, Served
  <1>1. UNCHANGED <<tree, aged>> /\ LeaseTypeOK
    BY DEF CommitStart, LeaseInv, LeaseTables
  <1>2. CASE UNCHANGED <<lease, teamRun>> /\ \E pc \in {"duplicate", "conflict", "refused"} : Goto(d, pc)
    <2>1. LeaseTypeOK' /\ LeaseFacts'
      BY <1>1, <1>2 DEF LeaseInv, LeaseTypeOK, LeaseFacts, LiveRunKeepsItsLease, LeaseTellsTheTruth, HeldHasTree
    <2> QED
      BY <1>1, <1>2, <2>1, LastStage
  <1>3. CASE /\ lease[l].state = "READY"
             /\ lease' = [lease EXCEPT ![l].state = "IN_USE", ![l].bound = TRUE]
             /\ teamRun' = [teamRun EXCEPT ![l] = "live"]
             /\ Goto(d, "executed")
    <2>1. /\ \A m \in Leases \ {l} : lease'[m] = lease[m] /\ teamRun'[m] = teamRun[m]
          /\ lease'[l].state = "IN_USE" /\ lease'[l].bound /\ teamRun'[l] = "live"
      BY <1>1, <1>3 DEF LeaseTypeOK
    <2>2. LeaseTypeOK'
      BY <1>1, <1>3 DEF LeaseTypeOK, LeaseStates
    <2>3. \A s \in Isolated : lease'[s].state \in {"NONE", "ALLOCATING"} => lease'[s] = lease[s]
      BY <2>1, Roots
    <2>4. l \notin Continues /\ \A c \in Continues : lease'[c] = lease[c]
      BY <1>0, <2>1, WorkspaceAssumption, Roots
    <2>5. \A c \in Continues : Source[c] \in Isolated /\ lease[c].state # "NONE" => Source[c] # l
      BY <1>3 DEF LeaseInv, LeaseFacts
    <2>6. IsIsolated(l) => tree[RootOf(l)] # "none"
      BY <1>3 DEF LeaseInv, LeaseFacts, LeaseTellsTheTruth
    <2>7. LiveRunKeepsItsLease' /\ LeaseTellsTheTruth' /\ HeldHasTree'
      BY <1>1, <2>1, <2>6 DEF LeaseInv, LeaseFacts, LiveRunKeepsItsLease, LeaseTellsTheTruth, HeldHasTree
    <2>8. \A s \in Isolated : lease'[s].state = "NONE" => tree'[s] = "none" /\ ~aged'[s]
      BY <1>1, <2>3 DEF LeaseInv, LeaseFacts
    <2>9. \A c \in Continues : Source[c] \in Isolated /\ lease'[c].state # "NONE" =>
            /\ lease'[Source[c]].state = "TRANSFERRED"
            /\ \A b \in Continues : Source[b] = Source[c] /\ lease'[b].state # "NONE" => b = c
      BY <2>1, <2>4, <2>5, Roots DEF LeaseInv, LeaseFacts
    <2>10. LeaseFacts'
      BY <2>4, <2>7, <2>8, <2>9 DEF LeaseInv, LeaseFacts
    <2>11. \A s \in Isolated : lease[s].state = "ALLOCATING" => lease'[s].state = "ALLOCATING"
      BY <1>3, <2>1, Roots
    <2> QED
      BY <1>1, <1>3, <2>2, <2>10, <2>11, LastStage
  <1> QED
    BY <1>0, <1>2, <1>3 DEF CommitStart, Repeated, Bindable

\* A continuation takes the worktree of a preserved lease, and alone.
LEMMA CommitContinueKeeps ==
  ASSUME LeaseInv, NEW d \in Deliveries, CommitContinue(d), \A e \in Deliveries : delivery[e].pc \notin InHand
  PROVE  LeaseInv'
PROOF
  <1>0. PICK c \in Continues : c = delivery[d].cmd
    BY DEF CommitContinue, At, LeaseInv, HandOK
  <1>1. UNCHANGED <<tree, aged>> /\ LeaseTypeOK
    BY DEF CommitContinue, LeaseInv, LeaseTables
  <1>s. PICK s \in Starts : s = Source[c] /\ s \in Leases /\ c \in Leases /\ s # c /\ s \notin Continues /\ c \notin Starts
    BY Roots, WorkspaceAssumption
  <1>2. CASE UNCHANGED <<lease, teamRun>> /\ \E pc \in {"executed", "duplicate", "conflict", "refused"} : Goto(d, pc)
    <2>1. LeaseTypeOK' /\ LeaseFacts'
      BY <1>1, <1>2 DEF LeaseInv, LeaseTypeOK, LeaseFacts, LiveRunKeepsItsLease, LeaseTellsTheTruth, HeldHasTree
    <2> QED
      BY <1>1, <1>2, <2>1, LastStage
  <1>3. CASE /\ Transferable(s)
             /\ lease' = [lease EXCEPT ![s].state = IF s \in Isolated THEN "TRANSFERRED" ELSE @,
                                       ![c] = [state |-> "IN_USE", bound |-> TRUE, code |-> FALSE]]
             /\ teamRun' = [teamRun EXCEPT ![c] = "live"]
             /\ Goto(d, "executed")
    <2>1. /\ \A m \in Leases \ {s, c} : lease'[m] = lease[m]
          /\ \A m \in Leases \ {c} : teamRun'[m] = teamRun[m]
          /\ lease'[c].state = "IN_USE" /\ lease'[c].bound /\ teamRun'[c] = "live"
          /\ lease'[s].state = (IF s \in Isolated THEN "TRANSFERRED" ELSE lease[s].state)
          /\ lease'[s].bound = lease[s].bound
      BY <1>1, <1>3, <1>s DEF LeaseTypeOK
    <2>2. LeaseTypeOK'
      BY <1>1, <1>3, <1>s DEF LeaseTypeOK, LeaseStates
    <2>3. s \in Isolated => lease[s].state = "PRESERVED"
      BY <1>3 DEF Transferable
    <2>4. s \in Isolated => \A b \in Continues : Source[b] = s => lease[b].state = "NONE"
      BY <2>3 DEF LeaseInv, LeaseFacts
    <2>5. \A z \in Isolated : z # s => lease'[z] = lease[z]
      BY <1>s, <2>1, Roots
    <2>6. \A b \in Continues : b # c => lease'[b] = lease[b] /\ b # s
      BY <1>s, <2>1, Roots
    <2>7. s \in Isolated => tree[s] # "none"
      BY <1>s, <2>3, Roots DEF LeaseInv, LeaseFacts, HeldHasTree
    <2>8. IsIsolated(c) => tree[RootOf(c)] # "none"
      BY <1>s, <2>7, Roots
    <2>9. LiveRunKeepsItsLease'
      <3> SUFFICES ASSUME NEW m \in Leases, teamRun'[m] = "live"
                   PROVE  /\ lease'[m].bound /\ lease'[m].state = "IN_USE"
                          /\ IsIsolated(m) => tree[RootOf(m)] # "none"
        BY <1>1 DEF LiveRunKeepsItsLease
      <3>1. CASE m = c
        BY <2>1, <2>8, <3>1
      <3>2. CASE m # c
        <4>1. /\ lease[m].bound /\ lease[m].state = "IN_USE"
              /\ IsIsolated(m) => tree[RootOf(m)] # "none"
          BY <2>1, <3>2 DEF LeaseInv, LeaseFacts, LiveRunKeepsItsLease
        <4> QED
          BY <2>1, <2>3, <3>2, <4>1
      <3> QED
        BY <3>1, <3>2
    <2>10. LeaseTellsTheTruth' /\ HeldHasTree'
      <3> SUFFICES ASSUME NEW m \in Leases, IsIsolated(m)
                   PROVE  /\ lease'[m].state \in {"READY", "IN_USE", "PRESERVED"} => tree[RootOf(m)] # "none"
                          /\ lease'[m].state = "REMOVED" => tree[RootOf(m)] = "none"
        BY <1>1 DEF LeaseTellsTheTruth, HeldHasTree
      <3>1. CASE m = c
        BY <2>1, <2>8, <3>1
      <3>2. CASE m = s
        BY <1>s, <2>1, <3>2, Roots
      <3>3. CASE m \notin {s, c}
        BY <2>1, <3>3 DEF LeaseInv, LeaseFacts, LeaseTellsTheTruth, HeldHasTree
      <3> QED
        BY <3>1, <3>2, <3>3
    <2>11. \A z \in Isolated : lease'[z].state = "NONE" => tree'[z] = "none" /\ ~aged'[z]
      BY <1>1, <2>1, <2>5 DEF LeaseInv, LeaseFacts
    <2>12. \A b \in Continues : lease'[b].state \in {"NONE", "IN_USE", "PRESERVED", "REMOVED"}
      BY <2>1, <2>6 DEF LeaseInv, LeaseFacts
    <2>13. \A b \in Continues : Source[b] \in Isolated /\ lease'[b].state # "NONE" =>
             /\ lease'[Source[b]].state = "TRANSFERRED"
             /\ \A a \in Continues : Source[a] = Source[b] /\ lease'[a].state # "NONE" => a = b
      <3> SUFFICES ASSUME NEW b \in Continues, Source[b] \in Isolated, lease'[b].state # "NONE"
                   PROVE  /\ lease'[Source[b]].state = "TRANSFERRED"
                          /\ \A a \in Continues : Source[a] = Source[b] /\ lease'[a].state # "NONE" => a = b
        OBVIOUS
      <3>1. CASE Source[b] = s
        <4>1. b = c
          BY <2>4, <2>6, <3>1
        <4> QED
          BY <1>s, <2>1, <2>4, <2>6, <4>1
      <3>2. CASE Source[b] # s
        <4>1. b # c
          BY <1>s, <3>2
        <4>2. lease[b].state # "NONE"
          BY <2>6, <4>1
        <4>3. /\ lease[Source[b]].state = "TRANSFERRED"
              /\ \A a \in Continues : Source[a] = Source[b] /\ lease[a].state # "NONE" => a = b
          BY <4>2 DEF LeaseInv, LeaseFacts
        <4> QED
          BY <1>s, <2>5, <2>6, <3>2, <4>3
      <3> QED
        BY <3>1, <3>2
    <2>14. LeaseFacts'
      BY <2>9, <2>10, <2>11, <2>12, <2>13 DEF LeaseFacts
    <2>15. \A z \in Isolated : lease[z].state = "ALLOCATING" => lease'[z].state = "ALLOCATING"
      BY <2>3, <2>5
    <2> QED
      BY <1>1, <1>3, <2>2, <2>14, <2>15, LastStage
  <1> QED
    BY <1>0, <1>s, <1>2, <1>3 DEF CommitContinue, Repeated

\* A live run's agents never remove its directory.
LEMMA AgentWorkKeeps ==
  ASSUME LeaseInv, NEW l \in Leases, AgentWork(l), \A e \in Deliveries : delivery[e].pc \notin InHand
  PROVE  LeaseInv'
PROOF
  <1>1. UNCHANGED <<lease, aged, teamRun, delivery>> /\ LeaseTypeOK /\ aged \in [Leases -> BOOLEAN]
    BY DEF AgentWork, LeaseInv, LeaseTables
  <1>2. /\ tree' \in [Isolated -> {"none", "clean", "dirty", "committed"}]
        /\ \A s \in Isolated : tree'[s] = "none" <=> tree[s] = "none"
    <2>1. CASE UNCHANGED tree
      BY <1>1, <2>1 DEF LeaseTypeOK
    <2>2. CASE tree # tree'
      <3>1. PICK w \in {"dirty", "committed"} :
              IsIsolated(l) /\ tree[RootOf(l)] # "none" /\ tree' = [tree EXCEPT ![RootOf(l)] = w]
        BY <2>2 DEF AgentWork
      <3> QED
        BY <1>1, <3>1 DEF LeaseTypeOK, IsIsolated
    <2> QED
      BY <2>1, <2>2
  <1>3. LeaseTypeOK'
    BY <1>1, <1>2 DEF LeaseTypeOK
  <1>4. \A m \in Leases : IsIsolated(m) => (tree'[RootOf(m)] = "none" <=> tree[RootOf(m)] = "none")
    BY <1>2 DEF IsIsolated
  <1>5. LiveRunKeepsItsLease' /\ LeaseTellsTheTruth' /\ HeldHasTree'
    BY <1>1, <1>4 DEF LeaseInv, LeaseFacts, LiveRunKeepsItsLease, LeaseTellsTheTruth, HeldHasTree
  <1>6. LeaseFacts'
    BY <1>1, <1>2, <1>5 DEF LeaseInv, LeaseFacts
  <1>7. \A e \in Deliveries : delivery[e].pc = "git" =>
            /\ lease'[delivery[e].cmd].state = "ALLOCATING"
            /\ tree'[delivery[e].cmd] = "none" /\ ~aged'[delivery[e].cmd]
    BY <1>1, <1>2, GitRow
  <1> QED
    BY <1>1, <1>3, <1>6, <1>7, NoDelivery

\* The run ends, with its lease preserved or still in use.
LEMMA EndTeamRunKeeps ==
  ASSUME LeaseInv, NEW l \in Leases, NEW p \in BOOLEAN, EndTeamRun(l, p),
         \A e \in Deliveries : delivery[e].pc \notin InHand
  PROVE  LeaseInv'
PROOF
  <1>1. /\ UNCHANGED <<tree, aged, delivery>> /\ LeaseTypeOK /\ aged \in [Leases -> BOOLEAN]
        /\ lease[l].state = "IN_USE" /\ teamRun' = [teamRun EXCEPT ![l] = "ended"]
    BY DEF EndTeamRun, LeaseInv, LeaseTables, LeaseFacts, LiveRunKeepsItsLease
  <1>2. /\ \A m \in Leases \ {l} : lease'[m] = lease[m] /\ teamRun'[m] = teamRun[m]
        /\ lease'[l].state \in {"IN_USE", "PRESERVED"} /\ teamRun'[l] = "ended"
        /\ LeaseTypeOK'
    <2>1. CASE UNCHANGED lease
      BY <1>1, <2>1 DEF LeaseTypeOK
    <2>2. CASE SetLease(l, "PRESERVED")
      BY <1>1, <2>2 DEF LeaseTypeOK, SetLease, LeaseStates
    <2> QED
      BY <2>1, <2>2 DEF EndTeamRun
  <1>3. \A m \in Leases : lease[m].state \notin {"IN_USE", "PRESERVED"} \/ lease'[m].state \notin {"IN_USE", "PRESERVED"}
                          => lease'[m] = lease[m]
    BY <1>1, <1>2
  <1>4. LiveRunKeepsItsLease' /\ LeaseTellsTheTruth' /\ HeldHasTree'
    BY <1>1, <1>2 DEF LeaseInv, LeaseFacts, LiveRunKeepsItsLease, LeaseTellsTheTruth, HeldHasTree
  <1>5. \A s \in Isolated : lease'[s].state = "NONE" => tree'[s] = "none" /\ ~aged'[s]
    BY <1>1, <1>3, Roots DEF LeaseInv, LeaseFacts
  <1>6. \A c \in Continues : lease'[c].state \in {"NONE", "IN_USE", "PRESERVED", "REMOVED"}
    BY <1>2, Roots DEF LeaseInv, LeaseFacts
  <1>7. \A c \in Continues : Source[c] \in Isolated /\ lease'[c].state # "NONE" =>
          /\ lease'[Source[c]].state = "TRANSFERRED"
          /\ \A b \in Continues : Source[b] = Source[c] /\ lease'[b].state # "NONE" => b = c
    <2>1. \A c \in Continues : lease'[c].state # "NONE" => lease[c].state # "NONE"
      BY <1>3, Roots
    <2> QED
      BY <1>3, <2>1, Roots DEF LeaseInv, LeaseFacts
  <1>8. LeaseFacts'
    BY <1>4, <1>5, <1>6, <1>7 DEF LeaseFacts
  <1>9. \A e \in Deliveries : delivery[e].pc = "git" =>
            /\ lease'[delivery[e].cmd].state = "ALLOCATING"
            /\ tree'[delivery[e].cmd] = "none" /\ ~aged'[delivery[e].cmd]
    BY <1>1, <1>3, GitRow
  <1> QED
    BY <1>1, <1>2, <1>8, <1>9, NoDelivery

\* Time passes over a row that no allocator has in its hands.
LEMMA AgeLeaseKeeps ==
  ASSUME LeaseInv, NEW l \in Leases, AgeLease(l), \A e \in Deliveries : delivery[e].pc \notin InHand
  PROVE  LeaseInv'
PROOF
  <1>1. /\ UNCHANGED <<lease, tree, teamRun, delivery>> /\ LeaseTypeOK /\ aged \in [Leases -> BOOLEAN]
        /\ aged' = [aged EXCEPT ![l] = TRUE] /\ lease[l].state # "NONE"
    BY DEF AgeLease, LeaseInv, LeaseTables
  <1>2. LeaseTypeOK' /\ aged' \in [Leases -> BOOLEAN]
    BY <1>1 DEF LeaseTypeOK
  <1>3. LiveRunKeepsItsLease' /\ LeaseTellsTheTruth' /\ HeldHasTree'
    BY <1>1 DEF LeaseInv, LeaseFacts, LiveRunKeepsItsLease, LeaseTellsTheTruth, HeldHasTree
  <1>4. \A s \in Isolated : lease'[s].state = "NONE" => tree'[s] = "none" /\ ~aged'[s]
    BY <1>1, Roots DEF LeaseInv, LeaseFacts
  <1>5. LeaseFacts'
    BY <1>1, <1>3, <1>4 DEF LeaseInv, LeaseFacts
  <1>6. \A e \in Deliveries : delivery[e].pc = "git" =>
            /\ lease'[delivery[e].cmd].state = "ALLOCATING"
            /\ tree'[delivery[e].cmd] = "none" /\ ~aged'[delivery[e].cmd]
    BY <1>1, GitRow DEF AgeLease
  <1> QED
    BY <1>1, <1>2, <1>5, <1>6, NoDelivery

\* A release removes the worktree of a lease that no run holds.
LEMMA ReleaseLeaseKeeps ==
  ASSUME LeaseInv, NEW l \in Leases, ReleaseLease(l), \A e \in Deliveries : delivery[e].pc \notin InHand
  PROVE  LeaseInv'
PROOF
  <1>0. PICK s \in Isolated : s = RootOf(l) /\ s \in Leases /\ s \in Starts /\ RootOf(s) = s
    BY Roots DEF ReleaseLease, IsIsolated
  <1>1. /\ UNCHANGED <<aged, teamRun, delivery>> /\ LeaseTypeOK /\ aged \in [Leases -> BOOLEAN]
        /\ lease[l].state \in {"PRESERVED", "FAILED"} /\ IsIsolated(l)
    BY DEF ReleaseLease, LeaseInv, LeaseTables
  <1>2. PICK st \in {"PRESERVED", "REMOVED"}, code \in BOOLEAN :
          /\ lease' = [lease EXCEPT ![l].state = st, ![l].code = code]
          /\ st = "PRESERVED" => tree[s] = "dirty" /\ UNCHANGED tree
          /\ st = "REMOVED" => tree' = [tree EXCEPT ![s] = "none"]
    BY <1>0 DEF ReleaseLease
  <1>3. /\ \A m \in Leases \ {l} : lease'[m] = lease[m]
        /\ lease'[l].state = st /\ lease'[l].bound = lease[l].bound
    BY <1>1, <1>2 DEF LeaseTypeOK
  <1>4. /\ tree' \in [Isolated -> {"none", "clean", "dirty", "committed"}]
        /\ \A z \in Isolated \ {s} : tree'[z] = tree[z]
        /\ st = "PRESERVED" => tree'[s] = "dirty"
        /\ st = "REMOVED" => tree'[s] = "none"
    <2>1. tree \in [Isolated -> {"none", "clean", "dirty", "committed"}]
      BY <1>1 DEF LeaseTypeOK
    <2>2. CASE st = "PRESERVED"
      BY <1>2, <2>1, <2>2
    <2>3. CASE st = "REMOVED"
      <3>1. tree' = [tree EXCEPT ![s] = "none"]
        BY <1>2, <2>3
      <3> QED
        BY <2>1, <2>3, <3>1
    <2> QED
      BY <1>2, <2>2, <2>3
  <1>5. LeaseTypeOK'
    <2>1. lease \in [Leases -> [state : LeaseStates, bound : BOOLEAN, code : BOOLEAN]] /\ st \in LeaseStates
      BY <1>1, <1>2 DEF LeaseTypeOK, LeaseStates
    <2>2. lease' \in [Leases -> [state : LeaseStates, bound : BOOLEAN, code : BOOLEAN]]
      BY <1>2, <2>1
    <2> QED
      BY <1>1, <1>4, <2>2 DEF LeaseTypeOK
  <1>6. \A m \in Leases \ {l} : IsIsolated(m) /\ RootOf(m) = s =>
          lease[m].state \in {"NONE", "TRANSFERRED"}
    <2> SUFFICES ASSUME NEW m \in Leases, m # l, IsIsolated(m), RootOf(m) = s
                 PROVE  lease[m].state \in {"NONE", "TRANSFERRED"}
      OBVIOUS
    <2>1. CASE l \in Starts
      <3>1. l = s /\ m \in Continues /\ Source[m] = s
        BY <1>0, <2>1, Roots
      <3> QED
        BY <1>1, <3>1 DEF LeaseInv, LeaseFacts
    <2>2. CASE l \in Continues
      <3>1. Source[l] = s /\ lease[l].state # "NONE" /\ Source[l] \in Isolated
        BY <1>0, <1>1, <2>2, Roots
      <3>2. CASE m \in Starts
        <4>1. m = s
          BY <3>2, Roots
        <4> QED
          BY <2>2, <3>1, <4>1 DEF LeaseInv, LeaseFacts
      <3>3. CASE m \in Continues
        <4>1. Source[m] = Source[l]
          BY <3>1, <3>3, Roots
        <4> QED
          BY <2>2, <3>1, <3>3, <4>1 DEF LeaseInv, LeaseFacts
      <3> QED
        BY <3>2, <3>3, Roots
    <2> QED
      BY <2>1, <2>2, Roots
  <1>7. ASSUME NEW m \in Leases, IsIsolated(m), RootOf(m) # s
        PROVE  tree'[RootOf(m)] = tree[RootOf(m)] /\ lease'[m] = lease[m]
    BY <1>0, <1>3, <1>4, <1>7 DEF IsIsolated
  <1>8. LiveRunKeepsItsLease'
    <2> SUFFICES ASSUME NEW m \in Leases, teamRun[m] = "live"
                 PROVE  /\ lease'[m].bound /\ lease'[m].state = "IN_USE"
                        /\ IsIsolated(m) => tree'[RootOf(m)] # "none"
      BY <1>1 DEF LiveRunKeepsItsLease
    <2>1. /\ lease[m].bound /\ lease[m].state = "IN_USE"
          /\ IsIsolated(m) => tree[RootOf(m)] # "none"
      BY DEF LeaseInv, LeaseFacts, LiveRunKeepsItsLease
    <2>2. m # l /\ lease'[m] = lease[m]
      BY <1>1, <1>3, <2>1
    <2>3. IsIsolated(m) => RootOf(m) # s
      BY <1>6, <2>1, <2>2
    <2> QED
      BY <1>7, <2>1, <2>2, <2>3
  <1>9. LeaseTellsTheTruth' /\ HeldHasTree'
    <2> SUFFICES ASSUME NEW m \in Leases, IsIsolated(m)
                 PROVE  /\ lease'[m].state \in {"READY", "IN_USE", "PRESERVED"} => tree'[RootOf(m)] # "none"
                        /\ lease'[m].state = "REMOVED" => tree'[RootOf(m)] = "none"
      BY DEF LeaseTellsTheTruth, HeldHasTree
    <2>1. CASE m = l
      BY <1>0, <1>3, <1>4, <2>1
    <2>2. CASE m # l /\ RootOf(m) = s
      BY <1>3, <1>6, <2>2
    <2>3. CASE RootOf(m) # s
      BY <1>7, <2>3 DEF LeaseInv, LeaseFacts, LeaseTellsTheTruth, HeldHasTree
    <2> QED
      BY <2>1, <2>2, <2>3
  <1>10. \A z \in Isolated : lease'[z].state = "NONE" => tree'[z] = "none" /\ ~aged'[z]
    <2> SUFFICES ASSUME NEW z \in Isolated, lease'[z].state = "NONE" PROVE tree'[z] = "none" /\ ~aged'[z]
      OBVIOUS
    <2>1. z # l /\ z \in Leases /\ lease[z].state = "NONE"
      BY <1>3, Roots
    <2>2. tree[z] = "none" /\ ~aged[z]
      BY <2>1 DEF LeaseInv, LeaseFacts
    <2> QED
      BY <1>0, <1>1, <1>2, <1>4, <2>2
  <1>11. \A c \in Continues : lease'[c].state \in {"NONE", "IN_USE", "PRESERVED", "REMOVED"}
    BY <1>3, Roots DEF LeaseInv, LeaseFacts
  <1>12. \A c \in Continues : Source[c] \in Isolated /\ lease'[c].state # "NONE" =>
          /\ lease'[Source[c]].state = "TRANSFERRED"
          /\ \A b \in Continues : Source[b] = Source[c] /\ lease'[b].state # "NONE" => b = c
    <2>1. \A c \in Continues : lease'[c].state # "NONE" => lease[c].state # "NONE"
      BY <1>1, <1>3, Roots
    <2>2. lease[l].state # "TRANSFERRED"
      BY <1>1
    <2> QED
      BY <1>3, <2>1, <2>2, Roots DEF LeaseInv, LeaseFacts
  <1>13. LeaseFacts'
    BY <1>8, <1>9, <1>10, <1>11, <1>12 DEF LeaseFacts
  <1>14. \A e \in Deliveries : delivery[e].pc = "git" =>
            /\ lease'[delivery[e].cmd].state = "ALLOCATING"
            /\ tree'[delivery[e].cmd] = "none" /\ ~aged'[delivery[e].cmd]
    <2> SUFFICES ASSUME NEW e \in Deliveries, delivery[e].pc = "git"
                 PROVE  /\ lease'[delivery[e].cmd].state = "ALLOCATING"
                        /\ tree'[delivery[e].cmd] = "none" /\ ~aged'[delivery[e].cmd]
      OBVIOUS
    <2>1. PICK m \in Isolated : m = delivery[e].cmd /\ m \in Leases /\ lease[m].state = "ALLOCATING"
                                /\ tree[m] = "none" /\ ~aged[m]
      BY GitRow
    <2>2. m # l /\ m # s
      <3>1. RootOf(m) = m /\ IsIsolated(m)
        BY Roots
      <3> QED
        BY <1>1, <1>6, <2>1, <3>1
    <2> QED
      BY <1>1, <1>3, <1>4, <2>1, <2>2
  <1>15. aged' \in [Leases -> BOOLEAN]
    BY <1>1
  <1>16. UNCHANGED delivery
    BY <1>1
  <1> QED
    BY <1>5, <1>13, <1>14, <1>15, <1>16, NoDelivery

-----------------------------------------------------------------------------
\* Without overlap, nothing comes between an observation and the write that
\* follows it: every step keeps the invariant.
LEMMA LeaseStep ==
  ASSUME ~Overlap, LeaseInv, [LeaseNext]_leaseVars
  PROVE  LeaseInv'
PROOF
  <1>1. ASSUME NEW d \in Deliveries, LeaseWrites(d) \/ CrashDelivery(d)
        PROVE  LeaseInv'
    BY <1>1, SweepRowKeeps, ReadRunsKeeps, AllocationKeeps, CrashKeeps DEF LeaseWrites
  <1>2. Quiet => \A e \in Deliveries : delivery[e].pc \notin InHand
    BY DEF Quiet
  <1>3. ASSUME Quiet, NEW d \in Deliveries,
               \/ ReadList(d) \/ LookupDelivery(d) \/ InsertLease(d) \/ AwaitAllocation(d)
               \/ GitAdd(d) \/ CommitStart(d) \/ CommitContinue(d)
               \/ \E s \in Starts : DeliverStart(d, s)
               \/ \E c \in Continues : DeliverContinue(d, c)
        PROVE  LeaseInv'
    BY <1>2, <1>3, ReadListKeeps, LookupKeeps, InsertKeeps, AwaitKeeps, GitAddKeeps, CommitStartKeeps,
       CommitContinueKeeps, DeliverKeeps
  <1>4. ASSUME Quiet, NEW l \in Leases,
               \/ AgentWork(l) \/ AgeLease(l) \/ ReleaseLease(l)
               \/ \E p \in BOOLEAN : EndTeamRun(l, p)
        PROVE  LeaseInv'
    BY <1>2, <1>4, AgentWorkKeeps, AgeLeaseKeeps, ReleaseLeaseKeeps, EndTeamRunKeeps
  <1>5. CASE UNCHANGED leaseVars
    <2>1. \A d \in Deliveries : HandOK(delivery[d])'
      <3> SUFFICES ASSUME NEW d \in Deliveries PROVE HandOK(delivery[d])'
        OBVIOUS
      <3>1. HandOK(delivery[d]) /\ UNCHANGED <<lease, tree, aged, teamRun, delivery>>
        BY <1>5 DEF LeaseInv, leaseVars
      <3>2. \A r \in delivery[d].rows : StillSo(r) => StillSo(r)'
        BY <3>1 DEF StillSo
      <3> QED
        BY <3>1, <3>2 DEF HandOK
    <2>2. LeaseTables' /\ OneHand' /\ OneAllocator'
      BY <1>5 DEF LeaseInv, leaseVars, LeaseTables, LeaseTypeOK, OneHand, OneAllocator
    <2>3. LeaseFacts'
      BY <1>5 DEF LeaseInv, leaseVars, LeaseFacts, LiveRunKeepsItsLease, LeaseTellsTheTruth, HeldHasTree
    <2> QED
      BY <2>1, <2>2, <2>3 DEF LeaseInv
  <1> QED
    BY <1>1, <1>3, <1>4, <1>5 DEF LeaseNext

\* Whatever allocators, sweeps, transfers, releases and crashes do, without
\* overlap every lease agrees with its worktree and its run.
THEOREM LeaseInvariance ==
  ASSUME ~Overlap
  PROVE  LeaseSpec => []LeaseInv
PROOF
  BY LeaseInitially, LeaseStep, PTL DEF LeaseSpec

\* Two live runs on one worktree would both hold leases in use, but a
\* continuation's source is transferred and a source has one continuation.
LEMMA LeaseInvSays == LeaseInv => OneRunPerTree /\ LiveRunKeepsItsLease /\ LeaseTellsTheTruth /\ LeaseTypeOK
PROOF
  <1> SUFFICES ASSUME LeaseInv PROVE OneRunPerTree
    BY DEF LeaseInv, LeaseFacts, LeaseTables
  <1> SUFFICES ASSUME NEW l \in Leases, NEW m \in Leases, l # m, RootOf(l) = RootOf(m), IsIsolated(l),
                      teamRun[l] = "live", teamRun[m] = "live"
               PROVE  FALSE
    BY DEF OneRunPerTree
  <1>1. lease[l].state = "IN_USE" /\ lease[m].state = "IN_USE"
    BY DEF LeaseInv, LeaseFacts, LiveRunKeepsItsLease
  <1>2. ASSUME NEW c \in Continues, Source[c] \in Isolated, lease[c].state = "IN_USE"
        PROVE  /\ lease[Source[c]].state = "TRANSFERRED"
               /\ \A b \in Continues : Source[b] = Source[c] /\ lease[b].state = "IN_USE" => b = c
    BY <1>2 DEF LeaseInv, LeaseFacts
  <1>3. CASE l \in Continues
    BY <1>1, <1>2, <1>3, Roots
  <1>4. CASE m \in Continues
    BY <1>1, <1>2, <1>4, Roots DEF IsIsolated
  <1>5. CASE l \in Starts /\ m \in Starts
    BY <1>5, Roots
  <1> QED
    BY <1>3, <1>4, <1>5, Roots

(***************************************************************************)
(* Release                                                                 *)
(***************************************************************************)

CallStages == Holding \cup {"idle", "observe", "resume", "done", "others", "recover", "report", "claim", "dead"}
Pids == {<<>>} \cup (Processes \X Nat)
IntentRows == [phase : ReleasePhases, pid : Pids, token : Calls \cup {NoToken}, marked : BOOLEAN]
SomeOp == Ops \cup {NoToken}
CallRows ==
  [pc : CallStages, own : SomeOp, op : SomeOp, p : Processes \cup {NoToken}, pid : Pids, seen : IntentRows,
   result : {"none", "removed", "REMOVED", "REFUSED"}]
ReleaseRow ==
  [state : {"PRESERVED", "FAILED", "RELEASE_REQUESTED", "REMOVED", "TRANSFERRED"}, op : SomeOp, code : BOOLEAN]
SweeperRows ==
  [pc : {"idle", "lease", "actions", "settle"}, op : SomeOp, acts : SUBSET (Ops \X ReleasePhases)]

ReleaseTables ==
  /\ ws \in ReleaseRow /\ worktree \in {"clean", "dirty", "absent"} /\ lock \in SomeOp
  /\ intent \in [Ops -> IntentRows] /\ epoch \in [Processes -> Nat]
  /\ call \in [Calls -> CallRows] /\ sweeper \in SweeperRows

\* A call at work has an operation, and one about to end its release knows
\* how; what it has seen removed is gone.
CallOK(v) ==
  /\ v.pc \notin {"idle", "dead"} => v.own \in Ops /\ v.op \in Ops
  /\ v.pc = "persist" => v.result \in {"REMOVED", "REFUSED"}
  /\ v.result = "REMOVED" => worktree = "absent"
  /\ v.result = "removed" => ws.state = "REMOVED"

ReleaseInv ==
  /\ ReleaseTables
  /\ \A c \in Calls : CallOK(call[c])
  /\ ws.state = "REMOVED" => worktree = "absent"
  /\ \A o \in Ops : intent[o].phase = "REMOVED" => ws.state = "REMOVED"
  /\ TargetHasOneOwner
  /\ sweeper.pc = "lease" => sweeper.op \in Ops

LEMMA ReleaseInitially == ReleaseInit => ReleaseInv
PROOF
  <1> SUFFICES ASSUME ReleaseInit PROVE ReleaseInv
    OBVIOUS
  <1>1. NoRelease \in IntentRows /\ NoRelease.phase = "none"
    BY DEF NoRelease, IntentRows, ReleasePhases, Pids
  <1>2. call \in [Calls -> CallRows] /\ \A c \in Calls : call[c].pc = "idle" /\ call[c].result = "none"
    BY <1>1 DEF ReleaseInit, CallRows, CallStages, SomeOp, Pids
  <1>3. ReleaseTables
    BY <1>1, <1>2 DEF ReleaseInit, ReleaseTables, ReleaseRow, SomeOp, SweeperRows
  <1>4. \A c \in Calls : CallOK(call[c])
    BY <1>2 DEF CallOK
  <1>5. \A o \in Ops : intent[o].phase # "REMOVED"
    BY <1>1 DEF ReleaseInit
  <1> QED
    BY <1>3, <1>4, <1>5 DEF ReleaseInv, ReleaseInit, TargetHasOneOwner

\* The lease is not written back from REMOVED, nor the worktree from absent,
\* and nothing else of a call but its stage and result has to do with them.
LEMMA CallMoves ==
  ASSUME ReleaseInv, NEW c \in Calls, NEW v \in CallRows, call' = [call EXCEPT ![c] = v], CallOK(v)',
         ws.state = "REMOVED" => ws'.state = "REMOVED", worktree = "absent" => worktree' = "absent"
  PROVE  call' \in [Calls -> CallRows] /\ \A e \in Calls : CallOK(call[e])'
PROOF
  <1>1. call \in [Calls -> CallRows]
    BY DEF ReleaseInv, ReleaseTables
  <1>2. call' \in [Calls -> CallRows] /\ call'[c] = v /\ \A e \in Calls \ {c} : call'[e] = call[e]
    BY <1>1
  <1>3. ASSUME NEW e \in Calls PROVE CallOK(call[e])'
    <2>1. CASE e = c
      BY <1>2, <2>1 DEF CallOK
    <2>2. CASE e # c
      BY <1>2, <2>2 DEF CallOK, ReleaseInv
    <2> QED
      BY <2>1, <2>2
  <1> QED
    BY <1>2, <1>3

\* An operation is written: never as removed unless its lease is.
LEMMA IntentMoves ==
  ASSUME ReleaseInv, NEW o \in Ops, NEW row \in IntentRows, SetIntent(o, row),
         row.phase = "REMOVED" => ws'.state = "REMOVED", ws.state = "REMOVED" => ws'.state = "REMOVED"
  PROVE  intent' \in [Ops -> IntentRows] /\ \A x \in Ops : intent'[x].phase = "REMOVED" => ws'.state = "REMOVED"
PROOF
  BY DEF ReleaseInv, ReleaseTables, SetIntent

LEMMA FinalRows ==
  \A phase \in ReleasePhases : Final(phase) \in IntentRows /\ Final(phase).phase = phase
PROOF
  BY DEF Final, NoRelease, IntentRows, Pids

\* A step of call c to stage pc, that leaves lease, worktree and lock alone.
LEMMA StepKeeps ==
  ASSUME ReleaseInv, NEW c \in Calls, NEW pc \in CallStages \ {"persist"}, Step(c, pc),
         pc \in {"idle", "dead"} \/ (call[c].op \in Ops /\ call[c].own \in Ops),
         UNCHANGED <<ws, worktree, lock, epoch, sweeper>>,
         intent' \in [Ops -> IntentRows], \A x \in Ops : intent'[x].phase = "REMOVED" => ws.state = "REMOVED"
  PROVE  ReleaseInv'
PROOF
  <1>1. call[c] \in CallRows /\ CallOK(call[c]) /\ call \in [Calls -> CallRows]
    BY DEF ReleaseInv, ReleaseTables
  <1>2. PICK v \in CallRows : /\ v.pc = pc /\ v.own = call[c].own /\ v.op = call[c].op
                              /\ v.result = call[c].result /\ call' = [call EXCEPT ![c] = v]
    <2>1. [call[c] EXCEPT !.pc = pc] \in CallRows
      BY <1>1 DEF CallRows
    <2>2. call' = [call EXCEPT ![c] = [call[c] EXCEPT !.pc = pc]]
      BY <1>1 DEF Step
    <2> QED
      BY <1>1, <2>1, <2>2 DEF CallRows
  <1>3. CallOK(v)'
    BY <1>1, <1>2 DEF CallOK
  <1>4. call' \in [Calls -> CallRows] /\ \A e \in Calls : CallOK(call[e])'
    BY <1>2, <1>3, CallMoves
  <1> QED
    BY <1>4 DEF ReleaseInv, ReleaseTables, TargetHasOneOwner

\* The same with a result or an operation of its own.
LEMMA RowKeeps ==
  ASSUME ReleaseInv, NEW c \in Calls, NEW v \in CallRows, call' = [call EXCEPT ![c] = v], CallOK(v),
         UNCHANGED <<ws, worktree, lock, epoch, sweeper>>,
         intent' \in [Ops -> IntentRows], \A x \in Ops : intent'[x].phase = "REMOVED" => ws.state = "REMOVED"
  PROVE  ReleaseInv'
PROOF
  <1>1. CallOK(v)'
    BY DEF CallOK
  <1>4. call' \in [Calls -> CallRows] /\ \A e \in Calls : CallOK(call[e])'
    BY <1>1, CallMoves
  <1> QED
    BY <1>4 DEF ReleaseInv, ReleaseTables, TargetHasOneOwner

\* The end of a release: lease, lock and operation in one transaction.
LEMMA EndKeeps ==
  ASSUME ReleaseInv, NEW c \in Calls, NEW v \in CallRows, call' = [call EXCEPT ![c] = v], CallOK(v)',
         NEW state \in {"PRESERVED", "REMOVED"}, NEW code \in BOOLEAN, EndLease(state, code),
         ws.state = "RELEASE_REQUESTED", state = "REMOVED" => worktree = "absent",
         NEW o \in Ops, NEW phase \in ReleasePhases, SetIntent(o, Final(phase)), phase = "REMOVED" => state = "REMOVED",
         UNCHANGED <<worktree, epoch, sweeper>>
  PROVE  ReleaseInv'
PROOF
  <1>1. ws' \in ReleaseRow /\ ws'.state = state /\ ws'.op = NoToken /\ lock' = NoToken
    BY DEF EndLease, ReleaseRow, SomeOp
  <1>2. call' \in [Calls -> CallRows] /\ \A e \in Calls : CallOK(call[e])'
    BY CallMoves
  <1>3. intent' \in [Ops -> IntentRows] /\ \A x \in Ops : intent'[x].phase = "REMOVED" => ws'.state = "REMOVED"
    BY <1>1, FinalRows, IntentMoves
  <1>4. TargetHasOneOwner'
    BY <1>1 DEF TargetHasOneOwner
  <1> QED
    BY <1>1, <1>2, <1>3, <1>4 DEF ReleaseInv, ReleaseTables, SomeOp

\* What is known of a call at work.
LEMMA AtWork ==
  ASSUME ReleaseInv, NEW c \in Calls
  PROVE  /\ call[c] \in CallRows /\ CallOK(call[c]) /\ call \in [Calls -> CallRows]
         /\ call[c].pc \notin {"idle", "dead"} => call[c].own \in Ops /\ call[c].op \in Ops
         /\ intent \in [Ops -> IntentRows] /\ \A o \in Ops : intent[o] \in IntentRows
         /\ \A x \in Ops : intent[x].phase = "REMOVED" => ws.state = "REMOVED"
         /\ ws \in ReleaseRow
         /\ ws.state = "RELEASE_REQUESTED" <=> ws.op \in Ops
PROOF
  BY ReleaseAssumption DEF ReleaseInv, ReleaseTables, CallOK, TargetHasOneOwner, ReleaseRow, SomeOp

LEMMA RequestKeeps ==
  ASSUME ReleaseInv, NEW c \in Calls, NEW o \in Ops, NEW p \in Processes, Request(c, o, p)
  PROVE  ReleaseInv'
PROOF
  <1>1. PICK row \in IntentRows :
          /\ row = (IF intent[o].phase = "none" THEN Final("REQUESTED") ELSE intent[o])
          /\ row.phase = "REMOVED" => ws.state = "REMOVED"
    <2>1. "REQUESTED" \in ReleasePhases
      BY DEF ReleasePhases, Pending
    <2> QED
      BY <2>1, AtWork, FinalRows
  <1>2. PICK pc \in {"observe", "resume", "done"}, result \in {"removed", "none"} :
          /\ result = "removed" => ws.state = "REMOVED"
          /\ SetIntent(o, row)
          /\ call' = [call EXCEPT ![c] = [pc |-> pc, own |-> o, op |-> o, p |-> p, pid |-> Pid(p), seen |-> row,
                                          result |-> result]]
    <2> DEFINE goes == CASE row.phase \in Pending -> "observe"
                          [] row.phase = "INTERRUPTED" -> "resume"
                          [] OTHER -> "done"
               told == IF row.phase = "REMOVED" THEN "removed" ELSE "none"
    <2>1. goes \in {"observe", "resume", "done"}
      OBVIOUS
    <2>2. told \in {"removed", "none"} /\ (told = "removed" => ws.state = "REMOVED")
      BY <1>1
    <2>3. /\ SetIntent(o, row)
          /\ call' = [call EXCEPT ![c] = [pc |-> goes, own |-> o, op |-> o, p |-> p, pid |-> Pid(p), seen |-> row,
                                          result |-> told]]
      BY <1>1 DEF Request
    <2> HIDE DEF goes, told
    <2> QED
      BY <2>1, <2>2, <2>3
  <1>3. Pid(p) \in Pids
    BY DEF Pid, Pids, ReleaseInv, ReleaseTables
  <1>4. PICK v \in CallRows : /\ call' = [call EXCEPT ![c] = v] /\ v.own = o /\ v.op = o /\ v.pc # "persist"
                              /\ v.result = result
    <2>1. [pc |-> pc, own |-> o, op |-> o, p |-> p, pid |-> Pid(p), seen |-> row, result |-> result] \in CallRows
      BY <1>3 DEF CallRows, CallStages, SomeOp
    <2> QED
      BY <1>2, <2>1
  <1>5. CallOK(v)
    BY <1>2, <1>4 DEF CallOK
  <1>6. UNCHANGED <<ws, worktree, lock, epoch, sweeper>>
    BY DEF Request
  <1>7. intent' \in [Ops -> IntentRows] /\ \A x \in Ops : intent'[x].phase = "REMOVED" => ws'.state = "REMOVED"
    BY <1>1, <1>2, <1>6, IntentMoves
  <1> QED
    BY <1>4, <1>5, <1>6, <1>7, RowKeeps

LEMMA ResumeKeeps ==
  ASSUME ReleaseInv, NEW c \in Calls, Resume(c)
  PROVE  ReleaseInv'
PROOF
  <1>1. /\ call[c] \in CallRows /\ call \in [Calls -> CallRows] /\ call[c].own \in Ops /\ call[c].op \in Ops
        /\ UNCHANGED <<ws, worktree, lock, epoch, sweeper>> /\ CallOK(call[c])
    BY AtWork DEF Resume
  <1>2. CASE Step(c, "done") /\ UNCHANGED intent
    BY <1>1, <1>2, AtWork, StepKeeps DEF CallStages, Holding
  <1>3. CASE /\ SetIntent(call[c].own, Final("REQUESTED"))
             /\ call' = [call EXCEPT ![c].pc = "observe", ![c].seen = Final("REQUESTED")]
    <2>1. Final("REQUESTED") \in IntentRows /\ Final("REQUESTED").phase = "REQUESTED"
      BY FinalRows DEF ReleasePhases, Pending
    <2>2. PICK row \in IntentRows : row = Final("REQUESTED")
      BY <2>1
    <2>3. PICK v \in CallRows : v = [call[c] EXCEPT !.pc = "observe", !.seen = row]
      BY <1>1 DEF CallRows, CallStages, Holding
    <2>4. call' = [call EXCEPT ![c] = v]
      BY <1>1, <1>3, <2>2, <2>3
    <2>5. CallOK(v)
      BY <1>1, <2>3 DEF CallOK, CallRows
    <2>6. intent' \in [Ops -> IntentRows] /\ \A x \in Ops : intent'[x].phase = "REMOVED" => ws'.state = "REMOVED"
      BY <1>1, <1>3, <2>1, IntentMoves
    <2> QED
      BY <1>1, <2>4, <2>5, <2>6, RowKeeps
  <1> QED
    BY <1>2, <1>3 DEF Resume

\* A call goes to recover operation x.
LEMMA RecoveryKeeps ==
  ASSUME ReleaseInv, NEW c \in Calls, call[c].pc \notin {"idle", "dead"}, NEW x \in Ops,
         call' = [call EXCEPT ![c].pc = "recover", ![c].op = x],
         UNCHANGED <<ws, worktree, lock, intent, epoch, sweeper>>
  PROVE  ReleaseInv'
PROOF
  <1>1. call[c] \in CallRows /\ call \in [Calls -> CallRows] /\ call[c].own \in Ops /\ CallOK(call[c])
    BY AtWork
  <1>2. PICK v \in CallRows : v = [call[c] EXCEPT !.pc = "recover", !.op = x]
    BY <1>1 DEF CallRows, CallStages, Holding, SomeOp
  <1>3. call' = [call EXCEPT ![c] = v]
    BY <1>1, <1>2
  <1>4. CallOK(v)
    BY <1>1, <1>2 DEF CallOK, CallRows
  <1> QED
    BY <1>3, <1>4, AtWork, RowKeeps

\* A call reports that another release goes on.
LEMMA InProgressKeeps ==
  ASSUME ReleaseInv, NEW c \in Calls, call[c].pc \notin {"idle", "dead"},
         SetIntent(call[c].own, Final("IN_PROGRESS")), Step(c, "done"),
         UNCHANGED <<ws, worktree, lock, epoch, sweeper>>
  PROVE  ReleaseInv'
PROOF
  <1>1. call[c].own \in Ops /\ call[c].op \in Ops
    BY AtWork
  <1>2. Final("IN_PROGRESS") \in IntentRows /\ Final("IN_PROGRESS").phase = "IN_PROGRESS"
    BY FinalRows DEF ReleasePhases, Pending
  <1>3. intent' \in [Ops -> IntentRows] /\ \A x \in Ops : intent'[x].phase = "REMOVED" => ws'.state = "REMOVED"
    BY <1>1, <1>2, IntentMoves
  <1> QED
    BY <1>1, <1>3, StepKeeps DEF CallStages, Holding

LEMMA ObserveLeaseKeeps ==
  ASSUME ReleaseInv, NEW c \in Calls, ObserveLease(c)
  PROVE  ReleaseInv'
PROOF
  <1>1. /\ call[c] \in CallRows /\ call \in [Calls -> CallRows] /\ call[c].own \in Ops /\ call[c].op \in Ops
        /\ UNCHANGED <<ws, worktree, lock, epoch, sweeper>> /\ CallOK(call[c]) /\ call[c].pc \notin {"idle", "dead"}
    BY AtWork DEF ObserveLease
  <1>2. CASE /\ ws.state = "REMOVED"
             /\ intent' = [x \in Ops |-> IF x = call[c].own \/ x \in Others(c) THEN Final("REMOVED") ELSE intent[x]]
             /\ call' = [call EXCEPT ![c].pc = "done", ![c].result = "removed"]
    <2>1. Final("REMOVED") \in IntentRows
      BY FinalRows DEF ReleasePhases, Pending
    <2>2. intent' \in [Ops -> IntentRows]
      BY <1>2, <2>1, AtWork
    <2>3. PICK v \in CallRows : v = [call[c] EXCEPT !.pc = "done", !.result = "removed"]
      BY <1>1 DEF CallRows, CallStages, Holding
    <2>4. call' = [call EXCEPT ![c] = v]
      BY <1>1, <1>2, <2>3
    <2>5. CallOK(v)
      BY <1>1, <1>2, <2>3 DEF CallOK, CallRows
    <2> QED
      BY <1>1, <1>2, <2>2, <2>4, <2>5, RowKeeps
  <1>3. CASE /\ ws.state = "RELEASE_REQUESTED"
             /\ call' = [call EXCEPT ![c].pc = "recover", ![c].op = ws.op] /\ UNCHANGED intent
    <2>1. PICK x \in Ops : x = ws.op
      BY <1>3, AtWork
    <2> QED
      BY <1>1, <1>3, <2>1, RecoveryKeeps
  <1>4. CASE SetIntent(call[c].own, Final("IN_PROGRESS")) /\ Step(c, "done")
    BY <1>1, <1>4, InProgressKeeps
  <1>5. CASE Step(c, "others") /\ UNCHANGED intent
    BY <1>1, <1>5, AtWork, StepKeeps DEF CallStages, Holding
  <1> QED
    BY <1>2, <1>3, <1>4, <1>5 DEF ObserveLease

LEMMA ObserveOthersKeeps ==
  ASSUME ReleaseInv, NEW c \in Calls, ObserveOthers(c)
  PROVE  ReleaseInv'
PROOF
  <1>1. /\ call[c].own \in Ops /\ call[c].op \in Ops
        /\ UNCHANGED <<ws, worktree, lock, epoch, sweeper>> /\ call[c].pc \notin {"idle", "dead"}
    BY AtWork DEF ObserveOthers
  <1>2. \/ SetIntent(call[c].own, Final("IN_PROGRESS")) /\ Step(c, "done")
        \/ \E x \in Ops : call' = [call EXCEPT ![c].pc = "recover", ![c].op = x] /\ UNCHANGED intent
        \/ Step(c, "claim") /\ UNCHANGED intent
    BY DEF ObserveOthers, Others
  <1>3. CASE SetIntent(call[c].own, Final("IN_PROGRESS")) /\ Step(c, "done")
    BY <1>1, <1>3, InProgressKeeps
  <1>4. CASE \E x \in Ops : call' = [call EXCEPT ![c].pc = "recover", ![c].op = x] /\ UNCHANGED intent
    BY <1>1, <1>4, RecoveryKeeps
  <1>5. CASE Step(c, "claim") /\ UNCHANGED intent
    BY <1>1, <1>5, AtWork, StepKeeps DEF CallStages, Holding
  <1> QED
    BY <1>2, <1>3, <1>4, <1>5

LEMMA RecoverKeeps ==
  ASSUME ReleaseInv, NEW c \in Calls, Recover(c)
  PROVE  ReleaseInv'
PROOF
  <1>1. /\ call[c] \in CallRows /\ call \in [Calls -> CallRows] /\ call[c].own \in Ops
        /\ UNCHANGED <<worktree, epoch, sweeper>> /\ CallOK(call[c])
    BY AtWork DEF Recover
  <1>o. PICK o \in Ops : o = call[c].op
    BY AtWork DEF Recover
  <1>2. CASE Step(c, "report") /\ UNCHANGED <<ws, lock, intent>>
    BY <1>1, <1>2, <1>o, AtWork, StepKeeps DEF CallStages, Holding
  <1>3. CASE /\ ws.state = "RELEASE_REQUESTED" /\ worktree = "absent"
             /\ EndLease("REMOVED", FALSE) /\ SetIntent(o, Final("REMOVED")) /\ Step(c, "report")
    <2>1. PICK v \in CallRows : v = [call[c] EXCEPT !.pc = "report"]
      BY <1>1 DEF CallRows, CallStages, Holding
    <2>2. call' = [call EXCEPT ![c] = v]
      BY <1>1, <1>3, <2>1 DEF Step
    <2>3. ws'.state = "REMOVED"
      BY <1>3 DEF EndLease
    <2>4. CallOK(v)'
      BY <1>1, <1>3, <1>o, <2>1, <2>3 DEF CallOK, CallRows
    <2>5. "REMOVED" \in ReleasePhases /\ "REMOVED" \in {"PRESERVED", "REMOVED"}
      BY DEF ReleasePhases, Pending
    <2> QED
      BY <1>1, <1>3, <2>2, <2>4, <2>5, EndKeeps
  <1>4. CASE call' = [call EXCEPT ![c].pc = "claim", ![c].seen = intent[o]] /\ UNCHANGED <<ws, lock, intent>>
    <2>1. PICK row \in IntentRows : row = intent[o]
      BY AtWork
    <2>2. PICK v \in CallRows : v = [call[c] EXCEPT !.pc = "claim", !.seen = row]
      BY <1>1, <2>1 DEF CallRows, CallStages, Holding
    <2>3. call' = [call EXCEPT ![c] = v]
      BY <1>1, <1>4, <2>1, <2>2
    <2>4. CallOK(v)
      BY <1>1, <1>o, <2>2 DEF CallOK, CallRows
    <2> QED
      BY <1>1, <1>4, <2>3, <2>4, AtWork, RowKeeps
  <1> QED
    BY <1>2, <1>3, <1>4, <1>o DEF Recover

LEMMA ClaimKeeps ==
  ASSUME ReleaseInv, NEW c \in Calls, Claim(c)
  PROVE  ReleaseInv'
PROOF
  <1>1. /\ call[c] \in CallRows /\ call[c].own \in Ops /\ call[c].op \in Ops
        /\ UNCHANGED <<ws, worktree, lock, epoch, sweeper>>
    BY AtWork DEF Claim
  <1>2. PICK pc \in {"enter", "reobserve", "done", "report"} : Step(c, pc)
    BY DEF Claim
  <1>3. \/ UNCHANGED intent
        \/ SetIntent(call[c].op, [phase |-> "EXECUTING", pid |-> call[c].pid, token |-> c, marked |-> FALSE])
    BY DEF Claim
  <1>4. intent' \in [Ops -> IntentRows] /\ \A x \in Ops : intent'[x].phase = "REMOVED" => ws'.state = "REMOVED"
    <2>1. CASE UNCHANGED intent
      BY <1>1, <2>1, AtWork
    <2>2. CASE SetIntent(call[c].op, [phase |-> "EXECUTING", pid |-> call[c].pid, token |-> c, marked |-> FALSE])
      <3>1. PICK row \in IntentRows : row = [phase |-> "EXECUTING", pid |-> call[c].pid, token |-> c, marked |-> FALSE]
        BY <1>1 DEF IntentRows, CallRows, ReleasePhases, Pending
      <3> QED
        BY <1>1, <2>2, <3>1, IntentMoves
    <2> QED
      BY <1>3, <2>1, <2>2
  <1>5. pc \in CallStages \ {"persist"}
    BY DEF CallStages, Holding
  <1> QED
    BY <1>1, <1>2, <1>4, <1>5, StepKeeps

\* A call goes on to another stage, with a result it may have.
LEMMA ResultKeeps ==
  ASSUME ReleaseInv, NEW c \in Calls, call[c].pc \notin {"idle", "dead"},
         NEW pc \in CallStages, NEW result \in {"none", "removed", "REMOVED", "REFUSED"},
         call' = [call EXCEPT ![c].pc = pc, ![c].result = result],
         pc = "persist" => result \in {"REMOVED", "REFUSED"},
         result = "REMOVED" => worktree = "absent", result = "removed" => ws.state = "REMOVED",
         UNCHANGED <<ws, worktree, lock, intent, epoch, sweeper>>
  PROVE  ReleaseInv'
PROOF
  <1>1. call[c] \in CallRows /\ call \in [Calls -> CallRows] /\ CallOK(call[c])
        /\ call[c].own \in Ops /\ call[c].op \in Ops
    BY AtWork
  <1>2. PICK v \in CallRows : v = [call[c] EXCEPT !.pc = pc, !.result = result]
    BY <1>1 DEF CallRows
  <1>3. call' = [call EXCEPT ![c] = v]
    BY <1>1, <1>2
  <1>4. CallOK(v)
    BY <1>1, <1>2 DEF CallOK, CallRows
  <1> QED
    BY <1>3, <1>4, AtWork, RowKeeps

LEMMA ReobserveKeeps ==
  ASSUME ReleaseInv, NEW c \in Calls, Reobserve(c)
  PROVE  ReleaseInv'
PROOF
  <1>1. /\ call[c].pc \notin {"idle", "dead"} /\ call[c].own \in Ops /\ call[c].op \in Ops
        /\ UNCHANGED <<ws, worktree, lock, intent, epoch, sweeper>>
    BY AtWork DEF Reobserve
  <1>2. CASE Step(c, "enter")
    BY <1>1, <1>2, AtWork, StepKeeps DEF CallStages, Holding
  <1>3. CASE /\ worktree = "absent" \/ ws.state = "REMOVED"
             /\ call' = [call EXCEPT ![c].pc = "persist", ![c].result = "REMOVED"]
    <2>1. worktree = "absent"
      BY <1>3 DEF ReleaseInv
    <2> QED
      BY <1>1, <1>3, <2>1, ResultKeeps DEF CallStages, Holding
  <1> QED
    BY <1>2, <1>3 DEF Reobserve

LEMMA EnterKeeps ==
  ASSUME ReleaseInv, NEW c \in Calls, Enter(c)
  PROVE  ReleaseInv'
PROOF
  <1>1. /\ call[c].own \in Ops /\ call[c].op \in Ops
        /\ UNCHANGED <<ws, worktree, lock, intent, epoch, sweeper>>
    BY AtWork DEF Enter
  <1>2. PICK pc \in {"lost", "authorise", "acquire", "not releasable"} : Step(c, pc)
    BY DEF Enter
  <1> QED
    BY <1>1, <1>2, AtWork, StepKeeps DEF CallStages, Holding

LEMMA AcquireKeeps ==
  ASSUME ReleaseInv, NEW c \in Calls, Acquire(c)
  PROVE  ReleaseInv'
PROOF
  <1>1. /\ call[c] \in CallRows /\ call[c].pc \notin {"idle", "dead"} /\ call[c].own \in Ops /\ CallOK(call[c])
        /\ UNCHANGED <<worktree, intent, epoch, sweeper>> /\ call \in [Calls -> CallRows]
    BY AtWork DEF Acquire
  <1>o. PICK o \in Ops : o = call[c].op
    BY AtWork DEF Acquire
  <1>2. CASE /\ ws.state \in {"PRESERVED", "FAILED"}
             /\ ws' = [state |-> "RELEASE_REQUESTED", op |-> o, code |-> FALSE]
             /\ lock' = o /\ Step(c, "authorise")
    <2>1. PICK v \in CallRows : v = [call[c] EXCEPT !.pc = "authorise"]
      BY <1>1 DEF CallRows, CallStages, Holding
    <2>2. call' = [call EXCEPT ![c] = v]
      BY <1>1, <1>2, <2>1 DEF Step
    <2>3. CallOK(v)'
      BY <1>1, <1>2, <1>o, <2>1 DEF CallOK, CallRows
    <2>4. call' \in [Calls -> CallRows] /\ \A e \in Calls : CallOK(call[e])'
      BY <1>1, <1>2, <2>2, <2>3, CallMoves
    <2>5. ws' \in ReleaseRow /\ lock' \in SomeOp /\ TargetHasOneOwner'
      BY <1>2, ReleaseAssumption DEF ReleaseRow, SomeOp, TargetHasOneOwner
    <2> QED
      BY <1>1, <1>2, <2>4, <2>5 DEF ReleaseInv, ReleaseTables
  <1>3. CASE UNCHANGED <<ws, lock>> /\ \E pc \in {"lost", "not releasable"} : Step(c, pc)
    BY <1>1, <1>3, <1>o, AtWork, StepKeeps DEF CallStages, Holding
  <1>4. CASE /\ UNCHANGED <<ws, lock>>
             /\ \E pc \in {"authorise", "lost", "done", "report", "not releasable"} :
                  call' = [call EXCEPT ![c].pc = pc, ![c].result = IF ws.state = "REMOVED" THEN "removed" ELSE @]
    <2>1. PICK pc \in {"authorise", "lost", "done", "report", "not releasable"} :
                  call' = [call EXCEPT ![c].pc = pc, ![c].result = IF ws.state = "REMOVED" THEN "removed" ELSE @]
      BY <1>4
    <2>2. PICK result \in {"none", "removed", "REMOVED", "REFUSED"} :
            result = (IF ws.state = "REMOVED" THEN "removed" ELSE call[c].result)
      BY <1>1 DEF CallRows
    <2>3. call' = [call EXCEPT ![c].pc = pc, ![c].result = result]
      BY <1>1, <2>1, <2>2 DEF CallRows
    <2>4. (result = "REMOVED" => worktree = "absent") /\ (result = "removed" => ws.state = "REMOVED")
      BY <1>1, <2>2 DEF CallOK
    <2>5. pc \in CallStages /\ pc # "persist"
      BY DEF CallStages, Holding
    <2> QED
      BY <1>1, <1>4, <2>3, <2>4, <2>5, ResultKeeps
  <1>5. ASSUME /\ UNCHANGED <<ws, lock>>
               /\ call' = [call EXCEPT
                    ![c].pc = CASE ws.state = "RELEASE_REQUESTED" /\ ws.op = o -> "authorise"
                                [] ws.state = "RELEASE_REQUESTED" /\ ws.op # o -> "lost"
                                [] ws.state = "REMOVED" /\ Drives(c) -> "done"
                                [] ws.state = "REMOVED" /\ ~Drives(c) -> "report"
                                [] OTHER -> "not releasable",
                    ![c].result = IF ws.state = "REMOVED" THEN "removed" ELSE @]
        PROVE  ReleaseInv'
    <2> DEFINE pc == CASE ws.state = "RELEASE_REQUESTED" /\ ws.op = o -> "authorise"
                       [] ws.state = "RELEASE_REQUESTED" /\ ws.op # o -> "lost"
                       [] ws.state = "REMOVED" /\ Drives(c) -> "done"
                       [] ws.state = "REMOVED" /\ ~Drives(c) -> "report"
                       [] OTHER -> "not releasable"
    <2>1. pc \in {"authorise", "lost", "done", "report", "not releasable"}
      BY Zenon
    <2> HIDE DEF pc
    <2>2. call' = [call EXCEPT ![c].pc = pc, ![c].result = IF ws.state = "REMOVED" THEN "removed" ELSE @]
      BY <1>5 DEF pc
    <2> QED
      BY <1>4, <1>5, <2>1, <2>2
  <1>6. \/ /\ ws.state \in {"PRESERVED", "FAILED"}
           /\ ws' = [state |-> "RELEASE_REQUESTED", op |-> o, code |-> FALSE]
           /\ lock' = o /\ Step(c, "authorise")
        \/ UNCHANGED <<ws, lock>> /\ \E pc \in {"lost", "not releasable"} : Step(c, pc)
        \/ /\ UNCHANGED <<ws, lock>>
           /\ call' = [call EXCEPT
                ![c].pc = CASE ws.state = "RELEASE_REQUESTED" /\ ws.op = o -> "authorise"
                            [] ws.state = "RELEASE_REQUESTED" /\ ws.op # o -> "lost"
                            [] ws.state = "REMOVED" /\ Drives(c) -> "done"
                            [] ws.state = "REMOVED" /\ ~Drives(c) -> "report"
                            [] OTHER -> "not releasable",
                ![c].result = IF ws.state = "REMOVED" THEN "removed" ELSE @]
    BY <1>o DEF Acquire
  <1> QED
    BY <1>2, <1>3, <1>5, <1>6

LEMMA AuthoriseKeeps ==
  ASSUME ReleaseInv, NEW c \in Calls, Authorise(c)
  PROVE  ReleaseInv'
PROOF
  <1>1. /\ call[c] \in CallRows /\ call[c].pc \notin {"idle", "dead"} /\ CallOK(call[c])
        /\ UNCHANGED <<ws, worktree, lock, intent, epoch, sweeper>> /\ call \in [Calls -> CallRows]
    BY AtWork DEF Authorise
  <1>2. PICK pc \in {"git", "persist"}, result \in {"none", "removed", "REMOVED", "REFUSED"} :
          /\ call' = [call EXCEPT ![c].pc = pc, ![c].result = result]
          /\ pc = "persist" => result = "REFUSED"
          /\ result \in {call[c].result, "REFUSED"}
    <2>1. call[c].result \in {"none", "removed", "REMOVED", "REFUSED"}
      BY <1>1 DEF CallRows
    <2>2. CASE Authorised(c)
      <3>1. call' = [call EXCEPT ![c].pc = "git", ![c].result = call[c].result]
        BY <1>1, <2>2 DEF Authorise, CallRows
      <3> QED
        BY <2>1, <3>1
    <2>3. CASE ~Authorised(c)
      <3>1. call' = [call EXCEPT ![c].pc = "persist", ![c].result = "REFUSED"]
        BY <1>1, <2>3 DEF Authorise
      <3> QED
        BY <3>1
    <2> QED
      BY <2>2, <2>3
  <1>3. pc \in CallStages
    BY DEF CallStages, Holding
  <1>4. (result = "REMOVED" => worktree = "absent") /\ (result = "removed" => ws.state = "REMOVED")
    BY <1>1, <1>2 DEF CallOK
  <1> QED
    BY <1>1, <1>2, <1>3, <1>4, ResultKeeps

\* git removes a clean worktree, or refuses.
LEMMA GitKeeps ==
  ASSUME ReleaseInv, NEW c \in Calls, Git(c)
  PROVE  ReleaseInv'
PROOF
  <1>1. /\ call[c] \in CallRows /\ call[c].pc \notin {"idle", "dead"} /\ CallOK(call[c])
        /\ UNCHANGED <<ws, lock, intent, epoch, sweeper>> /\ call \in [Calls -> CallRows]
        /\ call[c].own \in Ops /\ call[c].op \in Ops
    BY AtWork DEF Git
  <1>2. PICK result \in {"REMOVED", "REFUSED"} :
          /\ call' = [call EXCEPT ![c].pc = "persist", ![c].result = result]
          /\ result = "REMOVED" => worktree' = "absent"
          /\ worktree' = "absent" \/ UNCHANGED worktree
    BY DEF Git
  <1>3. PICK v \in CallRows : v = [call[c] EXCEPT !.pc = "persist", !.result = result]
    BY <1>1 DEF CallRows, CallStages, Holding
  <1>4. call' = [call EXCEPT ![c] = v]
    BY <1>1, <1>2, <1>3
  <1>5. CallOK(v)'
    BY <1>1, <1>2, <1>3 DEF CallOK, CallRows
  <1>6. call' \in [Calls -> CallRows] /\ \A e \in Calls : CallOK(call[e])'
    BY <1>1, <1>2, <1>4, <1>5, CallMoves
  <1> QED
    BY <1>1, <1>2, <1>6 DEF ReleaseInv, ReleaseTables, TargetHasOneOwner

LEMMA PersistKeeps ==
  ASSUME ReleaseInv, NEW c \in Calls, Persist(c)
  PROVE  ReleaseInv'
PROOF
  <1>1. /\ call[c] \in CallRows /\ call[c].pc = "persist" /\ CallOK(call[c])
        /\ UNCHANGED <<worktree, epoch, sweeper>> /\ call \in [Calls -> CallRows] /\ call[c].own \in Ops
    BY AtWork DEF Persist
  <1>o. PICK o \in Ops, was \in {"REMOVED", "REFUSED"} :
          o = call[c].op /\ was = call[c].result /\ (was = "REMOVED" => worktree = "absent")
    BY <1>1, AtWork DEF CallOK
  <1>2. CASE /\ MayPersist(c)
             /\ EndLease(IF was = "REMOVED" THEN "REMOVED" ELSE "PRESERVED", was = "REFUSED")
             /\ SetIntent(o, Final(was))
             /\ call' = [call EXCEPT
                  ![c].pc = IF Drives(c) THEN "done" ELSE "report",
                  ![c].result = IF @ = "REMOVED" THEN "removed" ELSE "none"]
    <2>1. ws.state = "RELEASE_REQUESTED"
      BY <1>2, <1>o, AtWork DEF MayPersist
    <2>2. PICK state \in {"PRESERVED", "REMOVED"}, code \in BOOLEAN :
            EndLease(state, code) /\ (state = "REMOVED" <=> was = "REMOVED")
      <3>1. CASE was = "REMOVED"
        BY <1>2, <3>1
      <3>2. CASE was = "REFUSED"
        BY <1>2, <3>2
      <3> QED
        BY <3>1, <3>2
    <2>3. PICK pc \in {"done", "report"} : pc = IF Drives(c) THEN "done" ELSE "report"
      OBVIOUS
    <2>4. PICK result \in {"removed", "none"} : result = IF was = "REMOVED" THEN "removed" ELSE "none"
      OBVIOUS
    <2>5. PICK v \in CallRows : v = [call[c] EXCEPT !.pc = pc, !.result = result]
      BY <1>1 DEF CallRows, CallStages, Holding
    <2>6. call' = [call EXCEPT ![c] = v]
      BY <1>1, <1>2, <1>o, <2>3, <2>4, <2>5 DEF CallRows
    <2>7. ws'.state = state
      BY <2>2 DEF EndLease
    <2>8. CallOK(v)'
      BY <1>1, <1>o, <2>2, <2>4, <2>5, <2>7 DEF CallOK, CallRows
    <2>9. was \in ReleasePhases
      BY DEF ReleasePhases, Pending
    <2> QED
      BY <1>1, <1>2, <1>o, <2>1, <2>2, <2>6, <2>8, <2>9, EndKeeps
  <1>3. CASE /\ call' = [call EXCEPT ![c].pc = IF MayPersist(c) THEN "failed" ELSE "lost", ![c].result = "none"]
             /\ UNCHANGED <<ws, lock, intent>>
    <2>1. PICK pc \in {"failed", "lost"} : pc = IF MayPersist(c) THEN "failed" ELSE "lost"
      OBVIOUS
    <2>2. pc \in CallStages /\ pc # "persist"
      BY DEF CallStages, Holding
    <2> QED
      BY <1>1, <1>3, <2>1, <2>2, ResultKeeps
  <1> QED
    BY <1>2, <1>3, <1>o DEF Persist

\* What the rows say became of an operation is never a removal that did not
\* happen.
LEMMA TruthIsTrue ==
  ASSUME ReleaseInv, NEW o \in Ops
  PROVE  Truth(o) \in ReleasePhases /\ (Truth(o) = "REMOVED" => ws.state = "REMOVED")
PROOF
  <1>1. Truth(o) = "REMOVED" => ws.state = "REMOVED" \/ intent[o].phase = "REMOVED"
    BY DEF Truth
  <1>2. Truth(o) \in {"REMOVED", "REFUSED", "INTERRUPTED", "IN_PROGRESS"}
    BY DEF Truth
  <1> QED
    BY <1>1, <1>2, AtWork DEF ReleasePhases, Pending, ReleaseInv

LEMMA LeaveKeeps ==
  ASSUME ReleaseInv, NEW c \in Calls, Leave(c)
  PROVE  ReleaseInv'
PROOF
  <1>1. /\ call[c] \in CallRows /\ call[c].own \in Ops
        /\ UNCHANGED <<ws, worktree, lock, epoch, sweeper>>
    BY AtWork DEF Leave
  <1>o. PICK o \in Ops : o = call[c].op
    BY AtWork DEF Leave
  <1>2. PICK pc \in {"done", "report"} : Step(c, pc)
    BY DEF Leave
  <1>3. intent' \in [Ops -> IntentRows] /\ \A x \in Ops : intent'[x].phase = "REMOVED" => ws.state = "REMOVED"
    <2>1. CASE UNCHANGED intent
      BY <2>1, AtWork
    <2>2. ASSUME NEW row \in IntentRows, SetIntent(o, row), row.phase = "REMOVED" => ws.state = "REMOVED"
          PROVE  intent' \in [Ops -> IntentRows] /\ \A x \in Ops : intent'[x].phase = "REMOVED" => ws.state = "REMOVED"
      BY <1>1, <2>2, IntentMoves
    <2>3. CASE SetIntent(o, Final("REFUSED"))
      <3>1. "REFUSED" \in ReleasePhases
        BY DEF ReleasePhases
      <3> QED
        BY <2>2, <2>3, <3>1, FinalRows
    <2>4. CASE SetIntent(o, Marked(c))
      <3>1. Marked(c) \in IntentRows /\ Marked(c).phase = "REQUESTED"
        BY <1>1, <1>o, AtWork DEF Marked, IntentRows, CallRows, ReleasePhases, Pending
      <3> QED
        BY <2>2, <2>4, <3>1
    <2>5. CASE SetIntent(o, Final(IF ws.state \in {"REMOVED", "PRESERVED"} /\ Truth(o) # "IN_PROGRESS"
                                  THEN Truth(o) ELSE "INTERRUPTED"))
      <3>1. PICK phase \in ReleasePhases : /\ SetIntent(o, Final(phase)) /\ (phase = "REMOVED" => ws.state = "REMOVED")
        BY <2>5, TruthIsTrue DEF ReleasePhases
      <3> QED
        BY <2>2, <3>1, FinalRows
    <2> QED
      BY <1>o, <2>1, <2>3, <2>4, <2>5 DEF Leave
  <1>4. pc \in CallStages \ {"persist"}
    BY DEF CallStages, Holding
  <1> QED
    BY <1>1, <1>o, <1>2, <1>3, <1>4, StepKeeps

LEMMA ReportKeeps ==
  ASSUME ReleaseInv, NEW c \in Calls, Report(c)
  PROVE  ReleaseInv'
PROOF
  <1>1. /\ call[c] \in CallRows /\ call \in [Calls -> CallRows] /\ call[c].own \in Ops /\ call[c].op \in Ops
        /\ UNCHANGED <<ws, worktree, lock, epoch, sweeper>> /\ CallOK(call[c])
    BY AtWork DEF Report
  <1>2. PICK phase \in ReleasePhases : phase = Truth(call[c].op) /\ (phase = "REMOVED" => ws.state = "REMOVED")
    BY <1>1, TruthIsTrue
  <1>3. intent' \in [Ops -> IntentRows] /\ \A x \in Ops : intent'[x].phase = "REMOVED" => ws.state = "REMOVED"
    BY <1>1, <1>2, FinalRows, IntentMoves DEF Report
  <1>4. PICK result \in {"removed", "none"} : result = IF phase = "REMOVED" THEN "removed" ELSE "none"
    OBVIOUS
  <1>5. PICK v \in CallRows : v = [call[c] EXCEPT !.pc = "done", !.result = result]
    BY <1>1 DEF CallRows, CallStages, Holding
  <1>6. call' = [call EXCEPT ![c] = v]
    BY <1>1, <1>2, <1>4, <1>5 DEF Report
  <1>7. CallOK(v)
    BY <1>1, <1>2, <1>4, <1>5 DEF CallOK, CallRows
  <1> QED
    BY <1>1, <1>3, <1>6, <1>7, RowKeeps

-----------------------------------------------------------------------------
\* A step that moves no call and takes nothing back.
LEMMA CallsRest ==
  ASSUME ReleaseInv, UNCHANGED call, ws.state = "REMOVED" => ws'.state = "REMOVED",
         worktree = "absent" => worktree' = "absent"
  PROVE  call' \in [Calls -> CallRows] /\ \A c \in Calls : CallOK(call[c])'
PROOF
  BY DEF ReleaseInv, ReleaseTables, CallOK

LEMMA SweepLocksKeeps ==
  ASSUME ReleaseInv, SweepLocks
  PROVE  ReleaseInv'
PROOF
  <1>1. UNCHANGED <<ws, worktree, intent, epoch, call>>
    BY DEF SweepLocks
  <1>2. call' \in [Calls -> CallRows] /\ \A c \in Calls : CallOK(call[c])'
    BY <1>1, CallsRest
  <1>3. lock' = lock
    BY DEF SweepLocks, ReleaseInv, TargetHasOneOwner
  <1>4. sweeper' \in SweeperRows /\ (sweeper'.pc = "lease" => sweeper'.op \in Ops)
    <2>1. ws.op \in SomeOp /\ (ws.state = "RELEASE_REQUESTED" => ws.op \in Ops)
      BY ReleaseAssumption DEF ReleaseInv, ReleaseTables, ReleaseRow, TargetHasOneOwner, SomeOp
    <2> QED
      BY <2>1 DEF SweepLocks, SweeperRows
  <1> QED
    BY <1>1, <1>2, <1>3, <1>4 DEF ReleaseInv, ReleaseTables, TargetHasOneOwner

LEMMA SweepLeaseKeeps ==
  ASSUME ReleaseInv, SweepLease
  PROVE  ReleaseInv'
PROOF
  <1>1. /\ UNCHANGED <<worktree, intent, epoch, call>> /\ sweeper.op \in Ops
        /\ sweeper' \in SweeperRows /\ sweeper'.pc = "actions"
    BY DEF SweepLease, ReleaseInv, ReleaseTables, SweeperRows
  <1>2. CASE UNCHANGED <<ws, lock>>
    <2>1. call' \in [Calls -> CallRows] /\ \A c \in Calls : CallOK(call[c])'
      BY <1>1, <1>2, CallsRest
    <2> QED
      BY <1>1, <1>2, <2>1 DEF ReleaseInv, ReleaseTables, TargetHasOneOwner
  <1>3. CASE ~UNCHANGED <<ws, lock>>
    <2>1. PICK state \in {"PRESERVED", "REMOVED"}, code \in BOOLEAN :
            EndLease(state, code) /\ ws.op = sweeper.op /\ (state = "REMOVED" => worktree = "absent")
      <3> DEFINE end == CASE ~IsPending(sweeper.op) -> "PRESERVED"
                          [] IsPending(sweeper.op) /\ worktree = "absent" -> "REMOVED"
                          [] OTHER -> "keep"
      <3>1. end # "keep" /\ ws.op = sweeper.op /\ EndLease(end, end = "PRESERVED")
        BY <1>3 DEF SweepLease
      <3>2. end \in {"PRESERVED", "REMOVED", "keep"} /\ (end = "REMOVED" => worktree = "absent")
        OBVIOUS
      <3>3. (end = "PRESERVED") \in BOOLEAN
        OBVIOUS
      <3> HIDE DEF end
      <3> QED
        BY <3>1, <3>2, <3>3
    <2>2. ws.state = "RELEASE_REQUESTED"
      BY <1>1, <2>1, ReleaseAssumption DEF ReleaseInv, TargetHasOneOwner
    <2>3. /\ ws' \in ReleaseRow /\ ws'.state = state /\ lock' \in SomeOp /\ TargetHasOneOwner'
      BY <2>1 DEF EndLease, ReleaseRow, SomeOp, TargetHasOneOwner
    <2>4. call' \in [Calls -> CallRows] /\ \A c \in Calls : CallOK(call[c])'
      BY <1>1, <2>2, CallsRest
    <2> QED
      BY <1>1, <2>1, <2>2, <2>3, <2>4 DEF ReleaseInv, ReleaseTables
  <1> QED
    BY <1>2, <1>3

LEMMA SweepListKeeps ==
  ASSUME ReleaseInv, SweepList
  PROVE  ReleaseInv'
PROOF
  <1>1. UNCHANGED <<ws, worktree, lock, intent, epoch, call>>
    BY DEF SweepList
  <1>2. {<<o, intent[o].phase>> : o \in {x \in Ops : IsPending(x)}} \in SUBSET (Ops \X ReleasePhases)
    BY DEF ReleaseInv, ReleaseTables, IntentRows
  <1>3. sweeper' \in SweeperRows /\ sweeper'.pc = "settle"
    BY <1>2 DEF SweepList, ReleaseInv, ReleaseTables, SweeperRows
  <1>4. call' \in [Calls -> CallRows] /\ \A c \in Calls : CallOK(call[c])'
    BY <1>1, CallsRest
  <1> QED
    BY <1>1, <1>3, <1>4 DEF ReleaseInv, ReleaseTables, TargetHasOneOwner

LEMMA SweepActionKeeps ==
  ASSUME ReleaseInv, SweepAction
  PROVE  ReleaseInv'
PROOF
  <1>1. UNCHANGED <<ws, worktree, lock, epoch, call>>
    BY DEF SweepAction
  <1>2. sweeper' \in SweeperRows /\ sweeper'.pc # "lease"
    <2>1. sweeper \in SweeperRows /\ sweeper.pc = "settle"
      BY DEF SweepAction, ReleaseInv, ReleaseTables
    <2>2. \/ \E a \in sweeper.acts : sweeper' = [sweeper EXCEPT !.acts = @ \ {a}]
          \/ sweeper' = [pc |-> "idle", op |-> NoToken, acts |-> {}]
      BY DEF SweepAction
    <2> QED
      BY <2>1, <2>2 DEF SweeperRows, SomeOp
  <1>3. intent' \in [Ops -> IntentRows] /\ \A x \in Ops : intent'[x].phase = "REMOVED" => ws'.state = "REMOVED"
    <2>1. CASE UNCHANGED intent
      BY <1>1, <2>1 DEF ReleaseInv, ReleaseTables
    <2>2. CASE intent' # intent
      <3>1. PICK a \in sweeper.acts : LET end == SettledPhase(a[1], a[2])
                                      IN end # "keep" /\ SetIntent(a[1], Final(end))
        BY <2>2 DEF SweepAction
      <3>2. a[1] \in Ops
        BY <3>1 DEF ReleaseInv, ReleaseTables, SweeperRows
      <3>3. ws.state \in {"PRESERVED", "FAILED", "RELEASE_REQUESTED", "REMOVED", "TRANSFERRED"}
        BY DEF ReleaseInv, ReleaseTables, ReleaseRow
      <3>4. /\ SettledPhase(a[1], a[2]) \in {"REMOVED", "OTHER", "REFUSED", "keep", "INTERRUPTED"}
            /\ SettledPhase(a[1], a[2]) = "REMOVED" => ws.state = "REMOVED"
        BY <3>3 DEF SettledPhase
      <3>5. PICK phase \in ReleasePhases : SetIntent(a[1], Final(phase)) /\ (phase = "REMOVED" => ws.state = "REMOVED")
        BY <3>1, <3>4 DEF ReleasePhases, Pending
      <3> QED
        BY <1>1, <3>2, <3>5, FinalRows, IntentMoves
    <2> QED
      BY <2>1, <2>2
  <1>4. call' \in [Calls -> CallRows] /\ \A c \in Calls : CallOK(call[c])'
    BY <1>1, CallsRest
  <1> QED
    BY <1>1, <1>2, <1>3, <1>4 DEF ReleaseInv, ReleaseTables, TargetHasOneOwner

LEMMA TransferKeeps ==
  ASSUME ReleaseInv, Transfer
  PROVE  ReleaseInv'
PROOF
  <1>1. UNCHANGED <<worktree, lock, intent, epoch, call, sweeper>> /\ ws.state = "PRESERVED"
    BY DEF Transfer
  <1>2. ws' \in ReleaseRow /\ ws'.state = "TRANSFERRED" /\ ws'.op = ws.op
    BY DEF Transfer, ReleaseInv, ReleaseTables, ReleaseRow
  <1>3. call' \in [Calls -> CallRows] /\ \A c \in Calls : CallOK(call[c])'
    BY <1>1, CallsRest
  <1> QED
    BY <1>1, <1>2, <1>3 DEF ReleaseInv, ReleaseTables, TargetHasOneOwner

LEMMA InspectKeeps ==
  ASSUME ReleaseInv, Inspect
  PROVE  ReleaseInv'
PROOF
  <1>1. UNCHANGED <<ws, lock, intent, epoch, call, sweeper>> /\ worktree = "clean" /\ worktree' = "dirty"
    BY DEF Inspect
  <1>2. call' \in [Calls -> CallRows] /\ \A c \in Calls : CallOK(call[c])'
    BY <1>1, CallsRest
  <1> QED
    BY <1>1, <1>2 DEF ReleaseInv, ReleaseTables, TargetHasOneOwner

LEMMA RestartKeeps ==
  ASSUME ReleaseInv, NEW p \in Processes, RestartProcess(p)
  PROVE  ReleaseInv'
PROOF
  <1>1. UNCHANGED <<ws, worktree, lock, intent, sweeper>> /\ epoch' \in [Processes -> Nat]
    BY DEF RestartProcess, ReleaseInv, ReleaseTables
  <1>2. ASSUME NEW c \in Calls PROVE call'[c] \in CallRows /\ CallOK(call[c])'
    <2>1. call[c] \in CallRows /\ CallOK(call[c])
      BY AtWork
    <2>2. call'[c] = call[c] \/ call'[c] = [call[c] EXCEPT !.pc = "dead"]
      BY DEF RestartProcess
    <2>3. CASE call'[c] = call[c]
      BY <1>1, <2>1, <2>3 DEF CallOK
    <2>4. CASE call'[c] = [call[c] EXCEPT !.pc = "dead"]
      <3>1. /\ call'[c] \in CallRows /\ call'[c].pc = "dead" /\ call'[c].result = call[c].result
        BY <2>1, <2>4 DEF CallRows, CallStages
      <3> QED
        BY <1>1, <2>1, <3>1 DEF CallOK
    <2> QED
      BY <2>2, <2>3, <2>4
  <1>3. call' \in [Calls -> CallRows]
    BY <1>2 DEF RestartProcess
  <1> QED
    BY <1>1, <1>2, <1>3 DEF ReleaseInv, ReleaseTables, TargetHasOneOwner

LEMMA ReleaseStep ==
  ASSUME ReleaseInv, [ReleaseNext]_releaseVars
  PROVE  ReleaseInv'
PROOF
  <1>1. ASSUME NEW c \in Calls, CallStep(c) PROVE ReleaseInv'
    BY <1>1, ResumeKeeps, ObserveLeaseKeeps, ObserveOthersKeeps, RecoverKeeps, ClaimKeeps, ReobserveKeeps, EnterKeeps,
       AcquireKeeps, AuthoriseKeeps, GitKeeps, PersistKeeps, LeaveKeeps, ReportKeeps DEF CallStep
  <1>2. CASE SweepStep
    BY <1>2, SweepLocksKeeps, SweepLeaseKeeps, SweepListKeeps, SweepActionKeeps DEF SweepStep
  <1>3. CASE UNCHANGED releaseVars
    BY <1>3 DEF releaseVars, ReleaseInv, ReleaseTables, CallOK, TargetHasOneOwner
  <1> QED
    BY <1>1, <1>2, <1>3, RequestKeeps, TransferKeeps, InspectKeeps, RestartKeeps DEF ReleaseNext

\* A release is never reported that did not happen, and its target has one
\* owner, whoever crashes between the database and git: for every number of
\* operations, calls, processes and restarts.
THEOREM ReleaseInvariance == ReleaseSpec => []ReleaseInv
PROOF
  BY ReleaseInitially, ReleaseStep, PTL DEF ReleaseSpec

LEMMA ReleaseInvSays == ReleaseInv => RemovedIsTrue /\ TargetHasOneOwner /\ ReleaseTypeOK
PROOF
  BY DEF ReleaseInv, ReleaseTables, CallOK, RemovedIsTrue, ReleaseTypeOK, ReleaseRow, SomeOp, IntentRows

(***************************************************************************)
(* Two facts about sets                                                    *)
(***************************************************************************)

\* A set without two elements has at most one.
LEMMA AtMostOne ==
  ASSUME NEW S, \A x, y \in S : x = y
  PROVE  IsFiniteSet(S) /\ Cardinality(S) <= 1
PROOF
  <1>1. CASE S = {}
    BY <1>1, FS_EmptySet
  <1>2. CASE S # {}
    <2>1. PICK x \in S : TRUE
      BY <1>2
    <2>2. S = {x}
      BY <2>1
    <2>3. IsFiniteSet({x}) /\ Cardinality({x}) = 1
      BY FS_Singleton
    <2> QED
      BY <2>2, <2>3
  <1> QED
    BY <1>1, <1>2

\* A nonempty set of natural numbers has a least element.
LEMMA LeastOfNaturals ==
  ASSUME NEW S \in SUBSET Nat, S # {}
  PROVE  Min(S) \in S /\ \A n \in S : Min(S) <= n
PROOF
  <1> DEFINE R == {q \in Nat \X Nat : q[1] < q[2]}
  <1>1. IsWellFoundedOn(R, Nat)
    BY NatLessThanWellFounded DEF OpToRel
  <1> HIDE DEF R
  <1>2. \E x \in S : \A y \in S : ~(<<y, x>> \in R)
    BY <1>1, WFMin
  <1>3. \E x \in S : \A y \in S : x <= y
    <2>1. PICK x \in S : \A y \in S : ~(<<y, x>> \in R)
      BY <1>2
    <2>2. ASSUME NEW y \in S PROVE x <= y
      <3>1. x \in Nat /\ y \in Nat /\ <<y, x>> \notin R
        BY <2>1
      <3>2. y < x => <<y, x>> \in R
        BY <3>1 DEF R
      <3> QED
        BY <3>1, <3>2
    <2> QED
      BY <2>2
  <1> QED
    BY <1>3 DEF Min

(***************************************************************************)
(* Model sources                                                           *)
(***************************************************************************)

SourceRecords ==
  [exists : BOOLEAN, id : Nat, config : Nat, url : Urls, credential : BOOLEAN,
   status : {"UNKNOWN", "AVAILABLE", "AUTH_REQUIRED", "UNAVAILABLE"}, count : Nat, of : Nat]
ProbeRecords ==
  [pc : {"idle", "read"}, kind : {"test", "refresh"}, row : SourceRecords,
   source : SourceNames \cup {CHOOSE s \in SourceNames : TRUE}]

SourceTables ==
  sourceEdits \in Nat /\ sourceRow \in [SourceNames -> SourceRecords] /\ probing \in [Probes -> ProbeRecords]

\* Primary keys come from the edits so far, and while a probe is between its
\* read and its save the row under the key it read has the configuration it
\* read.
SourceInv ==
  /\ SourceTables /\ EvidenceIsOfConfiguration
  /\ \A s \in SourceNames : sourceRow[s].id <= sourceEdits
  /\ \A p \in Probes : probing[p].pc = "read" =>
       /\ probing[p].source \in SourceNames /\ probing[p].row.id <= sourceEdits
       /\ LET r == sourceRow[probing[p].source] IN
          r.exists /\ r.id = probing[p].row.id => r.config = probing[p].row.config

LEMMA SourceInitially == SourceInit => SourceInv
PROOF
  <1> SUFFICES ASSUME SourceInit PROVE SourceInv
    OBVIOUS
  <1>1. NoSource \in SourceRecords
    BY DEF NoSource, SourceRecords, Urls
  <1>2. SourceTables
    BY <1>1 DEF SourceInit, SourceTables, ProbeRecords
  <1> QED
    BY <1>2 DEF SourceInit, SourceInv, EvidenceIsOfConfiguration, NoSource

LEMMA ConfiguredRow ==
  ASSUME SourceTables, NEW i \in Nat, NEW u \in Urls, NEW k \in BOOLEAN
  PROVE  /\ Configured(i, u, k) \in SourceRecords
         /\ Configured(i, u, k).id = i /\ Configured(i, u, k).of = 0
PROOF
  <1>1. NoSource \in SourceRecords /\ NoSource.of = 0
    BY DEF NoSource, SourceRecords, Urls
  <1> DEFINE v == [NoSource EXCEPT !.exists = TRUE, !.id = i]
             w == [v EXCEPT !.config = sourceEdits + 1, !.url = u, !.credential = k]
  <1>2. v \in SourceRecords /\ v.id = i /\ v.of = 0
    BY <1>1 DEF SourceRecords
  <1>3. Configured(i, u, k) = w
    BY DEF Configured
  <1>4. sourceEdits + 1 \in Nat
    BY DEF SourceTables
  <1> HIDE DEF v
  <1>5. w \in SourceRecords
    BY <1>2, <1>4 DEF SourceRecords
  <1>6. w.id = i /\ w.of = 0
    BY <1>2 DEF SourceRecords
  <1> QED
    BY <1>3, <1>5, <1>6

LEMMA CreateSourceKeeps ==
  ASSUME SourceInv, NEW s \in SourceNames, NEW u \in Urls, NEW k \in BOOLEAN, CreateSource(s, u, k)
  PROVE  SourceInv'
PROOF
  <1> DEFINE w == Configured(sourceEdits + 1, u, k)
  <1>1. SourceTables
    BY DEF SourceInv
  <1>2. w \in SourceRecords /\ w.id = sourceEdits + 1 /\ w.of = 0
    BY <1>1, ConfiguredRow DEF SourceTables
  <1>3. sourceRow' = [sourceRow EXCEPT ![s] = w] /\ sourceEdits' = sourceEdits + 1 /\ UNCHANGED probing
    BY DEF CreateSource
  <1> HIDE DEF w
  <1>4. SourceTables'
    BY <1>1, <1>2, <1>3 DEF SourceTables
  <1> QED
    BY <1>1, <1>2, <1>3, <1>4 DEF SourceInv, SourceTables, EvidenceIsOfConfiguration, SourceRecords, ProbeRecords

LEMMA UpdateSourceKeeps ==
  ASSUME ~SourceOverlap, SourceInv, NEW s \in SourceNames, NEW u \in Urls, NEW k \in BOOLEAN, UpdateSource(s, u, k)
  PROVE  SourceInv'
PROOF
  <1> DEFINE w == Configured(sourceRow[s].id, u, k)
  <1>1. SourceTables /\ sourceRow[s].id \in Nat
    BY DEF SourceInv, SourceTables, SourceRecords
  <1>2. w \in SourceRecords /\ w.id = sourceRow[s].id /\ w.of = 0
    BY <1>1, ConfiguredRow
  <1>3. /\ sourceRow' = [sourceRow EXCEPT ![s] = w] /\ sourceEdits' = sourceEdits + 1 /\ UNCHANGED probing
        /\ \A p \in Probes : probing[p].pc = "idle" \/ probing[p].source # s
    BY DEF UpdateSource, SourceQuiet
  <1> HIDE DEF w
  <1>4. SourceTables'
    BY <1>1, <1>2, <1>3 DEF SourceTables
  <1> QED
    BY <1>1, <1>2, <1>3, <1>4 DEF SourceInv, SourceTables, EvidenceIsOfConfiguration, SourceRecords, ProbeRecords

LEMMA DeleteSourceKeeps ==
  ASSUME SourceInv, NEW s \in SourceNames, DeleteSource(s)
  PROVE  SourceInv'
PROOF
  <1>1. NoSource \in SourceRecords /\ ~NoSource.exists /\ NoSource.id = 0 /\ NoSource.of = 0
    BY DEF NoSource, SourceRecords, Urls
  <1>2. sourceRow' = [sourceRow EXCEPT ![s] = NoSource] /\ UNCHANGED <<probing, sourceEdits>>
    BY DEF DeleteSource
  <1>3. SourceTables'
    BY <1>1, <1>2 DEF SourceInv, SourceTables
  <1> QED
    BY <1>1, <1>2, <1>3 DEF SourceInv, SourceTables, EvidenceIsOfConfiguration, SourceRecords, ProbeRecords

LEMMA ReadSourceKeeps ==
  ASSUME SourceInv, NEW p \in Probes, NEW s \in SourceNames, NEW kind \in {"test", "refresh"}, ReadSource(p, s, kind)
  PROVE  SourceInv'
PROOF
  <1> DEFINE w == [pc |-> "read", kind |-> kind, row |-> sourceRow[s], source |-> s]
  <1>1. w \in ProbeRecords /\ w.row = sourceRow[s] /\ w.source = s
    BY DEF SourceInv, SourceTables, ProbeRecords
  <1>2. probing' = [probing EXCEPT ![p] = w] /\ UNCHANGED <<sourceRow, sourceEdits>>
    BY DEF ReadSource
  <1> HIDE DEF w
  <1>3. SourceTables'
    BY <1>1, <1>2 DEF SourceInv, SourceTables
  <1> QED
    BY <1>1, <1>2, <1>3 DEF SourceInv, SourceTables, EvidenceIsOfConfiguration

LEMMA SaveEvidenceKeeps ==
  ASSUME SourceInv, NEW p \in Probes, SaveEvidence(p)
  PROVE  SourceInv'
PROOF
  <1> DEFINE s == probing[p].source
             r == probing[p].row
             w == [probing[p] EXCEPT !.pc = "idle", !.row = NoSource]
  <1>1. SourceTables /\ probing[p] \in ProbeRecords /\ s \in SourceNames /\ r \in SourceRecords
    BY DEF SaveEvidence, SourceInv, SourceTables, ProbeRecords
  <1>2. w \in ProbeRecords /\ w.pc = "idle"
    BY <1>1 DEF ProbeRecords, NoSource, SourceRecords, Urls
  <1>3. probing' = [probing EXCEPT ![p] = w] /\ UNCHANGED sourceEdits
    <2>1. probing' = [probing EXCEPT ![p].pc = "idle", ![p].row = NoSource]
      BY DEF SaveEvidence
    <2>2. probing \in [Probes -> ProbeRecords]
      BY <1>1 DEF SourceTables
    <2> QED
      BY <2>1, <2>2 DEF SaveEvidence
  <1>4. PICK a \in ProbeAnswers, n \in ModelCounts : sourceRow' = Saved(p, a, n)
    BY DEF SaveEvidence
  <1>5. CASE sourceRow[s].exists /\ sourceRow[s].id = r.id
    <2> DEFINE v == [sourceRow[s] EXCEPT !.status = StatusOf(a), !.of = r.config,
                                         !.count = IF a = "models" THEN n ELSE @]
    <2>1. StatusOf(a) \in {"UNKNOWN", "AVAILABLE", "AUTH_REQUIRED", "UNAVAILABLE"}
      BY DEF StatusOf
    <2>2. n \in Nat
      BY SourceAssumption
    <2>3. /\ v \in SourceRecords /\ v.of = r.config /\ v.config = sourceRow[s].config
          /\ v.id = sourceRow[s].id /\ v.exists = sourceRow[s].exists
      BY <1>1, <2>1, <2>2 DEF SourceTables, SourceRecords
    <2>4. sourceRow' = [sourceRow EXCEPT ![s] = v]
      BY <1>1, <1>4, <1>5 DEF Saved, SourceTables
    <2>5. r.config = sourceRow[s].config
      BY <1>1, <1>5 DEF SourceInv, SaveEvidence
    <2> HIDE DEF v
    <2>6. SourceTables'
      BY <1>1, <1>2, <1>3, <2>3, <2>4 DEF SourceTables
    <2> HIDE DEF s, r, w
    <2> QED
      BY <1>1, <1>2, <1>3, <2>3, <2>4, <2>5, <2>6 DEF SourceInv, SourceTables, EvidenceIsOfConfiguration
  <1>6. CASE ~(sourceRow[s].exists /\ sourceRow[s].id = r.id)
    <2>1. UNCHANGED sourceRow
      BY <1>4, <1>6 DEF Saved
    <2>2. SourceTables'
      BY <1>1, <1>2, <1>3, <2>1 DEF SourceTables
    <2> HIDE DEF s, r, w
    <2> QED
      BY <1>1, <1>2, <1>3, <2>1, <2>2 DEF SourceInv, SourceTables, EvidenceIsOfConfiguration
  <1> QED
    BY <1>5, <1>6

\* A source shows evidence of the configuration it has, whatever probes and
\* edits there are, as long as no edit commits while a probe of it runs.
THEOREM SourceInvariance ==
  ASSUME ~SourceOverlap
  PROVE  SourceSpec => []SourceInv
PROOF
  <1>1. SourceInv /\ [SourceNext]_sourceVars => SourceInv'
    <2> SUFFICES ASSUME SourceInv, [SourceNext]_sourceVars PROVE SourceInv'
      OBVIOUS
    <2>1. CASE UNCHANGED sourceVars
      BY <2>1 DEF sourceVars, SourceInv, SourceTables, EvidenceIsOfConfiguration
    <2> QED
      BY <2>1, CreateSourceKeeps, UpdateSourceKeeps, DeleteSourceKeeps, ReadSourceKeeps, SaveEvidenceKeeps DEF SourceNext
  <1> QED
    BY <1>1, SourceInitially, PTL DEF SourceSpec

(***************************************************************************)
(* Commands                                                                *)
(***************************************************************************)

StoredAudit(r) == [present |-> TRUE, hash |-> PayloadHash(r), body |-> r]
HeldBy(d) == [held |-> TRUE, by |-> d]
KeyOf(d) == requestOf[d].key

\* A session that inserted its audit row holds the key, a held key has no
\* committed row, and in a command that works inside the audit transaction
\* effects and rows are the same.
CommandInv ==
  /\ requestOf \in [CmdDeliveries -> [key : CmdKeys, body : RequestBodies]]
  /\ stage \in [CmdDeliveries -> {"sent", "admitted", "pending", "performed", "done"}]
  /\ answer \in [CmdDeliveries -> {"none", "refused", "duplicate", "conflict", "executed"}]
  /\ auditRow \in [CmdKeys -> {NoAudit} \cup {StoredAudit(r) : r \in RequestBodies}]
  /\ writing \in [CmdKeys -> {NoHolder} \cup {HeldBy(d) : d \in CmdDeliveries}]
  /\ \A d \in CmdDeliveries : stage[d] \in {"pending", "performed"} => writing[KeyOf(d)] = HeldBy(d)
  /\ \A k \in CmdKeys : writing[k].held => ~auditRow[k].present
  /\ \A d \in CmdDeliveries : stage[d] = "performed" => command \in OnItsOwn
  /\ command \in InTransaction =>
       /\ \A e \in effects : e.key \in CmdKeys /\ auditRow[e.key].present /\ e.body = auditRow[e.key].body
       /\ \A e, f \in effects : e.key = f.key => e = f
       /\ \A k \in CmdKeys : auditRow[k].present => \E e \in effects : e.key = k
  /\ \A d \in CmdDeliveries : answer[d] = "duplicate" =>
       auditRow[KeyOf(d)].present /\ auditRow[KeyOf(d)].body = requestOf[d].body

LEMMA RowsAndHolders ==
  /\ ~NoAudit.present /\ \A r : StoredAudit(r).present /\ StoredAudit(r).body = r
  /\ \A r : StoredAudit(r).hash = PayloadHash(r)
  /\ ~NoHolder.held /\ \A d : HeldBy(d).held /\ HeldBy(d).by = d
BY DEF NoAudit, StoredAudit, NoHolder, HeldBy

LEMMA TwoKinds == ~(command \in InTransaction /\ command \in OnItsOwn)
BY DEF InTransaction, RunAuthority, ConnectionAuthority, SourceAuthority, OnItsOwn, WorkspaceAuthority,
       ProbeAuthority, ProviderAuthority

LEMMA CommandInitially == CommandInit => CommandInv
PROOF
  <1> SUFFICES ASSUME CommandInit PROVE CommandInv
    OBVIOUS
  <1> QED
    BY RowsAndHolders DEF CommandInit, CommandInv, KeyOf

LEMMA AdmitKeeps ==
  ASSUME CommandInv, NEW d \in CmdDeliveries, Admit(d)
  PROVE  CommandInv'
PROOF
  <1>1. /\ UNCHANGED <<command, requestOf, auditRow, writing, effects>>
        /\ \E w \in {"admitted", "done"} : stage' = [stage EXCEPT ![d] = w]
        /\ answer' = answer \/ answer' = [answer EXCEPT ![d] = "refused"]
    BY DEF Admit, Reply
  <1>2. \A r : PayloadHash(r)' = PayloadHash(r)
    BY <1>1 DEF PayloadHash
  <1>3. \A r : StoredAudit(r)' = StoredAudit(r)
    BY <1>2 DEF StoredAudit
  <1>4. /\ stage' \in [CmdDeliveries -> {"sent", "admitted", "pending", "performed", "done"}]
        /\ answer' \in [CmdDeliveries -> {"none", "refused", "duplicate", "conflict", "executed"}]
    BY <1>1 DEF CommandInv
  <1>5. \A e \in CmdDeliveries : /\ stage'[e] \in {"pending", "performed"} => stage'[e] = stage[e]
                                /\ answer'[e] = "duplicate" => answer[e] = "duplicate"
    BY <1>1 DEF CommandInv
  <1> QED
    BY <1>1, <1>3, <1>4, <1>5 DEF CommandInv, KeyOf

LEMMA SignInChangesKeeps ==
  ASSUME CommandInv, UNCHANGED <<command, requestOf, stage, auditRow, writing, effects, answer>>
  PROVE  CommandInv'
PROOF
  <1>2. \A r : PayloadHash(r)' = PayloadHash(r)
    BY DEF PayloadHash
  <1>3. \A r : StoredAudit(r)' = StoredAudit(r)
    BY <1>2 DEF StoredAudit
  <1> QED
    BY <1>3 DEF CommandInv, KeyOf

\* The payload hash tells requests apart when what it omits does not vary.
LEMMA HashIsExact ==
  ASSUME \A q, r \in Rests : q = r, NEW v \in RequestBodies, NEW w \in RequestBodies, PayloadHash(v) = PayloadHash(w)
  PROVE  v = w
PROOF
  <1>1. v = [core |-> v.core, rest |-> v.rest] /\ w = [core |-> w.core, rest |-> w.rest] /\ v.rest = w.rest
    BY DEF RequestBodies
  <1>2. v.core = w.core
    BY DEF PayloadHash
  <1> QED
    BY <1>1, <1>2

LEMMA InsertAuditKeeps ==
  ASSUME \A q, r \in Rests : q = r, CommandInv, NEW d \in CmdDeliveries, InsertAudit(d)
  PROVE  CommandInv'
PROOF
  <1> DEFINE k == KeyOf(d)
             r == requestOf[d].body
  <1>1. /\ UNCHANGED <<command, requestOf, auditRow, effects>> /\ stage[d] = "admitted" /\ ~writing[k].held
        /\ k \in CmdKeys /\ r \in RequestBodies
    BY DEF InsertAudit, KeyOf, CommandInv
  <1>2. \A v : StoredAudit(v)' = StoredAudit(v)
    BY <1>1 DEF StoredAudit, PayloadHash
  <1>3. CASE auditRow[k].present
    <2>1. /\ UNCHANGED writing /\ stage' = [stage EXCEPT ![d] = "done"]
          /\ answer' = [answer EXCEPT ![d] = IF SameRequestPayload(auditRow[k], r) THEN "duplicate" ELSE "conflict"]
      BY <1>3 DEF InsertAudit, Reply, KeyOf
    <2>2. PICK v \in RequestBodies : auditRow[k] = StoredAudit(v)
      BY <1>1, <1>3, RowsAndHolders DEF CommandInv
    <2>3. SameRequestPayload(auditRow[k], r) => auditRow[k].body = r
      BY <1>1, <2>2, HashIsExact, RowsAndHolders DEF SameRequestPayload
    <2> QED
      BY <1>1, <1>2, <1>3, <2>1, <2>3 DEF CommandInv, KeyOf
  <1>4. CASE ~auditRow[k].present
    <2>1. /\ writing' = [writing EXCEPT ![k] = HeldBy(d)] /\ stage' = [stage EXCEPT ![d] = "pending"]
          /\ UNCHANGED answer
      BY <1>4 DEF InsertAudit, KeyOf, HeldBy
    <2>2. \A e \in CmdDeliveries : stage[e] \in {"pending", "performed"} => KeyOf(e) # k
      BY <1>1, RowsAndHolders DEF CommandInv
    <2>3. /\ writing' \in [CmdKeys -> {NoHolder} \cup {HeldBy(e) : e \in CmdDeliveries}]
          /\ stage' \in [CmdDeliveries -> {"sent", "admitted", "pending", "performed", "done"}]
      BY <1>1, <2>1 DEF CommandInv
    <2>4. \A e \in CmdDeliveries : stage'[e] \in {"pending", "performed"} => writing'[KeyOf(e)] = HeldBy(e)
      BY <1>1, <2>1, <2>2 DEF CommandInv, KeyOf
    <2>5. \A j \in CmdKeys : writing'[j].held => ~auditRow[j].present
      BY <1>1, <1>4, <2>1 DEF CommandInv
    <2>6. \A e \in CmdDeliveries : stage'[e] = "performed" => command \in OnItsOwn
      BY <2>1 DEF CommandInv
    <2> QED
      BY <1>1, <1>2, <2>1, <2>3, <2>4, <2>5, <2>6 DEF CommandInv, KeyOf
  <1> QED
    BY <1>3, <1>4

LEMMA PerformOnItsOwnKeeps ==
  ASSUME CommandInv, NEW d \in CmdDeliveries, PerformOnItsOwn(d)
  PROVE  CommandInv'
PROOF
  <1>1. /\ UNCHANGED <<command, requestOf, auditRow, writing, answer>> /\ stage[d] = "pending"
        /\ stage' = [stage EXCEPT ![d] = "performed"] /\ command \in OnItsOwn
    BY DEF PerformOnItsOwn
  <1>2. \A v : StoredAudit(v)' = StoredAudit(v)
    BY <1>1 DEF StoredAudit, PayloadHash
  <1> QED
    BY <1>1, <1>2, TwoKinds DEF CommandInv, KeyOf

LEMMA RollBackKeeps ==
  ASSUME CommandInv, NEW d \in CmdDeliveries, RollBack(d)
  PROVE  CommandInv'
PROOF
  <1>1. /\ UNCHANGED <<command, requestOf, auditRow, effects, answer>> /\ stage[d] \in {"pending", "performed"}
        /\ stage' = [stage EXCEPT ![d] = "sent"] /\ writing' = [writing EXCEPT ![KeyOf(d)] = NoHolder]
    BY DEF RollBack, KeyOf
  <1>2. \A v : StoredAudit(v)' = StoredAudit(v)
    BY <1>1 DEF StoredAudit, PayloadHash
  <1>3. KeyOf(d) \in CmdKeys
    BY DEF CommandInv, KeyOf
  <1>4. \A e \in CmdDeliveries : e # d /\ stage[e] \in {"pending", "performed"} => KeyOf(e) # KeyOf(d)
    <2>1. writing[KeyOf(d)] = HeldBy(d)
      BY <1>1 DEF CommandInv
    <2>2. \A e \in CmdDeliveries : stage[e] \in {"pending", "performed"} => writing[KeyOf(e)] = HeldBy(e)
      BY DEF CommandInv
    <2>3. \A e : HeldBy(e) = HeldBy(d) => e = d
      BY RowsAndHolders
    <2> QED
      BY <2>1, <2>2, <2>3
  <1>5. \A e \in CmdDeliveries : stage'[e] \in {"pending", "performed"} => writing'[KeyOf(e)] = HeldBy(e)
    BY <1>1, <1>3, <1>4 DEF CommandInv, KeyOf
  <1>6. /\ stage' \in [CmdDeliveries -> {"sent", "admitted", "pending", "performed", "done"}]
        /\ writing' \in [CmdKeys -> {NoHolder} \cup {HeldBy(e) : e \in CmdDeliveries}]
    BY <1>1 DEF CommandInv
  <1>7. \A j \in CmdKeys : writing'[j] = NoHolder \/ writing'[j] = writing[j]
    <2>1. DOMAIN writing = CmdKeys /\ writing' = [writing EXCEPT ![KeyOf(d)] = NoHolder]
      BY <1>1 DEF CommandInv
    <2> QED
      BY <2>1
  <1>8. \A j \in CmdKeys : writing'[j].held => ~auditRow[j].present
    BY <1>7, RowsAndHolders DEF CommandInv
  <1>9. \A e \in CmdDeliveries : stage'[e] = "performed" => command \in OnItsOwn
    BY <1>1 DEF CommandInv
  <1> QED
    BY <1>1, <1>2, <1>5, <1>6, <1>8, <1>9 DEF CommandInv, KeyOf

LEMMA FinishCommandKeeps ==
  ASSUME CommandInv, NEW d \in CmdDeliveries, FinishCommand(d)
  PROVE  CommandInv'
PROOF
  <1> DEFINE k == KeyOf(d)
             r == requestOf[d].body
             e0 == [key |-> k, by |-> d, body |-> r]
  <1>1. /\ UNCHANGED <<command, requestOf>> /\ stage[d] \in {"pending", "performed"}
        /\ k \in CmdKeys /\ r \in RequestBodies
        /\ stage' = [stage EXCEPT ![d] = "done"] /\ answer' = [answer EXCEPT ![d] = "executed"]
        /\ auditRow' = [auditRow EXCEPT ![k] = StoredAudit(r)]
        /\ writing' = [writing EXCEPT ![k] = NoHolder]
    BY DEF FinishCommand, CommitOutcome, Reply, KeyOf, CommandInv, StoredAudit
  <1>2. \A v : StoredAudit(v)' = StoredAudit(v)
    BY <1>1 DEF StoredAudit, PayloadHash
  <1>3. ~auditRow[k].present
    BY <1>1, RowsAndHolders DEF CommandInv
  <1>4. \A e \in CmdDeliveries : e # d /\ stage[e] \in {"pending", "performed"} => KeyOf(e) # k
    <2>1. writing[KeyOf(d)] = HeldBy(d)
      BY <1>1 DEF CommandInv
    <2>2. \A e \in CmdDeliveries : stage[e] \in {"pending", "performed"} => writing[KeyOf(e)] = HeldBy(e)
      BY DEF CommandInv
    <2>3. \A e : HeldBy(e) = HeldBy(d) => e = d
      BY RowsAndHolders
    <2> QED
      BY <2>1, <2>2, <2>3
  <1>5. /\ auditRow'[k] = StoredAudit(r) /\ writing'[k] = NoHolder
        /\ \A j \in CmdKeys \ {k} : auditRow'[j] = auditRow[j] /\ writing'[j] = writing[j]
    BY <1>1 DEF CommandInv
  <1>6. /\ stage'[d] = "done" /\ answer'[d] = "executed"
        /\ \A e \in CmdDeliveries \ {d} : stage'[e] = stage[e] /\ answer'[e] = answer[e]
    BY <1>1 DEF CommandInv
  <1>7. /\ stage' \in [CmdDeliveries -> {"sent", "admitted", "pending", "performed", "done"}]
        /\ answer' \in [CmdDeliveries -> {"none", "refused", "duplicate", "conflict", "executed"}]
        /\ auditRow' \in [CmdKeys -> {NoAudit} \cup {StoredAudit(v) : v \in RequestBodies}]
        /\ writing' \in [CmdKeys -> {NoHolder} \cup {HeldBy(e) : e \in CmdDeliveries}]
    BY <1>1 DEF CommandInv
  <1>8. \A e \in CmdDeliveries : stage'[e] \in {"pending", "performed"} => writing'[KeyOf(e)] = HeldBy(e)
    BY <1>4, <1>5, <1>6 DEF CommandInv, KeyOf
  <1>9. \A j \in CmdKeys : writing'[j].held => ~auditRow'[j].present
    BY <1>5, RowsAndHolders DEF CommandInv
  <1>10. \A e \in CmdDeliveries : stage'[e] = "performed" => command \in OnItsOwn
    BY <1>6 DEF CommandInv
  <1>11. \A e \in CmdDeliveries : answer'[e] = "duplicate" =>
           auditRow'[KeyOf(e)].present /\ auditRow'[KeyOf(e)].body = requestOf[e].body
    BY <1>3, <1>5, <1>6 DEF CommandInv, KeyOf
  <1>12. ASSUME command \in InTransaction
         PROVE  /\ \A e \in effects' : e.key \in CmdKeys /\ auditRow'[e.key].present /\ e.body = auditRow'[e.key].body
                /\ \A e, f \in effects' : e.key = f.key => e = f
                /\ \A j \in CmdKeys : auditRow'[j].present => \E e \in effects' : e.key = j
    <2>1. stage[d] = "pending"
      BY <1>1, <1>12, TwoKinds DEF CommandInv
    <2>2. effects' = effects \cup {e0}
      BY <1>12, <2>1 DEF FinishCommand, CommitOutcome, KeyOf
    <2>3. e0.key = k /\ e0.body = r
      OBVIOUS
    <2>4. \A e \in effects : e.key \in CmdKeys /\ e.key # k /\ auditRow[e.key].present /\ e.body = auditRow[e.key].body
      BY <1>3, <1>12 DEF CommandInv
    <2> HIDE DEF e0, r, k
    <2>5. \A e \in effects' : e.key \in CmdKeys /\ auditRow'[e.key].present /\ e.body = auditRow'[e.key].body
      BY <1>1, <1>5, <2>2, <2>3, <2>4, RowsAndHolders
    <2>6. \A e, f \in effects' : e.key = f.key => e = f
      BY <1>12, <2>2, <2>3, <2>4 DEF CommandInv
    <2>7. \A j \in CmdKeys : auditRow'[j].present => \E e \in effects' : e.key = j
      BY <1>5, <1>12, <2>2, <2>3 DEF CommandInv
    <2> QED
      BY <2>5, <2>6, <2>7
  <1> HIDE DEF k, r, e0
  <1> QED
    BY <1>1, <1>2, <1>7, <1>8, <1>9, <1>10, <1>11, <1>12 DEF CommandInv, KeyOf

\* Audit rows and effects agree however deliveries interleave and fail, and a
\* duplicate is told of its own request when the payload hash leaves out
\* nothing that differs between requests.
THEOREM CommandInvariance ==
  ASSUME \A q, r \in Rests : q = r
  PROVE  CommandSpec => []CommandInv
PROOF
  <1>1. CommandInv /\ [CommandNext]_commandVars => CommandInv'
    <2> SUFFICES ASSUME CommandInv, [CommandNext]_commandVars PROVE CommandInv'
      OBVIOUS
    <2>1. CASE UNCHANGED <<command, requestOf, stage, auditRow, writing, effects, answer>>
      BY <2>1, SignInChangesKeeps
    <2>2. ASSUME NEW d \in CmdDeliveries,
                 Admit(d) \/ InsertAudit(d) \/ PerformOnItsOwn(d) \/ FinishCommand(d) \/ RollBack(d)
          PROVE  CommandInv'
      BY <2>2, AdmitKeeps, InsertAuditKeeps, PerformOnItsOwnKeeps, FinishCommandKeeps, RollBackKeeps
    <2> QED
      BY <2>1, <2>2 DEF CommandNext, commandVars, SignInChanges
  <1> QED
    BY <1>1, CommandInitially, PTL DEF CommandSpec

LEMMA CommandInvSays == CommandInv => EvidenceMatchesAuthority /\ DuplicateIsOfTheSameRequest
PROOF
  <1> SUFFICES ASSUME CommandInv PROVE EvidenceMatchesAuthority /\ DuplicateIsOfTheSameRequest
    OBVIOUS
  <1>1. DuplicateIsOfTheSameRequest
    BY DEF CommandInv, DuplicateIsOfTheSameRequest, KeyOf
  <1>2. ASSUME command \in InTransaction, NEW k \in CmdKeys
        PROVE  LET done == {e \in effects : e.key = k} IN
               /\ Cardinality(done) <= 1
               /\ (done # {}) = auditRow[k].present
               /\ \A e \in done : e.body = auditRow[k].body
    <2> DEFINE done == {e \in effects : e.key = k}
    <2>1. Cardinality(done) <= 1
      <3>1. \A x, y \in done : x = y
        BY <1>2 DEF CommandInv
      <3> QED
        BY <3>1, AtMostOne
    <2>2. auditRow[k].present \in BOOLEAN
      <3>1. NoAudit.present = FALSE /\ \A r : StoredAudit(r).present = TRUE
        BY DEF NoAudit, StoredAudit
      <3>2. auditRow[k] = NoAudit \/ \E r : auditRow[k] = StoredAudit(r)
        BY DEF CommandInv
      <3>3. CASE auditRow[k] = NoAudit
        BY <3>1, <3>3
      <3>4. CASE \E r : auditRow[k] = StoredAudit(r)
        BY <3>1, <3>4
      <3> QED
        BY <3>2, <3>3, <3>4
    <2>3. done # {} <=> auditRow[k].present
      BY <1>2 DEF CommandInv
    <2>4. \A e \in done : e.body = auditRow[k].body
      BY <1>2 DEF CommandInv
    <2> QED
      BY <2>1, <2>2, <2>3, <2>4
  <1> QED
    BY <1>1, <1>2 DEF EvidenceMatchesAuthority

(***************************************************************************)
(* Runtime connections                                                     *)
(***************************************************************************)

CardRows == [state : StatusStates, testedAt : Nat, of : Nat]
RevisionRows == {Freeze(p) : p \in Accepted}
TestRows ==
  [pc : {"idle", "claimed", "probing", "probed"}, conn : Conns, rev : Nat, read : StatusStates, at : Nat,
   next : StatusStates]
References == {NoReference} \cup {BuildConnectionReference(c, n, r) : c \in Conns, n \in Nat, r \in RevisionRows}
ClaimRows == [pc : {"none", "claimed", "dispatched", "denied"}, ref : References]
OnboardRows == [pc : {"none", "chosen", "created", "done", "failed"}, conn : 0..MaxConns, audit : 0..MaxConns]

ConnTables ==
  /\ card \in [Conns -> CardRows] /\ revisions \in [Conns -> Seq(RevisionRows)] /\ test \in [Tests -> TestRows]
  /\ claim \in [Attempts -> ClaimRows] /\ onboard \in [Onboards -> OnboardRows] /\ now \in Nat

\* A card exists when it has a revision; its evidence is not from the future,
\* and of the current revision while it can be claimed.
CardOK(c) ==
  /\ Exists(c) <=> revisions[c] # <<>>
  /\ card[c].testedAt <= now
  /\ Claimable(c) /\ card[c].testedAt # 0 => card[c].of = Current(c)

\* A test is of a revision that exists, and within one process the card shows
\* nothing newer than the test.
TestOK(w) ==
  w.pc # "idle" =>
    /\ w.rev \in 1..Current(w.conn)
    /\ w.pc = "probed" => w.next # "NONE"
    /\ w.pc \in {"probing", "probed"} => w.at <= now /\ (OneProcess => card[w.conn].testedAt <= w.at)

\* A claim froze what the revision it names still says.
ClaimOK(w) ==
  w.pc # "none" =>
    /\ w.ref.conn \in Conns /\ w.ref.rev \in 1..Current(w.ref.conn)
    /\ w.ref = BuildConnectionReference(w.ref.conn, w.ref.rev, revisions[w.ref.conn][w.ref.rev])

OneTestEach ==
  OneProcess => \A t, u \in Tests :
    test[t].pc # "idle" /\ test[u].pc # "idle" /\ test[t].conn = test[u].conn => t = u

ConnInv ==
  /\ ConnTables /\ OneTestEach
  /\ \A c \in Conns : CardOK(c)
  /\ \A t \in Tests : TestOK(test[t])
  /\ \A a \in Attempts : ClaimOK(claim[a])
  /\ \A k \in Onboards : onboard[k].pc \in {"chosen", "created"} => onboard[k].conn \in Conns

LEMMA FirstConn == 1 \in Conns /\ MaxConns \in Nat
BY ConnectionAssumption DEF Conns

LEMMA DraftRows == Draft \in CardRows /\ Draft.state = "DRAFT" /\ Draft.testedAt = 0 /\ Draft.of = 0
BY DEF Draft, CardRows, StatusStates

LEMMA NoTestRow == NoTest \in TestRows /\ NoTest.pc = "idle"
BY FirstConn DEF NoTest, TestRows, StatusStates

LEMMA ConnInitially == ConnInit => ConnInv
PROOF
  <1> SUFFICES ASSUME ConnInit PROVE ConnInv
    OBVIOUS
  <1> DEFINE w == [Draft EXCEPT !.state = "NONE"]
  <1>1. w \in CardRows /\ w.state = "NONE" /\ w.testedAt = 0
    BY DraftRows DEF CardRows, StatusStates
  <1>2. NoClaim \in ClaimRows /\ NoClaim.pc = "none"
    BY DEF NoClaim, ClaimRows, References
  <1>3. [pc |-> "none", conn |-> 0, audit |-> 0] \in OnboardRows
    BY FirstConn DEF OnboardRows
  <1>4. card = [c \in Conns |-> w] /\ revisions = [c \in Conns |-> <<>>] /\ now = 1
    BY DEF ConnInit
  <1> HIDE DEF w
  <1>5. ConnTables
    BY <1>1, <1>2, <1>3, <1>4, NoTestRow DEF ConnInit, ConnTables
  <1>6. \A c \in Conns : CardOK(c)
    BY <1>1, <1>4 DEF CardOK, Exists, Claimable
  <1>7. OneTestEach /\ \A t \in Tests : TestOK(test[t])
    BY NoTestRow DEF ConnInit, OneTestEach, TestOK
  <1>8. \A a \in Attempts : ClaimOK(claim[a])
    BY <1>2 DEF ConnInit, ClaimOK
  <1> QED
    BY <1>5, <1>6, <1>7, <1>8 DEF ConnInit, ConnInv

-----------------------------------------------------------------------------
\* A test moves and nothing else does.
LEMMA TestMoves ==
  ASSUME ConnInv, NEW t \in Tests, NEW w \in TestRows, test' = [test EXCEPT ![t] = w],
         UNCHANGED <<card, revisions, claim, now>>, onboard' \in [Onboards -> OnboardRows],
         \A k \in Onboards : onboard'[k].pc \in {"chosen", "created"} => onboard'[k].conn \in Conns,
         TestOK(w), w.pc # "idle" /\ test[t].pc = "idle" => NotInFlight(w.conn),
         test[t].pc # "idle" /\ w.pc # "idle" => w.conn = test[t].conn
  PROVE  ConnInv'
PROOF
  <1>1. test'[t] = w /\ \A u \in Tests \ {t} : test'[u] = test[u]
    BY DEF ConnInv, ConnTables
  <1>2. ConnTables'
    BY DEF ConnInv, ConnTables
  <1>3. OneTestEach'
    BY <1>1 DEF ConnInv, OneTestEach, NotInFlight
  <1>4. \A v : TestOK(v)' = TestOK(v)
    BY DEF TestOK, Current
  <1>5. \A u \in Tests : TestOK(test'[u])
    BY <1>1 DEF ConnInv
  <1>6. \A c \in Conns : CardOK(c)'
    BY DEF ConnInv, CardOK, Exists, Claimable, Current
  <1>7. \A a \in Attempts : ClaimOK(claim[a])'
    BY DEF ConnInv, ClaimOK, Current
  <1> QED
    BY <1>2, <1>3, <1>5, <1>6, <1>7 DEF ConnInv, TestOK, Current

\* A connection gets a new revision and forgets its evidence.
LEMMA NewRevision ==
  ASSUME ConnInv, NEW c \in Conns, NEW r \in RevisionRows,
         revisions' = [revisions EXCEPT ![c] = Append(@, r)], card' = [card EXCEPT ![c] = Draft],
         UNCHANGED <<test, claim, now>>, onboard' \in [Onboards -> OnboardRows],
         \A k \in Onboards : onboard'[k].pc \in {"chosen", "created"} => onboard'[k].conn \in Conns
  PROVE  ConnInv'
PROOF
  <1>1. revisions[c] \in Seq(RevisionRows)
    BY DEF ConnInv, ConnTables
  <1>2. /\ revisions'[c] = Append(revisions[c], r) /\ \A e \in Conns \ {c} : revisions'[e] = revisions[e]
        /\ card'[c] = Draft /\ \A e \in Conns \ {c} : card'[e] = card[e]
    BY DEF ConnInv, ConnTables
  <1>3. /\ revisions'[c] \in Seq(RevisionRows) /\ Len(revisions'[c]) = Len(revisions[c]) + 1 /\ revisions'[c] # <<>>
        /\ \A n \in 1..Len(revisions[c]) : revisions'[c][n] = revisions[c][n]
    BY <1>1, <1>2
  <1>4. ConnTables'
    BY <1>1, <1>3, DraftRows DEF ConnInv, ConnTables
  <1>5. OneTestEach'
    BY DEF ConnInv, OneTestEach
  <1>6. ASSUME NEW e \in Conns PROVE CardOK(e)'
    <2>1. CASE e = c
      BY <1>2, <1>3, <2>1, DraftRows DEF CardOK, Exists, Claimable, ConnInv, ConnTables
    <2>2. CASE e # c
      BY <1>2, <2>2 DEF ConnInv, CardOK, Exists, Claimable, Current
    <2> QED
      BY <2>1, <2>2
  <1>7. \A e \in Conns : Current(e) \in Nat /\ Current(e)' \in Nat /\ Current(e) <= Current(e)'
    BY <1>2, <1>3, <1>4 DEF Current, ConnInv, ConnTables
  <1>8. ASSUME NEW t \in Tests PROVE TestOK(test[t])'
    <2>1. test[t] \in TestRows /\ test[t].conn \in Conns
      BY DEF ConnInv, ConnTables, TestRows
    <2>2. card'[test[t].conn] = card[test[t].conn] \/ card'[test[t].conn].testedAt = 0
      BY <1>2, <2>1, DraftRows
    <2> QED
      BY <1>7, <2>1, <2>2 DEF ConnInv, TestOK, TestRows
  <1>9. ASSUME NEW a \in Attempts PROVE ClaimOK(claim[a])'
    <2>1. CASE claim[a].pc # "none"
      <3> DEFINE e == claim[a].ref.conn
                 n == claim[a].ref.rev
      <3>1. e \in Conns /\ n \in 1..Current(e) /\ claim[a].ref = BuildConnectionReference(e, n, revisions[e][n])
        BY <2>1 DEF ConnInv, ClaimOK
      <3>2. n \in 1..Current(e)' /\ revisions'[e][n] = revisions[e][n]
        BY <1>2, <1>3, <1>7, <3>1 DEF Current
      <3> QED
        BY <3>1, <3>2 DEF ClaimOK
    <2>2. CASE claim[a].pc = "none"
      BY <2>2 DEF ClaimOK
    <2> QED
      BY <2>1, <2>2
  <1> QED
    BY <1>4, <1>5, <1>6, <1>8, <1>9 DEF ConnInv

-----------------------------------------------------------------------------
\* Onboarding chooses ids the table has.
LEMMA OnboardMoves ==
  ASSUME ConnInv, NEW k \in Onboards, NEW w \in OnboardRows, onboard' = [onboard EXCEPT ![k] = w],
         w.pc \in {"chosen", "created"} => w.conn \in Conns
  PROVE  /\ onboard' \in [Onboards -> OnboardRows]
         /\ \A j \in Onboards : onboard'[j].pc \in {"chosen", "created"} => onboard'[j].conn \in Conns
BY DEF ConnInv, ConnTables

\* Tests and cards stay; claims or the onboarding move.
LEMMA CardsStay ==
  ASSUME ConnInv, UNCHANGED <<card, revisions, test>>, now' \in Nat, now <= now',
         claim' \in [Attempts -> ClaimRows], \A a \in Attempts : ClaimOK(claim'[a]),
         onboard' \in [Onboards -> OnboardRows],
         \A k \in Onboards : onboard'[k].pc \in {"chosen", "created"} => onboard'[k].conn \in Conns
  PROVE  ConnInv'
PROOF
  <1>1. ConnTables'
    BY DEF ConnInv, ConnTables
  <1>2. OneTestEach'
    BY DEF ConnInv, OneTestEach
  <1>3. ASSUME NEW c \in Conns PROVE CardOK(c)'
    <2>1. card[c].testedAt \in Nat /\ now \in Nat
      BY DEF ConnInv, ConnTables, CardRows
    <2> QED
      BY <2>1 DEF ConnInv, CardOK, Exists, Claimable, Current
  <1>4. ASSUME NEW t \in Tests PROVE TestOK(test[t])'
    <2>1. test[t].at \in Nat /\ now \in Nat
      BY DEF ConnInv, ConnTables, TestRows
    <2> QED
      BY <2>1 DEF ConnInv, TestOK, Current
  <1>5. \A a \in Attempts : ClaimOK(claim[a])'
    BY DEF ClaimOK, Current
  <1> QED
    BY <1>1, <1>2, <1>3, <1>4, <1>5 DEF ConnInv

LEMMA AcceptedRevision ==
  ASSUME NEW p \in Accepted
  PROVE  Freeze(p) \in RevisionRows
BY DEF RevisionRows

LEMMA InsertRevises ==
  ASSUME ConnInv, NEW c \in Conns, NEW p, Insert(c, p)
  PROVE  /\ Freeze(p) \in RevisionRows
         /\ revisions' = [revisions EXCEPT ![c] = Append(@, Freeze(p))] /\ card' = [card EXCEPT ![c] = Draft]
PROOF
  <1>1. revisions[c] = <<>>
    BY DEF Insert, ConnInv, CardOK
  <1>2. <<Freeze(p)>> = Append(<<>>, Freeze(p))
    OBVIOUS
  <1> QED
    BY <1>1, <1>2, AcceptedRevision DEF Insert

LEMMA CreateConnectionKeeps ==
  ASSUME ConnInv, NEW c \in Conns, NEW p \in Profiles, CreateConnection(c, p)
  PROVE  ConnInv'
PROOF
  <1>1. Insert(c, p) /\ UNCHANGED <<test, claim, onboard, now>>
    BY DEF CreateConnection
  <1> QED
    BY <1>1, InsertRevises, NewRevision DEF ConnInv, ConnTables

LEMMA ReviseConnectionKeeps ==
  ASSUME ConnInv, NEW c \in Conns, NEW p \in Profiles, ReviseConnection(c, p)
  PROVE  ConnInv'
PROOF
  <1>1. /\ Freeze(p) \in RevisionRows /\ UNCHANGED <<test, claim, onboard, now>>
        /\ revisions' = [revisions EXCEPT ![c] = Append(@, Freeze(p))] /\ card' = [card EXCEPT ![c] = Draft]
    BY AcceptedRevision DEF ReviseConnection
  <1> QED
    BY <1>1, NewRevision DEF ConnInv, ConnTables

\* A card changes its state or its evidence.
LEMMA CardMoves ==
  ASSUME ConnInv, NEW c \in Conns, NEW w \in CardRows, card' = [card EXCEPT ![c] = w],
         UNCHANGED <<revisions, claim, onboard, now>>, Exists(c), w.state # "NONE", w.testedAt <= now,
         w.state # "REVOKED" /\ w.testedAt # 0 => w.of = Current(c),
         test' \in [Tests -> TestRows], OneTestEach',
         \A t \in Tests : test'[t] = test[t] \/ test'[t].pc = "idle",
         \A t \in Tests : test'[t].pc # "idle" /\ test'[t].conn = c /\ OneProcess => w.testedAt = card[c].testedAt
  PROVE  ConnInv'
PROOF
  <1>1. card'[c] = w /\ \A e \in Conns \ {c} : card'[e] = card[e]
    BY DEF ConnInv, ConnTables
  <1>2. ConnTables'
    BY DEF ConnInv, ConnTables
  <1>3. ASSUME NEW e \in Conns PROVE CardOK(e)'
    BY <1>1 DEF ConnInv, CardOK, Exists, Claimable, Current
  <1>4. ASSUME NEW t \in Tests PROVE TestOK(test[t])'
    <2>1. CASE test'[t].pc = "idle"
      BY <2>1 DEF TestOK
    <2>2. CASE test'[t].pc # "idle"
      <3>1. test'[t] = test[t] /\ test[t].conn \in Conns
        BY <2>2 DEF ConnInv, ConnTables, TestRows
      <3>2. OneProcess => card'[test[t].conn].testedAt = card[test[t].conn].testedAt
        BY <1>1, <2>2, <3>1
      <3>3. TestOK(test[t])
        BY DEF ConnInv
      <3> QED
        BY <3>1, <3>2, <3>3 DEF TestOK, Current
    <2> QED
      BY <2>1, <2>2
  <1>5. \A a \in Attempts : ClaimOK(claim[a])'
    BY DEF ConnInv, ClaimOK, Current
  <1> QED
    BY <1>2, <1>3, <1>4, <1>5 DEF ConnInv

LEMMA RevokeConnectionKeeps ==
  ASSUME ConnInv, NEW c \in Conns, RevokeConnection(c)
  PROVE  ConnInv'
PROOF
  <1> DEFINE w == [card[c] EXCEPT !.state = "REVOKED"]
  <1>1. card[c] \in CardRows
    BY DEF ConnInv, ConnTables
  <1>2. w \in CardRows /\ w.state = "REVOKED" /\ w.testedAt = card[c].testedAt
    BY <1>1 DEF CardRows, StatusStates
  <1>3. card' = [card EXCEPT ![c] = w] /\ UNCHANGED <<revisions, test, claim, onboard, now>> /\ Exists(c)
    BY DEF RevokeConnection, ConnInv, ConnTables
  <1>4. w.testedAt <= now
    BY <1>2 DEF ConnInv, CardOK
  <1>5. test' \in [Tests -> TestRows] /\ OneTestEach'
    BY <1>3 DEF ConnInv, ConnTables, OneTestEach
  <1> HIDE DEF w
  <1> QED
    BY <1>2, <1>3, <1>4, <1>5, CardMoves

LEMMA PersistTestKeeps ==
  ASSUME ConnInv, NEW t \in Tests, PersistTest(t)
  PROVE  ConnInv'
PROOF
  <1> DEFINE c == test[t].conn
             w == [state |-> test[t].next, testedAt |-> test[t].at, of |-> test[t].rev]
  <1>1. /\ test[t].pc = "probed" /\ test' = [test EXCEPT ![t] = NoTest] /\ UNCHANGED <<revisions, claim, onboard, now>>
        /\ test[t] \in TestRows /\ TestOK(test[t])
    BY DEF PersistTest, ConnInv, ConnTables
  <1>2. CASE ~MayWrite(t)
    <2>1. UNCHANGED card
      BY <1>2 DEF PersistTest
    <2>2. TestOK(NoTest)
      BY NoTestRow DEF TestOK
    <2> QED
      BY <1>1, <2>1, <2>2, NoTestRow, TestMoves DEF ConnInv, ConnTables
  <1>3. CASE MayWrite(t)
    <2>1. card' = [card EXCEPT ![c] = w] /\ Current(c) = test[t].rev
      BY <1>3 DEF PersistTest, MayWrite
    <2>2. c \in Conns /\ w \in CardRows /\ w.state # "NONE" /\ w.testedAt <= now /\ w.of = Current(c)
      BY <1>1, <2>1 DEF TestRows, CardRows, TestOK
    <2>3. Exists(c)
      <3>1. Len(revisions[c]) >= 1 /\ revisions[c] \in Seq(RevisionRows)
        BY <1>1, <2>2 DEF TestOK, Current, ConnInv, ConnTables
      <3>2. revisions[c] # <<>>
        BY <3>1
      <3> QED
        BY <2>2, <3>2 DEF ConnInv, CardOK
    <2>4. test' \in [Tests -> TestRows] /\ \A u \in Tests : test'[u] = test[u] \/ test'[u].pc = "idle"
      BY <1>1, NoTestRow DEF ConnInv, ConnTables
    <2>5. test'[t].pc = "idle" /\ \A u \in Tests \ {t} : test'[u] = test[u]
      BY <1>1, NoTestRow DEF ConnInv, ConnTables
    <2>6. OneTestEach'
      BY <2>4 DEF ConnInv, OneTestEach
    <2>7. \A u \in Tests : ~(test'[u].pc # "idle" /\ test'[u].conn = c /\ OneProcess)
      BY <1>1, <2>5 DEF ConnInv, OneTestEach
    <2> HIDE DEF w, c
    <2> QED
      BY <1>1, <2>1, <2>2, <2>3, <2>4, <2>6, <2>7, CardMoves
  <1> QED
    BY <1>2, <1>3

LEMMA StartTestKeeps ==
  ASSUME ConnInv, NEW t \in Tests, NEW c \in Conns, StartTest(t, c), UNCHANGED <<card, revisions, claim, now>>,
         onboard' \in [Onboards -> OnboardRows],
         \A k \in Onboards : onboard'[k].pc \in {"chosen", "created"} => onboard'[k].conn \in Conns
  PROVE  ConnInv'
PROOF
  <1> DEFINE w == [NoTest EXCEPT !.pc = "claimed", !.conn = c, !.rev = Current(c)]
  <1>1. revisions[c] \in Seq(RevisionRows) /\ revisions[c] # <<>>
    BY DEF StartTest, Claimable, ConnInv, ConnTables, CardOK
  <1>2. Current(c) \in Nat /\ Current(c) >= 1
    BY <1>1 DEF Current
  <1>3. w \in TestRows /\ w.pc = "claimed" /\ w.conn = c /\ w.rev = Current(c)
    BY <1>2, NoTestRow DEF TestRows
  <1>4. test' = [test EXCEPT ![t] = w] /\ NotInFlight(c) /\ test[t].pc = "idle"
    BY DEF StartTest
  <1> HIDE DEF w
  <1>5. TestOK(w)
    BY <1>2, <1>3 DEF TestOK
  <1> QED
    BY <1>3, <1>4, <1>5, TestMoves

LEMMA ReadStatusKeeps ==
  ASSUME ConnInv, NEW t \in Tests, ReadStatus(t)
  PROVE  ConnInv'
PROOF
  <1> DEFINE c == test[t].conn
             w == [test[t] EXCEPT !.pc = "probing", !.read = StatusRead(c), !.at = now]
  <1>1. /\ test[t].pc = "claimed" /\ UNCHANGED <<card, revisions, claim, onboard, now>>
        /\ test[t] \in TestRows /\ TestOK(test[t]) /\ now \in Nat
        /\ test' = [test EXCEPT ![t] = IF RateLimited(c) THEN NoTest ELSE w]
    BY DEF ReadStatus, ConnInv, ConnTables
  <1>2. CASE RateLimited(c)
    <2>1. TestOK(NoTest)
      BY NoTestRow DEF TestOK
    <2> QED
      BY <1>1, <1>2, <2>1, NoTestRow, TestMoves DEF ConnInv, ConnTables
  <1>3. CASE ~RateLimited(c)
    <2>1. StatusRead(c) \in StatusStates
      BY DEF StatusRead, StatusStates
    <2>2. w \in TestRows /\ w.pc = "probing" /\ w.conn = c /\ w.rev = test[t].rev /\ w.at = now
      BY <1>1, <2>1 DEF TestRows
    <2>3. c \in Conns /\ card[c].testedAt <= now
      BY <1>1 DEF TestRows, ConnInv, CardOK
    <2>4. test' = [test EXCEPT ![t] = w]
      BY <1>1, <1>3
    <2> HIDE DEF w
    <2>5. TestOK(w)
      BY <1>1, <2>2, <2>3 DEF TestOK
    <2> QED
      BY <1>1, <2>2, <2>4, <2>5, TestMoves DEF ConnInv, ConnTables
  <1> QED
    BY <1>2, <1>3

LEMMA EndProbeKeeps ==
  ASSUME ConnInv, NEW t \in Tests, EndProbe(t)
  PROVE  ConnInv'
PROOF
  <1>1. PICK o : test' = [test EXCEPT ![t].pc = "probed", ![t].next = ApplyStatusTransition(test[t].read, o)]
    BY DEF EndProbe
  <1> DEFINE n == ApplyStatusTransition(test[t].read, o)
             w == [test[t] EXCEPT !.pc = "probed", !.next = n]
  <1>2. /\ test[t].pc = "probing" /\ UNCHANGED <<card, revisions, claim, onboard, now>>
        /\ test[t] \in TestRows /\ TestOK(test[t]) /\ test \in [Tests -> TestRows]
    BY DEF EndProbe, ConnInv, ConnTables
  <1>3. n \in StatusStates /\ n # "NONE"
    BY DEF ApplyStatusTransition, StatusStates
  <1>4. test' = [test EXCEPT ![t] = w]
    BY <1>1, <1>2
  <1> HIDE DEF n
  <1>5. w \in TestRows /\ w.pc = "probed" /\ w.next = n /\ w.conn = test[t].conn /\ w.rev = test[t].rev /\ w.at = test[t].at
    BY <1>2, <1>3 DEF TestRows
  <1> HIDE DEF w
  <1>6. TestOK(w)
    BY <1>2, <1>3, <1>5 DEF TestOK
  <1> QED
    BY <1>2, <1>4, <1>5, <1>6, TestMoves DEF ConnInv, ConnTables

\* A claim moves and nothing else does.
LEMMA ClaimMoves ==
  ASSUME ConnInv, NEW a \in Attempts, NEW w \in ClaimRows, claim' = [claim EXCEPT ![a] = w], ClaimOK(w),
         UNCHANGED <<card, revisions, test, onboard, now>>
  PROVE  ConnInv'
PROOF
  <1>1. claim' \in [Attempts -> ClaimRows] /\ \A b \in Attempts : ClaimOK(claim'[b])
    BY DEF ConnInv, ConnTables
  <1> QED
    BY <1>1, CardsStay DEF ConnInv, ConnTables

LEMMA ClaimRevisionKeeps ==
  ASSUME ConnInv, NEW a \in Attempts, NEW c \in Conns, ClaimRevision(a, c)
  PROVE  ConnInv'
PROOF
  <1> DEFINE n == Current(c)
             f == BuildConnectionReference(c, n, revisions[c][n])
             w == [pc |-> "claimed", ref |-> f]
  <1>1. revisions[c] \in Seq(RevisionRows) /\ revisions[c] # <<>>
    BY DEF ClaimRevision, Claimable, ConnInv, ConnTables, CardOK
  <1>2. n \in Nat /\ n >= 1 /\ revisions[c][n] \in RevisionRows
    BY <1>1 DEF Current
  <1>3. claim' = [claim EXCEPT ![a] = w] /\ UNCHANGED <<card, revisions, test, onboard, now>>
    BY DEF ClaimRevision
  <1>4. f.conn = c /\ f.rev = n
    BY DEF BuildConnectionReference
  <1>5. f \in References
    BY <1>2 DEF References
  <1> HIDE DEF f
  <1>6. w \in ClaimRows /\ w.ref = f
    BY <1>5 DEF ClaimRows
  <1>7. ClaimOK(w)
    BY <1>2, <1>4, <1>6 DEF ClaimOK, f
  <1> HIDE DEF w
  <1> QED
    BY <1>3, <1>6, <1>7, ClaimMoves

LEMMA AssertKeeps ==
  ASSUME ConnInv, NEW a \in Attempts, AssertConnectionNotRevoked(a)
  PROVE  ConnInv'
PROOF
  <1>1. PICK v \in {"dispatched", "denied"} : claim' = [claim EXCEPT ![a].pc = v]
    BY DEF AssertConnectionNotRevoked
  <1> DEFINE w == [claim[a] EXCEPT !.pc = v]
  <1>2. claim[a].pc = "claimed" /\ claim[a] \in ClaimRows /\ ClaimOK(claim[a]) /\ UNCHANGED <<card, revisions, test, onboard, now>>
    BY DEF AssertConnectionNotRevoked, ConnInv, ConnTables
  <1>3. claim' = [claim EXCEPT ![a] = w]
    BY <1>1
  <1>4. w \in ClaimRows /\ w.ref = claim[a].ref
    BY <1>2 DEF ClaimRows
  <1> HIDE DEF w
  <1>5. ClaimOK(w)
    BY <1>2, <1>4 DEF ClaimOK
  <1> QED
    BY <1>2, <1>3, <1>4, <1>5, ClaimMoves

LEMMA ChooseIdKeeps ==
  ASSUME ConnInv, NEW k \in Onboards, ChooseId(k)
  PROVE  ConnInv'
PROOF
  <1> DEFINE taken == {c \in Conns : Exists(c)}
             i == IF card[1].state = "REVOKED" THEN AllocateReconnectConnectionId(taken) ELSE 1
             w == [onboard[k] EXCEPT !.pc = "chosen", !.conn = i]
  <1>1. onboard' = [onboard EXCEPT ![k].pc = "chosen", ![k].conn = i] /\ UNCHANGED <<card, revisions, test, claim, now>>
    BY DEF ChooseId
  <1>2. i \in Conns
    <2>1. CASE card[1].state = "REVOKED"
      <3> DEFINE S == (2..MaxConns) \ taken
      <3>1. S \in SUBSET Nat /\ S # {}
        BY <2>1, FirstConn DEF ChooseId
      <3>2. Min(S) \in S
        BY <3>1, LeastOfNaturals
      <3>3. i = Min(S)
        BY <2>1 DEF AllocateReconnectConnectionId
      <3> QED
        BY <3>2, <3>3, FirstConn DEF Conns
    <2>2. CASE card[1].state # "REVOKED"
      BY <2>2, FirstConn
    <2> QED
      BY <2>1, <2>2
  <1>3. onboard[k] \in OnboardRows /\ onboard \in [Onboards -> OnboardRows]
    BY DEF ConnInv, ConnTables
  <1> HIDE DEF i
  <1>4. onboard' = [onboard EXCEPT ![k] = w]
    BY <1>1, <1>3
  <1>5. i \in 0..MaxConns
    BY <1>2, FirstConn DEF Conns
  <1>6. w \in OnboardRows /\ w.conn = i
    BY <1>3, <1>5 DEF OnboardRows
  <1> HIDE DEF w
  <1>7. /\ onboard' \in [Onboards -> OnboardRows]
        /\ \A j \in Onboards : onboard'[j].pc \in {"chosen", "created"} => onboard'[j].conn \in Conns
    BY <1>2, <1>4, <1>6, OnboardMoves
  <1> QED
    BY <1>1, <1>7, CardsStay DEF ConnInv, ConnTables

LEMMA OnboardCreateKeeps ==
  ASSUME ConnInv, NEW k \in Onboards, NEW p \in Profiles, OnboardCreate(k, p)
  PROVE  ConnInv'
PROOF
  <1>1. /\ onboard[k] \in OnboardRows /\ onboard[k].pc = "chosen" /\ onboard[k].conn \in Conns
        /\ onboard \in [Onboards -> OnboardRows] /\ UNCHANGED <<test, claim, now>>
    BY DEF OnboardCreate, ConnInv, ConnTables
  <1>2. PICK v \in {"created", "failed"}, b \in 0..MaxConns : onboard' = [onboard EXCEPT ![k].pc = v, ![k].audit = b]
    <2>1. onboard[k].audit \in 0..MaxConns /\ onboard[k].conn \in 0..MaxConns
      BY <1>1 DEF OnboardRows
    <2>2. \A v : [onboard EXCEPT ![k].pc = v] = [onboard EXCEPT ![k].pc = v, ![k].audit = onboard[k].audit]
      BY <1>1 DEF OnboardRows
    <2> QED
      BY <2>1, <2>2 DEF OnboardCreate
  <1> DEFINE w == [onboard[k] EXCEPT !.pc = v, !.audit = b]
  <1>3. onboard' = [onboard EXCEPT ![k] = w]
    BY <1>1, <1>2
  <1>4. w \in OnboardRows /\ w.conn = onboard[k].conn
    BY <1>1, <1>2 DEF OnboardRows
  <1> HIDE DEF w
  <1>5. /\ onboard' \in [Onboards -> OnboardRows]
        /\ \A j \in Onboards : onboard'[j].pc \in {"chosen", "created"} => onboard'[j].conn \in Conns
    BY <1>1, <1>3, <1>4, OnboardMoves
  <1>6. CASE Insert(onboard[k].conn, p)
    BY <1>1, <1>5, <1>6, InsertRevises, NewRevision
  <1>7. CASE UNCHANGED <<card, revisions>>
    BY <1>1, <1>5, <1>7, CardsStay DEF ConnInv, ConnTables
  <1> QED
    BY <1>6, <1>7 DEF OnboardCreate

LEMMA OnboardTestKeeps ==
  ASSUME ConnInv, NEW k \in Onboards, NEW t \in Tests, OnboardTest(k, t)
  PROVE  ConnInv'
PROOF
  <1>1. /\ onboard[k] \in OnboardRows /\ onboard[k].pc = "created" /\ onboard[k].conn \in Conns
        /\ onboard \in [Onboards -> OnboardRows] /\ UNCHANGED <<card, revisions, claim, now>>
    BY DEF OnboardTest, ConnInv, ConnTables
  <1>2. PICK v \in {"done", "failed"} : onboard' = [onboard EXCEPT ![k].pc = v]
    BY DEF OnboardTest
  <1> DEFINE w == [onboard[k] EXCEPT !.pc = v]
  <1>3. onboard' = [onboard EXCEPT ![k] = w]
    BY <1>1, <1>2
  <1>4. w \in OnboardRows /\ w.conn = onboard[k].conn
    BY <1>1, <1>2 DEF OnboardRows
  <1> HIDE DEF w
  <1>5. /\ onboard' \in [Onboards -> OnboardRows]
        /\ \A j \in Onboards : onboard'[j].pc \in {"chosen", "created"} => onboard'[j].conn \in Conns
    BY <1>1, <1>3, <1>4, OnboardMoves
  <1>6. CASE StartTest(t, onboard[k].conn)
    BY <1>1, <1>5, <1>6, StartTestKeeps
  <1>7. CASE UNCHANGED test
    BY <1>1, <1>5, <1>7, CardsStay DEF ConnInv, ConnTables
  <1> QED
    BY <1>6, <1>7 DEF OnboardTest

LEMMA ConnStep == ConnInv /\ [ConnNext]_connVars => ConnInv'
PROOF
  <1> SUFFICES ASSUME ConnInv, [ConnNext]_connVars PROVE ConnInv'
    OBVIOUS
  <1>1. CASE UNCHANGED <<card, revisions, test, claim, onboard>> /\ now' \in Nat /\ now <= now'
    BY <1>1, CardsStay DEF ConnInv, ConnTables
  <1>2. ConnTick \/ UNCHANGED connVars =>
          UNCHANGED <<card, revisions, test, claim, onboard>> /\ now' \in Nat /\ now <= now'
    BY DEF ConnTick, connVars, ConnInv, ConnTables
  <1>3. ASSUME NEW c \in Conns, NEW p \in Profiles, CreateConnection(c, p) \/ ReviseConnection(c, p) PROVE ConnInv'
    BY <1>3, CreateConnectionKeeps, ReviseConnectionKeeps
  <1>4. ASSUME NEW t \in Tests, NEW c \in Conns, StartTest(t, c), UNCHANGED <<card, revisions, claim, onboard, now>>
        PROVE  ConnInv'
    BY <1>4, StartTestKeeps DEF ConnInv, ConnTables
  <1>5. ASSUME NEW t \in Tests, ReadStatus(t) \/ EndProbe(t) \/ PersistTest(t) PROVE ConnInv'
    BY <1>5, ReadStatusKeeps, EndProbeKeeps, PersistTestKeeps
  <1> QED
    BY <1>1, <1>2, <1>3, <1>4, <1>5, RevokeConnectionKeeps, ClaimRevisionKeeps, AssertKeeps, ChooseIdKeeps,
       OnboardCreateKeeps, OnboardTestKeeps DEF ConnNext

\* A card's evidence is of its current revision and never newer than a test in
\* flight, and claims say what the revision they froze says, for every number
\* of tests, claims and onboardings.
THEOREM ConnInvariance == ConnSpec => []ConnInv
BY ConnInitially, ConnStep, PTL DEF ConnSpec

\* Freezing a profile that parses yields a revision, and a reference, that parse.
LEMMA FrozenParses ==
  ASSUME NEW r \in RevisionRows
  PROVE  ParsesAsRevision(r) /\ r.profile.kind \in RuntimeKinds /\ CapabilitiesParse(r.capabilities)
PROOF
  <1>1. PICK p \in Accepted : r = Freeze(p)
    BY DEF RevisionRows
  <1>2. r.profile = p /\ r.capabilities = ResolveCapabilities(p.declared, NothingDetected(p))
    BY <1>1 DEF Freeze
  <1>3. /\ DOMAIN r.capabilities = DOMAIN p.declared
        /\ \A k \in DOMAIN p.declared : /\ r.capabilities[k] \in {"on", "off", "absent"}
                                        /\ r.capabilities[k] = "on" => p.declared[k] = "on"
    BY <1>2 DEF ResolveCapabilities
  <1>4. p.kind \in RuntimeKinds /\ CapabilitiesParse(p.declared)
    BY DEF Accepted, ParsesAsProfile
  <1> QED
    BY <1>2, <1>3, <1>4 DEF ParsesAsRevision, CapabilitiesParse

LEMMA ConnInvSays == ConnInv => CardShowsCurrentRevision /\ ClaimsStayCoherent
PROOF
  <1> SUFFICES ASSUME ConnInv PROVE CardShowsCurrentRevision /\ ClaimsStayCoherent
    OBVIOUS
  <1>1. CardShowsCurrentRevision
    BY DEF ConnInv, CardOK, CardShowsCurrentRevision
  <1>2. \A c \in Conns : \A n \in 1..Current(c) : revisions[c][n] \in RevisionRows
    BY DEF ConnInv, ConnTables, Current
  <1>3. ASSUME NEW a \in Attempts, claim[a].pc # "none"
        PROVE  /\ ParsesAsReference(claim[a].ref)
               /\ claim[a].ref.rev \in 1..Current(claim[a].ref.conn)
               /\ claim[a].ref.capabilities = revisions[claim[a].ref.conn][claim[a].ref.rev].capabilities
    <2> DEFINE e == claim[a].ref.conn
               n == claim[a].ref.rev
    <2>1. e \in Conns /\ n \in 1..Current(e) /\ claim[a].ref = BuildConnectionReference(e, n, revisions[e][n])
      BY <1>3 DEF ConnInv, ClaimOK
    <2>2. claim[a].ref.kind = revisions[e][n].profile.kind /\ claim[a].ref.capabilities = revisions[e][n].capabilities
      BY <2>1 DEF BuildConnectionReference
    <2>3. n > 0
      <3>1. Current(e) \in Nat
        BY <2>1 DEF Current, ConnInv, ConnTables
      <3> QED
        BY <2>1, <3>1
    <2>4. revisions[e][n] \in RevisionRows
      BY <1>2, <2>1
    <2> QED
      BY <2>1, <2>2, <2>3, <2>4, FrozenParses DEF ParsesAsReference
  <1>4. ClaimsStayCoherent
    BY <1>2, <1>3, FrozenParses DEF ClaimsStayCoherent
  <1> QED
    BY <1>1, <1>4

\* What one step of a connection may not do.
LEMMA ConnStepStands ==
  ASSUME OneProcess, ConnInv, [ConnNext]_connVars
  PROVE  RevokedIsTerminal /\ NewestTestWins
PROOF
  <1> DEFINE Stands(c) ==
        /\ card[c].state = "REVOKED" => card'[c].state = "REVOKED" /\ revisions'[c] = revisions[c]
        /\ card'[c].of = card[c].of /\ card[c].of # 0 => card'[c].testedAt >= card[c].testedAt
  <1> SUFFICES ASSUME NEW c \in Conns PROVE Stands(c)
    BY DEF RevokedIsTerminal, NewestTestWins
  <1>0. /\ card \in [Conns -> CardRows] /\ card[c] \in CardRows /\ card[c].testedAt \in Nat
        /\ revisions \in [Conns -> Seq(RevisionRows)]
    BY DEF ConnInv, ConnTables, CardRows
  <1>1. CASE UNCHANGED <<card, revisions>>
    BY <1>0, <1>1
  <1>2. ASSUME NEW e \in Conns, card[e].state # "REVOKED", card' = [card EXCEPT ![e] = Draft],
               \A d \in Conns \ {e} : revisions'[d] = revisions[d]
        PROVE  Stands(c)
    BY <1>0, <1>2, DraftRows
  <1>3. ASSUME NEW e \in Conns, RevokeConnection(e) PROVE Stands(c)
    <2>1. UNCHANGED revisions /\ card' = [card EXCEPT ![e].state = "REVOKED"]
      BY <1>3 DEF RevokeConnection
    <2>2. card'[c].testedAt = card[c].testedAt /\ card'[c].state \in {card[c].state, "REVOKED"}
      BY <1>0, <2>1 DEF CardRows
    <2> QED
      BY <1>0, <2>1, <2>2
  <1>4. ASSUME NEW t \in Tests, PersistTest(t) PROVE Stands(c)
    <2>1. CASE MayWrite(t)
      <3> DEFINE e == test[t].conn
                 w == [state |-> test[t].next, testedAt |-> test[t].at, of |-> test[t].rev]
      <3>1. /\ card' = [card EXCEPT ![e] = w] /\ UNCHANGED revisions /\ card[e].state # "REVOKED"
            /\ test[t].pc = "probed"
        BY <1>4, <2>1 DEF PersistTest, MayWrite
      <3>2. e \in Conns /\ test[t].at \in Nat /\ card[e].testedAt \in Nat
        BY <1>0 DEF ConnInv, ConnTables, TestRows, CardRows
      <3>3. card[e].testedAt <= test[t].at
        BY <3>1 DEF ConnInv, TestOK
      <3>4. w.testedAt = test[t].at
        OBVIOUS
      <3> HIDE DEF w, e
      <3>5. CASE c = e
        BY <1>0, <3>1, <3>2, <3>3, <3>4, <3>5
      <3>6. CASE c # e
        BY <1>0, <3>1, <3>6
      <3> QED
        BY <3>5, <3>6
    <2>2. CASE ~MayWrite(t)
      BY <1>1, <1>4, <2>2 DEF PersistTest
    <2> QED
      BY <2>1, <2>2
  <1>5. ASSUME NEW e \in Conns, NEW p, Insert(e, p) PROVE Stands(c)
    <2>1. card[e].state = "NONE"
      BY <1>5 DEF Insert, Exists
    <2>2. card' = [card EXCEPT ![e] = Draft] /\ \A d \in Conns \ {e} : revisions'[d] = revisions[d]
      BY <1>0, <1>5 DEF Insert
    <2> QED
      BY <1>2, <2>1, <2>2
  <1>6. ASSUME NEW e \in Conns, NEW p, ReviseConnection(e, p) PROVE Stands(c)
    <2>1. /\ card[e].state # "REVOKED" /\ card' = [card EXCEPT ![e] = Draft]
          /\ \A d \in Conns \ {e} : revisions'[d] = revisions[d]
      BY <1>0, <1>6 DEF ReviseConnection, Claimable
    <2> QED
      BY <1>2, <2>1
  <1>7. ASSUME NEW k \in Onboards, NEW p, OnboardCreate(k, p) PROVE Stands(c)
    <2>1. onboard[k].conn \in Conns
      BY <1>7 DEF OnboardCreate, ConnInv
    <2> QED
      BY <1>1, <1>5, <1>7, <2>1 DEF OnboardCreate
  <1> HIDE DEF Stands
  <1>8. \/ UNCHANGED <<card, revisions>> \/ \E e \in Conns : RevokeConnection(e) \/ \E t \in Tests : PersistTest(t)
        \/ \E e \in Conns, p \in Profiles : Insert(e, p) \/ ReviseConnection(e, p)
        \/ \E k \in Onboards, p \in Profiles : OnboardCreate(k, p)
    BY DEF ConnNext, connVars, CreateConnection, ReadStatus, EndProbe, ClaimRevision, AssertConnectionNotRevoked, ChooseId,
           OnboardTest, ConnTick
  <1> QED
    BY <1>1, <1>3, <1>4, <1>5, <1>6, <1>7, <1>8

(***************************************************************************)
(* Sign-in flows                                                           *)
(***************************************************************************)

Locked == {"resolved", "evicted", "started", "authorized"}
Serving == {"started", "authorized"}
BeginRows ==
  [pc : Locked \cup {"new", "refused", "resumed", "registered"}, provider : Providers, method : Methods, rev : Nat]
FlowRows == [live : BOOLEAN, rev : Nat]
CompleteRows ==
  [pc : {"new", "stale", "fenced", "calling", "not found", "connected", "failed"}, flow : Begins \cup {NoFlow}]

AuthTables ==
  /\ begin \in [Begins -> BeginRows] /\ server \in [Begins -> {"none", "live", "closed"}]
  /\ flow \in [Begins -> FlowRows] /\ complete \in [Completes -> CompleteRows]
  /\ authorized \in [rev : Nat, revoked : BOOLEAN] /\ down \in BOOLEAN

\* The section of a provider has one call in it, and no flow of the provider
\* is registered while that call has a server.
SectionIsExclusive ==
  /\ \A b, c \in Begins : begin[b].pc \in Locked /\ begin[c].pc \in Locked /\ begin[b].provider = begin[c].provider => b = c
  /\ \A b, f \in Begins : begin[b].pc \in Serving /\ begin[f].provider = begin[b].provider => ~flow[f].live
  /\ \A f, g \in Begins : flow[f].live /\ flow[g].live /\ begin[f].provider = begin[g].provider => f = g

\* A server runs for the call that started it, for its flow, or for the call
\* that completes the flow, which the call removed.
ServersAreOwned ==
  /\ \A b \in Begins : begin[b].pc \in Serving => server[b] = "live"
  /\ \A b \in Begins : flow[b].live => begin[b].pc = "registered" /\ server[b] = "live"
  /\ \A b \in Begins : server[b] = "live" =>
       begin[b].pc \in Serving \/ flow[b].live \/ \E k \in Completes : complete[k].flow = b /\ complete[k].pc = "calling"
  /\ \A k \in Completes : complete[k].pc \in {"fenced", "calling"} =>
       complete[k].flow \in Begins /\ begin[complete[k].flow].pc = "registered"
  /\ \A k \in Completes : complete[k].pc = "calling" => ~flow[complete[k].flow].live

FlowsAreFew == IsFiniteSet(RegisteredFlows) /\ Cardinality(RegisteredFlows) <= MaxFlows

AuthInv == AuthTables /\ SectionIsExclusive /\ ServersAreOwned /\ FlowsAreFew

LEMMA AuthInitially == AuthInit => AuthInv
PROOF
  <1> SUFFICES ASSUME AuthInit PROVE AuthInv
    OBVIOUS
  <1>1. /\ begin \in [Begins -> BeginRows] /\ \A b \in Begins : begin[b].pc = "new"
    BY DEF AuthInit, BeginRows
  <1>2. Unregistered \in FlowRows /\ Unregistered.live = FALSE
    BY DEF Unregistered, FlowRows
  <1>3. AuthTables
    BY <1>1, <1>2 DEF AuthInit, AuthTables, CompleteRows
  <1>4. \A b \in Begins : ~flow[b].live
    BY <1>2 DEF AuthInit
  <1>5. RegisteredFlows = {}
    BY <1>4 DEF RegisteredFlows
  <1>6. FlowsAreFew
    BY <1>5, FS_EmptySet, AuthAssumption DEF FlowsAreFew
  <1>7. SectionIsExclusive
    BY <1>1, <1>4 DEF SectionIsExclusive, Locked, Serving
  <1>8. ServersAreOwned
    BY <1>1, <1>4 DEF AuthInit, ServersAreOwned, Serving
  <1> QED
    BY <1>3, <1>6, <1>7, <1>8 DEF AuthInv

\* Registered flows only go away.
LEMMA FewerFlows ==
  ASSUME FlowsAreFew, \A b \in Begins : flow'[b].live => flow[b].live
  PROVE  FlowsAreFew'
PROOF
  <1>1. RegisteredFlows' \subseteq RegisteredFlows
    BY DEF RegisteredFlows
  <1>2. IsFiniteSet(RegisteredFlows') /\ Cardinality(RegisteredFlows') <= Cardinality(RegisteredFlows)
    BY <1>1, FS_Subset DEF FlowsAreFew
  <1>3. Cardinality(RegisteredFlows) \in Nat /\ Cardinality(RegisteredFlows') \in Nat
    BY <1>2, FS_CardinalityType DEF FlowsAreFew
  <1> QED
    BY <1>2, <1>3, AuthAssumption DEF FlowsAreFew

LEMMA DropAndClose ==
  ASSUME AuthTables, NEW S \in SUBSET Begins
  PROVE  /\ DropFlows(S) \in [Begins -> FlowRows] /\ CloseServers(S) \in [Begins -> {"none", "live", "closed"}]
         /\ \A b \in S : ~DropFlows(S)[b].live /\ CloseServers(S)[b] = "closed"
         /\ \A b \in Begins \ S : DropFlows(S)[b] = flow[b] /\ CloseServers(S)[b] = server[b]
PROOF
  <1>1. Unregistered \in FlowRows /\ ~Unregistered.live
    BY DEF Unregistered, FlowRows
  <1> QED
    BY <1>1 DEF AuthTables, DropFlows, CloseServers

\* Registered flows are destroyed and their servers closed; nothing else moves
\* but calls that are not inside the section.
LEMMA DestroyKeeps ==
  ASSUME AuthInv, NEW S \in SUBSET RegisteredFlows, flow' = DropFlows(S), server' = CloseServers(S), UNCHANGED begin,
         authorized' \in [rev : Nat, revoked : BOOLEAN], down' \in BOOLEAN, complete' \in [Completes -> CompleteRows],
         \A k \in Completes :
           \/ complete'[k] = complete[k]
           \/ complete[k].pc = "new" /\ complete'[k].pc = "stale"
           \/ /\ complete[k].pc = "new" /\ complete'[k].pc = "fenced"
              /\ complete'[k].flow \in Begins /\ begin[complete'[k].flow].pc = "registered"
  PROVE  AuthInv'
PROOF
  <1>1. AuthTables /\ SectionIsExclusive /\ ServersAreOwned /\ FlowsAreFew /\ S \in SUBSET Begins
    BY DEF AuthInv, RegisteredFlows
  <1>2. /\ flow' \in [Begins -> FlowRows] /\ server' \in [Begins -> {"none", "live", "closed"}]
        /\ \A b \in S : ~flow'[b].live /\ server'[b] = "closed"
        /\ \A b \in Begins \ S : flow'[b] = flow[b] /\ server'[b] = server[b]
    BY <1>1, DropAndClose
  <1>3. AuthTables'
    BY <1>1, <1>2 DEF AuthTables
  <1>4. \A b \in Begins : flow'[b].live => flow[b].live
    BY <1>2
  <1>5. FlowsAreFew'
    BY <1>1, <1>4, FewerFlows
  <1>6. SectionIsExclusive'
    BY <1>1, <1>4 DEF SectionIsExclusive
  <1>7. \A b \in S : begin[b].pc = "registered"
    BY <1>1 DEF ServersAreOwned, RegisteredFlows
  <1>8. /\ \A b \in Begins : begin[b].pc \in Serving => server'[b] = "live"
        /\ \A b \in Begins : flow'[b].live => begin[b].pc = "registered" /\ server'[b] = "live"
    BY <1>1, <1>2, <1>7 DEF ServersAreOwned, Serving
  <1>9. ASSUME NEW b \in Begins, server'[b] = "live"
        PROVE  begin[b].pc \in Serving \/ flow'[b].live \/ \E k \in Completes : complete'[k].flow = b /\ complete'[k].pc = "calling"
    <2>1. b \notin S /\ server[b] = "live" /\ flow'[b] = flow[b]
      BY <1>2, <1>9
    <2> QED
      BY <1>1, <2>1 DEF ServersAreOwned
  <1>10. \A k \in Completes : complete'[k].pc \in {"fenced", "calling"} =>
           complete'[k].flow \in Begins /\ begin[complete'[k].flow].pc = "registered"
    BY <1>1 DEF ServersAreOwned
  <1>11. \A k \in Completes : complete'[k].pc = "calling" => ~flow'[complete'[k].flow].live
    BY <1>1, <1>4, <1>10 DEF ServersAreOwned
  <1>12. ServersAreOwned'
    BY <1>8, <1>9, <1>10, <1>11 DEF ServersAreOwned
  <1> QED
    BY <1>3, <1>5, <1>6, <1>12 DEF AuthInv

LEMMA NothingDropped ==
  ASSUME AuthTables
  PROVE  flow = DropFlows({}) /\ server = CloseServers({})
BY DEF AuthTables, DropFlows, CloseServers

LEMMA FenceKeeps ==
  ASSUME AuthInv, NEW k \in Completes, NEW f \in Begins, Fence(k, f)
  PROVE  AuthInv'
PROOF
  <1> DEFINE stale == flow[f].live /\ (flow[f].rev # authorized.rev \/ authorized.revoked)
             w == [pc |-> IF stale THEN "stale" ELSE "fenced", flow |-> f]
  <1>1. /\ complete[k].pc = "new" /\ begin[f].pc = "registered" /\ UNCHANGED <<authorized, begin, down>>
        /\ complete' = [complete EXCEPT ![k] = w]
        /\ flow' = IF stale THEN DropFlows({f}) ELSE flow
        /\ server' = IF stale THEN CloseServers({f}) ELSE server
    BY DEF Fence
  <1>2. w \in CompleteRows /\ w.flow = f /\ w.pc \in {"stale", "fenced"}
    BY DEF CompleteRows
  <1>3. AuthTables
    BY DEF AuthInv
  <1>4. \E S \in SUBSET RegisteredFlows : flow' = DropFlows(S) /\ server' = CloseServers(S)
    <2>1. CASE stale
      BY <1>1, <2>1 DEF RegisteredFlows
    <2>2. CASE ~stale
      BY <1>1, <1>3, <2>2, NothingDropped
    <2> QED
      BY <2>1, <2>2
  <1> HIDE DEF w
  <1>5. /\ complete' \in [Completes -> CompleteRows]
        /\ \A j \in Completes : complete'[j] = complete[j] \/ (complete[j].pc = "new" /\ complete'[j] = w)
    <2>1. complete \in [Completes -> CompleteRows] /\ complete[k].pc = "new" /\ complete' = [complete EXCEPT ![k] = w]
      BY <1>1, <1>3 DEF AuthTables
    <2> QED
      BY <1>2, <2>1
  <1>6. \A j \in Completes :
           \/ complete'[j] = complete[j]
           \/ complete[j].pc = "new" /\ complete'[j].pc = "stale"
           \/ /\ complete[j].pc = "new" /\ complete'[j].pc = "fenced"
              /\ complete'[j].flow \in Begins /\ begin[complete'[j].flow].pc = "registered"
    BY <1>1, <1>2, <1>5
  <1>7. authorized' \in [rev : Nat, revoked : BOOLEAN] /\ down' \in BOOLEAN
    BY <1>1, <1>3 DEF AuthTables
  <1> QED
    BY <1>1, <1>4, <1>5, <1>6, <1>7, DestroyKeeps

\* Cancel, expiry, reload, shutdown, and a change of the row's authority.
LEMMA DestructionsKeep ==
  ASSUME AuthInv,
         (\E f \in Begins : CancelAuthFlow(f) \/ Expire(f)) \/ GetActiveAuthFlows \/ CloseAll \/ ChangeAuthority
  PROVE  AuthInv'
PROOF
  <1>1. AuthTables
    BY DEF AuthInv
  <1>2. \E S \in SUBSET RegisteredFlows : flow' = DropFlows(S) /\ server' = CloseServers(S)
    <2>1. ASSUME NEW f \in Begins, RemoveFlow(f) PROVE \E S \in SUBSET RegisteredFlows : flow' = DropFlows(S) /\ server' = CloseServers(S)
      BY <2>1 DEF RemoveFlow, RegisteredFlows
    <2>2. CASE GetActiveAuthFlows
      BY <2>2 DEF GetActiveAuthFlows
    <2>3. CASE CloseAll
      BY <2>3 DEF CloseAll
    <2>4. CASE ChangeAuthority
      BY <1>1, <2>4, NothingDropped DEF ChangeAuthority
    <2> QED
      BY <2>1, <2>2, <2>3, <2>4 DEF CancelAuthFlow, Expire
  <1>3. UNCHANGED <<begin, complete>>
    BY DEF CancelAuthFlow, Expire, RemoveFlow, GetActiveAuthFlows, CloseAll, ChangeAuthority
  <1>4. authorized' \in [rev : Nat, revoked : BOOLEAN] /\ down' \in BOOLEAN
    <2>1. authorized \in [rev : Nat, revoked : BOOLEAN] /\ down \in BOOLEAN
      BY <1>1 DEF AuthTables
    <2>2. \/ UNCHANGED <<authorized, down>>
          \/ UNCHANGED authorized /\ down' = TRUE
          \/ UNCHANGED down /\ (authorized' = [authorized EXCEPT !.rev = @ + 1] \/ authorized' = [authorized EXCEPT !.revoked = TRUE])
      BY DEF CancelAuthFlow, Expire, RemoveFlow, GetActiveAuthFlows, CloseAll, ChangeAuthority
    <2>3. /\ [authorized EXCEPT !.rev = @ + 1] \in [rev : Nat, revoked : BOOLEAN]
          /\ [authorized EXCEPT !.revoked = TRUE] \in [rev : Nat, revoked : BOOLEAN]
      <3>1. authorized.rev + 1 \in Nat
        BY <2>1
      <3>2. [authorized EXCEPT !.rev = @ + 1] = [authorized EXCEPT !.rev = authorized.rev + 1]
        BY <2>1
      <3>3. [authorized EXCEPT !.rev = authorized.rev + 1] \in [rev : Nat, revoked : BOOLEAN]
        BY <2>1, <3>1
      <3>4. [authorized EXCEPT !.revoked = TRUE] \in [rev : Nat, revoked : BOOLEAN]
        BY <2>1
      <3> QED
        BY <3>2, <3>3, <3>4
    <2> QED
      BY <2>1, <2>2, <2>3
  <1>5. complete' \in [Completes -> CompleteRows] /\ \A k \in Completes : complete'[k] = complete[k]
    BY <1>1, <1>3 DEF AuthTables
  <1>6. PICK S \in SUBSET RegisteredFlows : flow' = DropFlows(S) /\ server' = CloseServers(S)
    BY <1>2
  <1> QED
    BY <1>3, <1>4, <1>5, <1>6, DestroyKeeps

\* A begin call moves, perhaps with its server, and registers nothing.
LEMMA BeginMoves ==
  ASSUME AuthInv, NEW b \in Begins, NEW w \in BeginRows, begin' = [begin EXCEPT ![b] = w],
         w.provider = begin[b].provider, begin[b].pc # "registered", w.pc # "registered",
         NEW sv \in {"none", "live", "closed"}, server' = [server EXCEPT ![b] = sv],
         UNCHANGED <<authorized, flow, complete, down>>,
         w.pc \in Locked => begin[b].pc \in Locked \/ MutexFree(b),
         w.pc \in Serving => sv = "live" /\ FlowsOf(begin[b].provider) = {},
         sv = "live" => w.pc \in Serving
  PROVE  AuthInv'
PROOF
  <1>1. AuthTables /\ SectionIsExclusive /\ ServersAreOwned /\ FlowsAreFew
    BY DEF AuthInv
  <1>2. /\ begin'[b] = w /\ \A c \in Begins \ {b} : begin'[c] = begin[c]
        /\ server'[b] = sv /\ \A c \in Begins \ {b} : server'[c] = server[c]
    BY <1>1 DEF AuthTables
  <1>3. AuthTables'
    BY <1>1 DEF AuthTables
  <1>4. FlowsAreFew'
    BY <1>1, FewerFlows
  <1>5. ~flow[b].live
    BY <1>1 DEF ServersAreOwned
  <1>6. \A c \in Begins : begin'[c].provider = begin[c].provider
    BY <1>2
  <1>7. \A c, e \in Begins : begin'[c].pc \in Locked /\ begin'[e].pc \in Locked /\ begin'[c].provider = begin'[e].provider => c = e
    <2>1. w.pc \in Locked => \A c \in Begins : begin[c].pc \in Locked /\ begin[c].provider = begin[b].provider => c = b
      BY <1>1 DEF SectionIsExclusive, MutexFree, InsideBegin, Locked
    <2> QED
      BY <1>1, <1>2, <1>6, <2>1 DEF SectionIsExclusive
  <1>8. \A c, f \in Begins : begin'[c].pc \in Serving /\ begin'[f].provider = begin'[c].provider => ~flow[f].live
    <2>1. w.pc \in Serving => \A f \in Begins : begin[f].provider = begin[b].provider => ~flow[f].live
      BY DEF FlowsOf, RegisteredFlows
    <2> QED
      BY <1>1, <1>2, <1>6, <2>1 DEF SectionIsExclusive
  <1>9. SectionIsExclusive'
    BY <1>1, <1>6, <1>7, <1>8 DEF SectionIsExclusive
  <1>10. ServersAreOwned'
    <2>1. /\ \A c \in Begins : begin'[c].pc \in Serving => server'[c] = "live"
          /\ \A c \in Begins : flow[c].live => begin'[c].pc = "registered" /\ server'[c] = "live"
      BY <1>1, <1>2, <1>5 DEF ServersAreOwned
    <2>2. \A c \in Begins : server'[c] = "live" =>
            begin'[c].pc \in Serving \/ flow[c].live \/ \E k \in Completes : complete[k].flow = c /\ complete[k].pc = "calling"
      BY <1>1, <1>2 DEF ServersAreOwned
    <2>3. \A k \in Completes : complete[k].pc \in {"fenced", "calling"} =>
            complete[k].flow \in Begins /\ begin'[complete[k].flow].pc = "registered"
      BY <1>1, <1>2 DEF ServersAreOwned
    <2>4. \A k \in Completes : complete[k].pc = "calling" => ~flow[complete[k].flow].live
      BY <1>1 DEF ServersAreOwned
    <2> QED
      BY <2>1, <2>2, <2>3, <2>4 DEF ServersAreOwned
  <1> QED
    BY <1>3, <1>4, <1>9, <1>10 DEF AuthInv

\* What a call that is not registered has: no flow, and a server only while it
\* is serving.
LEMMA ServerOfCall ==
  ASSUME AuthInv, NEW b \in Begins, begin[b].pc \notin Serving, begin[b].pc # "registered"
  PROVE  server[b] # "live"
BY DEF AuthInv, ServersAreOwned

LEMMA ResolveRevisionKeeps ==
  ASSUME AuthInv, NEW b \in Begins, ResolveRevision(b)
  PROVE  AuthInv'
PROOF
  <1>1. PICK v \in {"refused", "resolved"} : begin' = [begin EXCEPT ![b].pc = v, ![b].rev = authorized.rev]
    BY DEF ResolveRevision
  <1> DEFINE w == [begin[b] EXCEPT !.pc = v, !.rev = authorized.rev]
  <1>2. /\ begin[b].pc = "new" /\ MutexFree(b) /\ UNCHANGED <<authorized, server, flow, complete, down>>
        /\ begin \in [Begins -> BeginRows] /\ server \in [Begins -> {"none", "live", "closed"}] /\ authorized.rev \in Nat
    BY DEF ResolveRevision, AuthInv, AuthTables
  <1>3. begin' = [begin EXCEPT ![b] = w]
    BY <1>1, <1>2
  <1>4. w \in BeginRows /\ w.pc = v /\ w.provider = begin[b].provider
    BY <1>2 DEF BeginRows, Locked
  <1>5. server[b] # "live" /\ server' = [server EXCEPT ![b] = server[b]]
    BY <1>2, ServerOfCall DEF Serving
  <1>6. v \notin Serving /\ v # "registered"
    BY DEF Serving
  <1> HIDE DEF w
  <1> QED
    BY <1>2, <1>3, <1>4, <1>5, <1>6, BeginMoves

LEMMA EvictStaleForKeeps ==
  ASSUME AuthInv, NEW b \in Begins, EvictStaleFor(b)
  PROVE  AuthInv'
PROOF
  <1> DEFINE S == {f \in FlowsOf(begin[b].provider) : flow[f].rev # begin[b].rev}
             w == [begin[b] EXCEPT !.pc = "evicted"]
  <1>1. /\ begin[b].pc = "resolved" /\ flow' = DropFlows(S) /\ server' = CloseServers(S)
        /\ begin' = [begin EXCEPT ![b].pc = "evicted"] /\ UNCHANGED <<authorized, complete, down>>
    BY DEF EvictStaleFor
  <1>2. AuthTables /\ SectionIsExclusive /\ ServersAreOwned /\ FlowsAreFew /\ S \in SUBSET Begins /\ S \in SUBSET RegisteredFlows
    BY DEF AuthInv, FlowsOf, RegisteredFlows
  <1>3. begin' \in [Begins -> BeginRows]
    BY <1>1, <1>2 DEF AuthTables, BeginRows, Locked
  <1>4. /\ begin'[b].pc = "evicted" /\ begin'[b].provider = begin[b].provider
        /\ \A c \in Begins \ {b} : begin'[c] = begin[c]
    BY <1>1, <1>2 DEF AuthTables, BeginRows
  <1>5. /\ flow' \in [Begins -> FlowRows] /\ server' \in [Begins -> {"none", "live", "closed"}]
        /\ \A c \in S : ~flow'[c].live /\ server'[c] = "closed"
        /\ \A c \in Begins \ S : flow'[c] = flow[c] /\ server'[c] = server[c]
    BY <1>1, <1>2, DropAndClose
  <1> HIDE DEF S
  <1>6. AuthTables'
    BY <1>1, <1>2, <1>3, <1>5 DEF AuthTables
  <1>7. \A c \in Begins : flow'[c].live => flow[c].live /\ c \notin S
    BY <1>5
  <1>8. FlowsAreFew'
    BY <1>2, <1>7, FewerFlows
  <1>9. /\ \A c \in Begins : begin'[c].pc \in Serving <=> begin[c].pc \in Serving
        /\ \A c \in Begins : begin'[c].pc \in Locked <=> begin[c].pc \in Locked
        /\ \A c \in Begins : begin'[c].pc = "registered" <=> begin[c].pc = "registered"
        /\ \A c \in Begins : begin'[c].provider = begin[c].provider
    BY <1>1, <1>4 DEF Serving, Locked
  <1>10. SectionIsExclusive'
    BY <1>2, <1>7, <1>9 DEF SectionIsExclusive
  <1>11. \A c \in S : begin[c].pc = "registered"
    BY <1>2 DEF ServersAreOwned, RegisteredFlows
  <1>12. /\ \A c \in Begins : begin'[c].pc \in Serving => server'[c] = "live"
         /\ \A c \in Begins : flow'[c].live => begin'[c].pc = "registered" /\ server'[c] = "live"
    <2>1. "registered" \notin Serving
      BY DEF Serving
    <2> QED
      BY <1>2, <1>5, <1>7, <1>9, <1>11, <2>1 DEF ServersAreOwned
  <1>13. \A c \in Begins : server'[c] = "live" =>
           begin'[c].pc \in Serving \/ flow'[c].live \/ \E k \in Completes : complete[k].flow = c /\ complete[k].pc = "calling"
    BY <1>2, <1>5, <1>9 DEF ServersAreOwned
  <1>14. \A k \in Completes : complete[k].pc \in {"fenced", "calling"} =>
           complete[k].flow \in Begins /\ begin'[complete[k].flow].pc = "registered"
    BY <1>2, <1>9 DEF ServersAreOwned
  <1>15. \A k \in Completes : complete[k].pc = "calling" => ~flow'[complete[k].flow].live
    BY <1>2, <1>7, <1>14 DEF ServersAreOwned
  <1>16. ServersAreOwned'
    BY <1>1, <1>12, <1>13, <1>14, <1>15 DEF ServersAreOwned
  <1> QED
    BY <1>6, <1>8, <1>10, <1>16 DEF AuthInv

LEMMA ClassifyKeeps ==
  ASSUME AuthInv, NEW b \in Begins, Classify(b)
  PROVE  AuthInv'
PROOF
  <1>1. /\ begin[b].pc = "evicted" /\ UNCHANGED <<authorized, flow, complete, down>>
        /\ begin \in [Begins -> BeginRows] /\ server \in [Begins -> {"none", "live", "closed"}]
    BY DEF Classify, AuthInv, AuthTables
  <1>2. server[b] # "live"
    BY <1>1, ServerOfCall DEF Serving
  <1>3. PICK v \in {"resumed", "refused", "started"}, sv \in {"none", "live", "closed"} :
          /\ begin' = [begin EXCEPT ![b].pc = v] /\ server' = [server EXCEPT ![b] = sv]
          /\ v = "started" => sv = "live" /\ FlowsOf(begin[b].provider) = {}
          /\ sv = "live" => v = "started"
    <2>1. server = [server EXCEPT ![b] = server[b]] /\ server[b] \in {"none", "live", "closed"}
      BY <1>1
    <2> QED
      BY <1>2, <2>1 DEF Classify
  <1> DEFINE w == [begin[b] EXCEPT !.pc = v]
  <1>4. begin' = [begin EXCEPT ![b] = w]
    BY <1>1, <1>3
  <1>5. w \in BeginRows /\ w.pc = v /\ w.provider = begin[b].provider
    BY <1>1 DEF BeginRows, Locked
  <1>6. (v \in Serving <=> v = "started") /\ v # "registered" /\ begin[b].pc \in Locked /\ begin[b].pc # "registered"
    BY <1>1 DEF Serving, Locked
  <1> HIDE DEF w
  <1> QED
    BY <1>1, <1>3, <1>4, <1>5, <1>6, BeginMoves

LEMMA AuthorizeKeeps ==
  ASSUME AuthInv, NEW b \in Begins, Authorize(b)
  PROVE  AuthInv'
PROOF
  <1>1. /\ begin[b].pc = "started" /\ UNCHANGED <<authorized, flow, complete, down>>
        /\ begin \in [Begins -> BeginRows] /\ server \in [Begins -> {"none", "live", "closed"}]
    BY DEF Authorize, AuthInv, AuthTables
  <1>2. server[b] = "live" /\ FlowsOf(begin[b].provider) = {}
    BY <1>1 DEF AuthInv, ServersAreOwned, SectionIsExclusive, Serving, FlowsOf, RegisteredFlows
  <1>3. PICK v \in {"authorized", "refused"}, sv \in {"live", "closed"} :
          /\ begin' = [begin EXCEPT ![b].pc = v] /\ server' = [server EXCEPT ![b] = sv]
          /\ v = "authorized" <=> sv = "live"
    BY <1>2 DEF Authorize
  <1> DEFINE w == [begin[b] EXCEPT !.pc = v]
  <1>4. begin' = [begin EXCEPT ![b] = w]
    BY <1>1, <1>3
  <1>5. w \in BeginRows /\ w.pc = v /\ w.provider = begin[b].provider
    BY <1>1 DEF BeginRows, Locked
  <1>6. (v \in Serving <=> v = "authorized") /\ v # "registered" /\ begin[b].pc \in Locked /\ begin[b].pc # "registered"
    BY <1>1 DEF Serving, Locked
  <1> HIDE DEF w
  <1> QED
    BY <1>1, <1>2, <1>3, <1>4, <1>5, <1>6, BeginMoves

LEMMA RegisterKeeps ==
  ASSUME AuthInv, NEW b \in Begins, Register(b)
  PROVE  AuthInv'
PROOF
  <1>1. /\ begin[b].pc = "authorized" /\ UNCHANGED <<authorized, complete, down>>
        /\ begin \in [Begins -> BeginRows] /\ server \in [Begins -> {"none", "live", "closed"}]
        /\ AuthTables /\ SectionIsExclusive /\ ServersAreOwned /\ FlowsAreFew
    BY DEF Register, AuthInv, AuthTables
  <1>2. CASE FlowsOf(begin[b].provider) # {} \/ LimitReached
    <2>1. PICK v \in {"resumed", "refused"} : begin' = [begin EXCEPT ![b].pc = v]
      BY <1>2 DEF Register
    <2> DEFINE w == [begin[b] EXCEPT !.pc = v]
    <2>2. begin' = [begin EXCEPT ![b] = w]
      BY <1>1, <2>1
    <2>3. w \in BeginRows /\ w.pc = v /\ w.provider = begin[b].provider
      BY <1>1 DEF BeginRows, Locked
    <2>4. server' = [server EXCEPT ![b] = "closed"] /\ UNCHANGED flow
      BY <1>2 DEF Register
    <2>5. v \notin Serving /\ v \notin Locked /\ v # "registered" /\ begin[b].pc # "registered"
      BY <1>1 DEF Serving, Locked
    <2> HIDE DEF w
    <2> QED
      BY <1>1, <2>2, <2>3, <2>4, <2>5, BeginMoves
  <1>3. CASE ~(FlowsOf(begin[b].provider) # {} \/ LimitReached)
    <2> DEFINE w == [begin[b] EXCEPT !.pc = "registered"]
               g == [live |-> TRUE, rev |-> begin[b].rev]
    <2>1. begin' = [begin EXCEPT ![b] = w] /\ flow' = [flow EXCEPT ![b] = g] /\ UNCHANGED server
      BY <1>1, <1>3 DEF Register
    <2>2. w \in BeginRows /\ w.pc = "registered" /\ w.provider = begin[b].provider
      BY <1>1 DEF BeginRows, Locked
    <2>3. g \in FlowRows /\ g.live
      BY <1>1 DEF FlowRows, BeginRows
    <2> HIDE DEF w, g
    <2>4. /\ begin'[b] = w /\ \A c \in Begins \ {b} : begin'[c] = begin[c]
          /\ flow'[b] = g /\ \A c \in Begins \ {b} : flow'[c] = flow[c]
      BY <1>1, <2>1 DEF AuthTables
    <2>5. AuthTables'
      BY <1>1, <2>1, <2>2, <2>3 DEF AuthTables
    <2>6. \A c \in Begins : begin'[c].provider = begin[c].provider
      BY <2>2, <2>4
    <2>7. /\ begin[b].pc \in Locked /\ begin[b].pc \in Serving /\ w.pc \notin Locked /\ w.pc \notin Serving
          /\ begin[b].pc # "registered"
      BY <1>1, <2>2 DEF Locked, Serving
    <2>8. \A f \in Begins : begin[f].provider = begin[b].provider => ~flow[f].live
      BY <1>1, <2>7 DEF SectionIsExclusive
    <2>9. SectionIsExclusive'
      <3>1. \A c, e \in Begins : begin'[c].pc \in Locked /\ begin'[e].pc \in Locked /\ begin'[c].provider = begin'[e].provider => c = e
        BY <1>1, <2>4, <2>6, <2>7 DEF SectionIsExclusive
      <3>2. \A c, f \in Begins : begin'[c].pc \in Serving /\ begin'[f].provider = begin'[c].provider => ~flow'[f].live
        <4>1. \A c \in Begins : begin'[c].pc \in Serving => c # b /\ begin[c].provider # begin[b].provider
          <5>1. \A x \in Serving : x \in Locked
            BY DEF Serving, Locked
          <5> QED
            BY <1>1, <2>4, <2>7, <5>1 DEF SectionIsExclusive
        <4> QED
          BY <1>1, <2>4, <2>6, <4>1 DEF SectionIsExclusive
      <3>3. \A f, h \in Begins : flow'[f].live /\ flow'[h].live /\ begin'[f].provider = begin'[h].provider => f = h
        BY <1>1, <2>4, <2>6, <2>8 DEF SectionIsExclusive
      <3> QED
        BY <3>1, <3>2, <3>3 DEF SectionIsExclusive
    <2>10. ServersAreOwned'
      <3>1. server[b] = "live"
        BY <1>1, <2>7 DEF ServersAreOwned
      <3>2. /\ \A c \in Begins : begin'[c].pc \in Serving => server[c] = "live"
            /\ \A c \in Begins : flow'[c].live => begin'[c].pc = "registered" /\ server[c] = "live"
        BY <1>1, <2>2, <2>4, <2>7, <3>1 DEF ServersAreOwned
      <3>3. \A c \in Begins : server[c] = "live" =>
              begin'[c].pc \in Serving \/ flow'[c].live \/ \E k \in Completes : complete[k].flow = c /\ complete[k].pc = "calling"
        BY <1>1, <2>3, <2>4 DEF ServersAreOwned
      <3>4. \A k \in Completes : complete[k].pc \in {"fenced", "calling"} =>
              complete[k].flow \in Begins /\ complete[k].flow # b /\ begin'[complete[k].flow].pc = "registered"
        BY <1>1, <2>4, <2>7 DEF ServersAreOwned
      <3>5. \A k \in Completes : complete[k].pc = "calling" => ~flow'[complete[k].flow].live
        BY <1>1, <2>4, <3>4 DEF ServersAreOwned
      <3> QED
        BY <1>1, <2>1, <3>2, <3>3, <3>4, <3>5 DEF ServersAreOwned
    <2>11. FlowsAreFew'
      <3>1. RegisteredFlows' = RegisteredFlows \cup {b}
        BY <2>3, <2>4 DEF RegisteredFlows
      <3>2. IsFiniteSet(RegisteredFlows') /\ Cardinality(RegisteredFlows') <= Cardinality(RegisteredFlows) + 1
        <4>1. IsFiniteSet(RegisteredFlows) /\ Cardinality(RegisteredFlows) \in Nat
          BY <1>1, FS_CardinalityType DEF FlowsAreFew
        <4>2. /\ IsFiniteSet(RegisteredFlows \cup {b})
              /\ Cardinality(RegisteredFlows \cup {b}) =
                   IF b \in RegisteredFlows THEN Cardinality(RegisteredFlows) ELSE Cardinality(RegisteredFlows) + 1
          BY <4>1, FS_AddElement
        <4> QED
          BY <3>1, <4>1, <4>2
      <3>3. Cardinality(RegisteredFlows) \in Nat /\ Cardinality(RegisteredFlows') \in Nat
        BY <1>1, <3>2, FS_CardinalityType DEF FlowsAreFew
      <3>4. ~(Cardinality(RegisteredFlows) >= MaxFlows)
        BY <1>3 DEF LimitReached
      <3> QED
        BY <3>2, <3>3, <3>4, AuthAssumption DEF FlowsAreFew
    <2> QED
      BY <2>5, <2>9, <2>10, <2>11 DEF AuthInv
  <1> QED
    BY <1>2, <1>3

LEMMA CallbackKeeps ==
  ASSUME AuthInv, NEW k \in Completes, Callback(k)
  PROVE  AuthInv'
PROOF
  <1> DEFINE f == complete[k].flow
  <1>1. AuthTables /\ SectionIsExclusive /\ ServersAreOwned /\ FlowsAreFew
    BY DEF AuthInv
  <1>2. PICK v \in {"calling", "not found"} :
          complete' = [complete EXCEPT ![k].pc = v] /\ (v = "calling" <=> flow[f].live)
    BY DEF Callback
  <1>3. /\ complete[k].pc = "fenced" /\ flow' = DropFlows({f}) /\ UNCHANGED <<authorized, begin, server, down>>
        /\ f \in Begins /\ begin[f].pc = "registered"
    BY <1>1 DEF Callback, ServersAreOwned
  <1>4. /\ flow' \in [Begins -> FlowRows] /\ ~flow'[f].live /\ \A c \in Begins \ {f} : flow'[c] = flow[c]
    <2>1. {f} \in SUBSET Begins /\ f \in {f}
      BY <1>3
    <2> HIDE DEF f
    <2> QED
      BY <1>1, <1>3, <2>1, DropAndClose
  <1>5. /\ complete' \in [Completes -> CompleteRows] /\ complete'[k].pc = v /\ complete'[k].flow = f
        /\ \A j \in Completes \ {k} : complete'[j] = complete[j]
    BY <1>1, <1>2 DEF AuthTables, CompleteRows
  <1> HIDE DEF f
  <1>6. AuthTables'
    BY <1>1, <1>3, <1>4, <1>5 DEF AuthTables
  <1>7. \A c \in Begins : flow'[c].live => flow[c].live
    BY <1>4
  <1>8. FlowsAreFew' /\ SectionIsExclusive'
    BY <1>1, <1>3, <1>7, FewerFlows DEF SectionIsExclusive
  <1>9. /\ \A c \in Begins : begin[c].pc \in Serving => server[c] = "live"
        /\ \A c \in Begins : flow'[c].live => begin[c].pc = "registered" /\ server[c] = "live"
    BY <1>1, <1>7 DEF ServersAreOwned
  <1>10. ASSUME NEW c \in Begins, server[c] = "live"
         PROVE  begin[c].pc \in Serving \/ flow'[c].live \/ \E j \in Completes : complete'[j].flow = c /\ complete'[j].pc = "calling"
    <2>1. CASE c = f /\ flow[f].live
      BY <1>2, <1>5, <2>1
    <2>2. CASE ~(c = f /\ flow[f].live)
      <3>1. \A j \in Completes : complete[j].pc = "calling" => j # k
        BY <1>3
      <3>2. flow'[c].live \/ ~flow[c].live
        BY <1>4, <2>2
      <3>3. \A j \in Completes : complete[j].pc = "calling" => complete'[j] = complete[j]
        BY <1>5, <3>1
      <3>4. begin[c].pc \in Serving \/ flow[c].live \/ \E j \in Completes : complete[j].flow = c /\ complete[j].pc = "calling"
        BY <1>1, <1>10 DEF ServersAreOwned
      <3> QED
        BY <3>2, <3>3, <3>4
    <2> QED
      BY <2>1, <2>2
  <1>11. \A j \in Completes : complete'[j].pc \in {"fenced", "calling"} =>
           complete'[j].flow \in Begins /\ begin[complete'[j].flow].pc = "registered"
    <2>1. \A j \in Completes \ {k} : complete[j].pc \in {"fenced", "calling"} =>
            complete[j].flow \in Begins /\ begin[complete[j].flow].pc = "registered"
      BY <1>1 DEF ServersAreOwned
    <2>2. \A j \in Completes \ {k} : complete'[j].pc \in {"fenced", "calling"} =>
            complete'[j].flow \in Begins /\ begin[complete'[j].flow].pc = "registered"
      BY <1>5, <2>1
    <2>3. complete'[k].flow \in Begins /\ begin[complete'[k].flow].pc = "registered"
      BY <1>3, <1>5
    <2> QED
      BY <2>2, <2>3
  <1>12. \A j \in Completes : complete'[j].pc = "calling" => ~flow'[complete'[j].flow].live
    <2>1. \A j \in Completes \ {k} : complete[j].pc = "calling" => complete[j].flow \in Begins /\ ~flow[complete[j].flow].live
      BY <1>1 DEF ServersAreOwned
    <2>2. \A j \in Completes \ {k} : complete'[j].pc = "calling" => ~flow'[complete'[j].flow].live
      BY <1>5, <1>7, <2>1
    <2> QED
      BY <1>4, <1>5, <2>2
  <1>13. ServersAreOwned'
    BY <1>3, <1>9, <1>10, <1>11, <1>12 DEF ServersAreOwned
  <1> QED
    BY <1>6, <1>8, <1>13 DEF AuthInv

LEMMA EndCallbackKeeps ==
  ASSUME AuthInv, NEW k \in Completes, EndCallback(k)
  PROVE  AuthInv'
PROOF
  <1> DEFINE f == complete[k].flow
  <1>1. AuthTables /\ SectionIsExclusive /\ ServersAreOwned /\ FlowsAreFew
    BY DEF AuthInv
  <1>2. PICK v \in {"connected", "failed"} : complete' = [complete EXCEPT ![k].pc = v]
    BY DEF EndCallback
  <1>3. /\ complete[k].pc = "calling" /\ server' = CloseServers({f}) /\ UNCHANGED <<authorized, begin, flow, down>>
        /\ f \in Begins /\ begin[f].pc = "registered" /\ ~flow[f].live
    BY <1>1 DEF EndCallback, ServersAreOwned
  <1>4. /\ server' \in [Begins -> {"none", "live", "closed"}] /\ server'[f] = "closed"
        /\ \A c \in Begins \ {f} : server'[c] = server[c]
    BY <1>1, <1>3, DropAndClose
  <1>5. /\ complete' \in [Completes -> CompleteRows] /\ complete'[k].pc = v /\ complete'[k].flow = f
        /\ \A j \in Completes \ {k} : complete'[j] = complete[j]
    BY <1>1, <1>2 DEF AuthTables, CompleteRows
  <1> HIDE DEF f
  <1>6. AuthTables'
    BY <1>1, <1>3, <1>4, <1>5 DEF AuthTables
  <1>7. FlowsAreFew' /\ SectionIsExclusive'
    BY <1>1, <1>3, FewerFlows DEF SectionIsExclusive
  <1>8. /\ \A c \in Begins : begin[c].pc \in Serving => server'[c] = "live"
        /\ \A c \in Begins : flow[c].live => begin[c].pc = "registered" /\ server'[c] = "live"
    <2>1. begin[f].pc \notin Serving
      BY <1>3 DEF Serving
    <2>2. /\ \A c \in Begins : begin[c].pc \in Serving => server[c] = "live"
          /\ \A c \in Begins : flow[c].live => begin[c].pc = "registered" /\ server[c] = "live"
      BY <1>1 DEF ServersAreOwned
    <2> QED
      BY <1>3, <1>4, <2>1, <2>2
  <1>9. ASSUME NEW c \in Begins, server'[c] = "live"
        PROVE  begin[c].pc \in Serving \/ flow[c].live \/ \E j \in Completes : complete'[j].flow = c /\ complete'[j].pc = "calling"
    <2>1. c # f /\ server[c] = "live"
      BY <1>4, <1>9
    <2>2. complete[k].flow = f
      BY DEF f
    <2> QED
      BY <1>1, <1>5, <2>1, <2>2 DEF ServersAreOwned
  <1>10. \A j \in Completes : complete'[j].pc \in {"fenced", "calling"} => j # k
    BY <1>5
  <1>11. \A j \in Completes : complete'[j].pc \in {"fenced", "calling"} =>
           complete'[j].flow \in Begins /\ begin[complete'[j].flow].pc = "registered"
    BY <1>1, <1>5, <1>10 DEF ServersAreOwned
  <1>12. \A j \in Completes : complete'[j].pc = "calling" => ~flow[complete'[j].flow].live
    BY <1>1, <1>5, <1>10 DEF ServersAreOwned
  <1>13. ServersAreOwned'
    BY <1>3, <1>8, <1>9, <1>11, <1>12 DEF ServersAreOwned
  <1> QED
    BY <1>6, <1>7, <1>13 DEF AuthInv

LEMMA AuthStep == AuthInv /\ [AuthNext]_authVars => AuthInv'
PROOF
  <1> SUFFICES ASSUME AuthInv, [AuthNext]_authVars PROVE AuthInv'
    OBVIOUS
  <1>1. CASE UNCHANGED authVars
    <2>1. UNCHANGED <<begin, server, flow, complete, authorized, down>>
      BY <1>1 DEF authVars
    <2>2. FlowsAreFew'
      BY <2>1, FewerFlows DEF AuthInv
    <2> QED
      BY <2>1, <2>2 DEF AuthInv, AuthTables, SectionIsExclusive, ServersAreOwned
  <1>2. ASSUME NEW b \in Begins, BeginStep(b) PROVE AuthInv'
    BY <1>2, ResolveRevisionKeeps, EvictStaleForKeeps, ClassifyKeeps, AuthorizeKeeps, RegisterKeeps DEF BeginStep
  <1>3. ASSUME NEW k \in Completes, Callback(k) \/ EndCallback(k) PROVE AuthInv'
    BY <1>3, CallbackKeeps, EndCallbackKeeps
  <1> QED
    BY <1>1, <1>2, <1>3, FenceKeeps, DestructionsKeep DEF AuthNext

\* Every management server has an owner, a provider has one sign-in at a time
\* and registered flows stay within their limit, for every set of calls.
THEOREM AuthInvariance == AuthSpec => []AuthInv
BY AuthInitially, AuthStep, PTL DEF AuthSpec

LEMMA AuthInvSays == AuthInv => ServersHaveOwners /\ OneSignInPerProvider /\ FlowsAreBounded
PROOF
  <1> SUFFICES ASSUME AuthInv PROVE ServersHaveOwners /\ OneSignInPerProvider /\ FlowsAreBounded
    OBVIOUS
  <1>1. ServersHaveOwners
    BY DEF AuthInv, ServersAreOwned, ServersHaveOwners, Serving, RegisteredFlows
  <1>2. FlowsAreBounded
    BY DEF AuthInv, FlowsAreFew, FlowsAreBounded
  <1>3. ASSUME NEW p \in Providers
        PROVE  Cardinality(FlowsOf(p) \cup {b \in Begins : begin[b].provider = p /\ begin[b].pc \in {"started", "authorized"}}) <= 1
    <2> DEFINE S == FlowsOf(p) \cup {b \in Begins : begin[b].provider = p /\ begin[b].pc \in {"started", "authorized"}}
    <2>1. \A b \in S : b \in Begins /\ begin[b].provider = p /\ (flow[b].live \/ begin[b].pc \in Serving)
      BY DEF FlowsOf, RegisteredFlows, Serving
    <2>2. \A x \in Serving : x \in Locked
      BY DEF Serving, Locked
    <2> HIDE DEF S
    <2>3. \A x, y \in S : x = y
      BY <2>1, <2>2 DEF AuthInv, SectionIsExclusive
    <2>4. Cardinality(S) <= 1
      BY <2>3, AtMostOne
    <2> QED
      BY <2>4 DEF S
  <1> QED
    BY <1>1, <1>2, <1>3 DEF OneSignInPerProvider

(***************************************************************************)
(* The launch form                                                         *)
(***************************************************************************)

Targets == [conn : FormConns \cup {NoConn}, model : FormModels \cup {NoModel}]
Launches ==
  [at : {"idle", "checking", "checked", "left"}, target : Targets, known : BOOLEAN, answer : SUBSET FormProviders]

\* While a launch is being checked all that is signed in counts as connected,
\* and a checked launch holds only answers that were connected.
FormInv ==
  /\ formSignedIn \in [FormConns -> SUBSET FormProviders]
  /\ target \in Targets /\ launch \in Launches
  /\ launch.at = "checking" => Pairs(formSignedIn) \subseteq connected
  /\ launch.at = "checked" => \A q \in launch.answer : <<launch.target.conn, q>> \in connected

\* The page and the picker move; the launch and the sign-ins do not.
LEMMA PickerKeeps ==
  ASSUME FormInv, UNCHANGED <<formSignedIn, launch, connected>>, target' \in Targets
  PROVE  FormInv'
BY DEF FormInv, Pairs

LEMMA TargetOfConnection ==
  ASSUME FormInv, NEW c \in FormConns \cup {NoConn}, HandleConnectionChange(c)
  PROVE  FormInv'
PROOF
  <1>1. target' \in Targets /\ UNCHANGED <<formSignedIn, launch, connected>>
    BY DEF HandleConnectionChange, Targets
  <1> QED
    BY <1>1, PickerKeeps

LEMMA TargetOfModel ==
  ASSUME FormInv, NEW m \in FormModels \cup {NoModel}, SelectModel(m) \/ EnterModel(m)
  PROVE  FormInv'
PROOF
  <1>1. target' = target \/ target' = [target EXCEPT !.model = m]
    BY DEF SelectModel, EnterModel
  <1>2. target' \in Targets
    BY <1>1 DEF FormInv, Targets
  <1>3. UNCHANGED <<formSignedIn, launch, connected>>
    BY DEF SelectModel, EnterModel
  <1> QED
    BY <1>2, <1>3, PickerKeeps

LEMMA FormSignInKeeps ==
  ASSUME FormInv, FormSignInChanges
  PROVE  FormInv'
PROOF
  <1>1. PICK c \in FormConns, p \in FormProviders :
          /\ formSignedIn' = [formSignedIn EXCEPT ![c] = IF p \in @ THEN @ \ {p} ELSE @ \cup {p}]
          /\ connected' = connected \cup Pairs(formSignedIn')
    BY DEF FormSignInChanges
  <1>2. formSignedIn' \in [FormConns -> SUBSET FormProviders]
    BY <1>1 DEF FormInv
  <1>3. UNCHANGED <<target, launch>>
    BY DEF FormSignInChanges, pickerVars
  <1>4. Pairs(formSignedIn)' \subseteq connected' /\ connected \subseteq connected'
    BY <1>1 DEF Pairs
  <1> QED
    BY <1>2, <1>3, <1>4 DEF FormInv

LEMMA HandleSubmitKeeps ==
  ASSUME FormInv, HandleSubmit
  PROVE  FormInv'
PROOF
  <1>1. launch' = [at |-> "checking", target |-> target, known |-> FALSE, answer |-> {}]
        /\ connected' = Pairs(formSignedIn) /\ UNCHANGED <<formSignedIn, target>>
    BY DEF HandleSubmit, pickerVars
  <1>2. launch' \in Launches /\ launch'.at = "checking"
    BY <1>1 DEF FormInv, Launches
  <1> QED
    BY <1>1, <1>2 DEF FormInv, Pairs

LEMMA DiscoveryAnswersKeeps ==
  ASSUME FormInv, DiscoveryAnswers
  PROVE  FormInv'
PROOF
  <1> DEFINE c == launch.target.conn
  <1>1. PICK ok \in BOOLEAN :
          launch' = [launch EXCEPT !.at = "checked", !.known = ok /\ c # NoConn,
                       !.answer = IF ok /\ ProviderDiscoverySupported(c) THEN formSignedIn[c] ELSE {}]
    BY DEF DiscoveryAnswers
  <1>2. UNCHANGED <<formSignedIn, target, connected>> /\ launch.at = "checking"
    BY DEF DiscoveryAnswers, pickerVars
  <1> DEFINE told == IF ok /\ ProviderDiscoverySupported(c) THEN formSignedIn[c] ELSE {}
  <1>3. c \in FormConns \cup {NoConn} /\ launch \in Launches
    BY DEF FormInv, Launches, Targets
  <1>4. told \in SUBSET FormProviders /\ \A q \in told : <<c, q>> \in Pairs(formSignedIn)
    BY <1>3 DEF FormInv, ProviderDiscoverySupported, Pairs
  <1> DEFINE kn == (ok /\ c # NoConn)
  <1>5. kn \in BOOLEAN
    OBVIOUS
  <1>6. launch' = [launch EXCEPT !.at = "checked", !.known = kn, !.answer = told]
    BY <1>1
  <1> HIDE DEF told, kn
  <1>7. launch' \in Launches
    BY <1>3, <1>4, <1>5, <1>6 DEF Launches
  <1>8. launch'.at = "checked" /\ launch'.answer = told /\ launch'.target = launch.target
    BY <1>3, <1>6 DEF Launches
  <1>9. \A q \in told : <<c, q>> \in connected
    BY <1>2, <1>4 DEF FormInv
  <1> QED
    BY <1>2, <1>7, <1>8, <1>9 DEF FormInv

LEMMA NoLaunchIs == NoLaunch \in Launches /\ NoLaunch.at = "idle"
BY DEF NoLaunch, NoTarget, Launches, Targets

LEMMA DecideLaunchKeeps ==
  ASSUME FormInv, DecideLaunch
  PROVE  FormInv'
PROOF
  <1>1. UNCHANGED <<formSignedIn, target, connected>>
    BY DEF DecideLaunch, pickerVars
  <1>2. launch' = NoLaunch \/ launch' = [launch EXCEPT !.at = "left"]
    BY DEF DecideLaunch
  <1>3. launch' \in Launches /\ launch'.at \in {"idle", "left"}
    BY <1>2, NoLaunchIs DEF FormInv, Launches
  <1> QED
    BY <1>1, <1>3 DEF FormInv

LEMMA FormStep == FormInv /\ [FormNext]_formVars => FormInv'
PROOF
  <1> SUFFICES ASSUME FormInv, [FormNext]_formVars PROVE FormInv'
    OBVIOUS
  <1>1. CASE UNCHANGED <<formSignedIn, launch, connected, target>>
    BY <1>1, PickerKeeps DEF FormInv
  <1>2. UNCHANGED formVars \/ RefreshModels \/ EditBounds => UNCHANGED <<formSignedIn, launch, connected, target>>
    BY DEF formVars, pickerVars, RefreshModels, EditBounds
  <1>3. ASSUME NEW r, ProvidersAnswer(r) \/ ModelsAnswer(r) PROVE UNCHANGED <<formSignedIn, launch, connected, target>>
    BY <1>3 DEF ProvidersAnswer, ModelsAnswer
  <1>4. ASSUME NEW w, ChooseWorkspace(w) \/ LoadCatalogs(w) PROVE UNCHANGED <<formSignedIn, launch, connected, target>>
    BY <1>4 DEF ChooseWorkspace, LoadCatalogs, pickerVars
  <1>5. ASSUME NEW p, SelectProvider(p) PROVE UNCHANGED <<formSignedIn, launch, connected, target>>
    BY <1>5 DEF SelectProvider
  <1> QED
    BY <1>1, <1>2, <1>3, <1>4, <1>5, TargetOfConnection, TargetOfModel, FormSignInKeeps, HandleSubmitKeeps,
       DiscoveryAnswersKeeps, DecideLaunchKeeps DEF FormNext, SelectRole

\* What a launch was told of signed-in providers was so at some moment since
\* its click.
THEOREM FormInvariance == FormSpec => []FormInv
PROOF
  <1>1. FormInit => FormInv
    BY NoLaunchIs DEF FormInit, FormInv, NoTarget, Targets
  <1> QED
    BY <1>1, FormStep, PTL DEF FormSpec

\* A run starts only by DecideLaunch, for a target whose provider answered.
LEMMA FormStepStands ==
  ASSUME FormInv, [FormNext]_formVars
  PROVE  LaunchedTargetsWereConnected
PROOF
  <1>1. CASE UNCHANGED started
    BY <1>1 DEF LaunchedTargetsWereConnected
  <1>2. CASE DecideLaunch
    <2>1. \A t \in started' \ started : t = launch.target /\ ~Unavailable /\ launch.at = "checked"
      BY <1>2 DEF DecideLaunch
    <2>2. ASSUME ~Unavailable, launch.at = "checked", launch.target.model # NoModel, ProviderOf[launch.target.model] # NoProvider
          PROVE  <<launch.target.conn, ProviderOf[launch.target.model]>> \in connected
      BY <2>2 DEF Unavailable, FormInv
    <2> QED
      BY <2>1, <2>2 DEF LaunchedTargetsWereConnected
  <1>3. UNCHANGED started \/ DecideLaunch
    BY DEF FormNext, formVars, FormSignInChanges, SelectRole, HandleConnectionChange, RefreshModels, EditBounds, HandleSubmit,
           DiscoveryAnswers, SelectProvider, SelectModel, EnterModel, ProvidersAnswer, ModelsAnswer, ChooseWorkspace, LoadCatalogs
  <1> QED
    BY <1>1, <1>2, <1>3

(***************************************************************************)
(* The console                                                             *)
(***************************************************************************)

QueueRows ==
  [acting : {"none", "approve", "release"},
   answer : {"none", "sent", "executed", "rejected", "REMOVED", "PRESERVED", "IN_PROGRESS", "INTERRUPTED"},
   notice : {"none", "released", "retry", "refused", "approved"}]

\* The queue's answers are those of its command; a removal it was told of, or
\* tells of, has happened.
ConsoleInv ==
  /\ consoleTree \in {"PRESERVED", "RELEASING", "REMOVED"} /\ queue \in QueueRows
  /\ queue.acting = "release" /\ queue.answer \notin {"none", "sent"} =>
       queue.answer \in {"REMOVED", "PRESERVED", "IN_PROGRESS", "INTERRUPTED"}
  /\ queue.answer = "REMOVED" => consoleTree = "REMOVED"
  /\ ReleasedMeansRemoved

LEMMA ConsoleStep ==
  ASSUME ConsoleInv, [ConsoleNext]_consoleVars
  PROVE  ConsoleInv'
PROOF
  <1>1. CASE UNCHANGED <<queue, consoleTree>>
    BY <1>1 DEF ConsoleInv, ReleasedMeansRemoved
  <1>2. CASE TreeMoves
    BY <1>2 DEF TreeMoves, ConsoleInv, ReleasedMeansRemoved
  <1>3. ASSUME NEW c \in {"approve", "release"}, QueueClick(c) PROVE ConsoleInv'
    BY <1>3 DEF QueueClick, ConsoleInv, QueueRows, ReleasedMeansRemoved
  <1>4. CASE QueueCarriedOut
    <2>1. PICK told \in {"executed", "rejected", "REMOVED", "PRESERVED", "IN_PROGRESS", "INTERRUPTED"} :
            /\ queue' = [queue EXCEPT !.answer = told]
            /\ queue.acting = "release" => told \in {"REMOVED", "PRESERVED", "IN_PROGRESS", "INTERRUPTED"}
            /\ told = "REMOVED" => consoleTree' = "REMOVED"
      BY <1>4 DEF QueueCarriedOut
    <2>2. /\ consoleTree = "REMOVED" => consoleTree' = "REMOVED"
          /\ consoleTree' \in {"PRESERVED", "RELEASING", "REMOVED"}
      BY <1>4 DEF QueueCarriedOut, ConsoleInv
    <2> QED
      BY <2>1, <2>2 DEF ConsoleInv, QueueRows, ReleasedMeansRemoved
  <1>5. CASE QueueAnswers
    <2>1. PICK say \in {"released", "retry", "refused", "approved"} :
            /\ queue' = [queue EXCEPT !.answer = "none", !.notice = say]
            /\ say = "released" => queue.answer = "REMOVED"
      <3>1. CASE queue.acting = "release"
        <4>1. queue.answer \in {"REMOVED", "PRESERVED", "IN_PROGRESS", "INTERRUPTED"}
          BY <1>5, <3>1 DEF QueueAnswers, ConsoleInv
        <4>2. /\ ReleaseNotice(queue.answer) \in {"released", "retry", "refused", "approved"}
              /\ ReleaseNotice(queue.answer) = "released" => queue.answer = "REMOVED"
          BY <4>1 DEF ReleaseNotice
        <4>3. queue' = [queue EXCEPT !.answer = "none", !.notice = ReleaseNotice(queue.answer)]
          BY <1>5, <3>1 DEF QueueAnswers
        <4> QED
          BY <4>2, <4>3
      <3>2. CASE queue.acting # "release"
        BY <1>5, <3>2 DEF QueueAnswers
      <3> QED
        BY <3>1, <3>2
    <2>2. UNCHANGED consoleTree
      BY <1>5 DEF QueueAnswers
    <2> QED
      BY <2>1, <2>2 DEF ConsoleInv, QueueRows, ReleasedMeansRemoved
  <1>6. CASE QueueLoads
    BY <1>6 DEF QueueLoads, ConsoleInv, QueueRows, ReleasedMeansRemoved
  <1>7. \/ UNCHANGED <<queue, consoleTree>> \/ TreeMoves \/ QueueCarriedOut \/ QueueAnswers \/ QueueLoads
        \/ \E c \in {"approve", "release"} : QueueClick(c)
    BY DEF ConsoleNext, consoleVars, RunMoves, Poll, CarriedOut, CommandAnswers, CommandLost, ServerReads, FetchAnswers,
           FetchFails, Give
  <1> QED
    BY <1>1, <1>2, <1>3, <1>4, <1>5, <1>6, <1>7

\* The attention queue tells of a release only when the worktree is removed.
THEOREM ConsoleInvariance == ConsoleSpec => []ConsoleInv
PROOF
  <1>1. ConsoleInit => ConsoleInv
    BY DEF ConsoleInit, ConsoleInv, QueueRows, ReleasedMeansRemoved
  <1> QED
    BY <1>1, ConsoleStep, PTL DEF ConsoleSpec

(***************************************************************************)
(* The workbench                                                           *)
(***************************************************************************)

\* Every behaviour of the workbench is one of each component: a component out
\* of focus rests.
THEOREM WorkbenchImplementsParts ==
  WorkbenchSpec => /\ LeaseSpec /\ ReleaseSpec /\ ConnSpec /\ AuthSpec
                   /\ SourceSpec /\ CommandSpec /\ FormSpec /\ ConsoleSpec
PROOF
  <1>1. WorkbenchInit => /\ LeaseInit /\ ReleaseInit /\ ConnInit /\ AuthInit
                         /\ SourceInit /\ CommandInit /\ FormInit /\ ConsoleInit
    BY DEF WorkbenchInit
  <1>2. [WorkbenchNext]_workbenchVars =>
          /\ [LeaseNext]_leaseVars /\ [ReleaseNext]_releaseVars /\ [ConnNext]_connVars /\ [AuthNext]_authVars
          /\ [SourceNext]_sourceVars /\ [CommandNext]_commandVars /\ [FormNext]_formVars /\ [ConsoleNext]_consoleVars
    <2> SUFFICES ASSUME [WorkbenchNext]_workbenchVars
                 PROVE  /\ [LeaseNext]_leaseVars /\ [ReleaseNext]_releaseVars /\ [ConnNext]_connVars /\ [AuthNext]_authVars
                        /\ [SourceNext]_sourceVars /\ [CommandNext]_commandVars /\ [FormNext]_formVars
                        /\ [ConsoleNext]_consoleVars
      OBVIOUS
    <2>1. CASE UNCHANGED workbenchVars
      BY <2>1 DEF workbenchVars
    <2>2. CASE WorkbenchNext
      BY <2>2 DEF WorkbenchNext, OthersRest, Frozen
    <2> QED
      BY <2>1, <2>2
  <1> QED
    BY <1>1, <1>2, PTL
    DEF WorkbenchSpec, LeaseSpec, ReleaseSpec, ConnSpec, AuthSpec, SourceSpec, CommandSpec, FormSpec, ConsoleSpec

(***************************************************************************)
(* Types                                                                   *)
(***************************************************************************)

\* Rows, worktrees and deliveries keep their types with overlap too.
LEMMA LeaseTablesStep ==
  ASSUME LeaseTables, [LeaseNext]_leaseVars
  PROVE  LeaseTables'
PROOF
  <1> USE DEF LeaseTables, LeaseTypeOK
  <1>1. CASE UNCHANGED leaseVars
    BY <1>1 DEF leaseVars
  <1>2. ASSUME NEW d \in Deliveries, NEW w \in DeliveryRows, delivery' = [delivery EXCEPT ![d] = w] PROVE delivery' \in [Deliveries -> DeliveryRows]
    BY <1>2
  <1>3. ASSUME NEW d \in Deliveries, NEW v \in Stages, Goto(d, v) PROVE delivery' \in [Deliveries -> DeliveryRows]
    <2>1. [delivery[d] EXCEPT !.pc = v] \in DeliveryRows
      BY DEF DeliveryRows
    <2> QED BY <1>2, <1>3, <2>1 DEF Goto
  <1>4. ASSUME NEW l, NEW v \in LeaseStates, SetLease(l, v)
        PROVE  lease' \in [Leases -> [state : LeaseStates, bound : BOOLEAN, code : BOOLEAN]]
    BY <1>4 DEF SetLease
  <1>5. ASSUME NEW d \in Deliveries PROVE SweepRow(d) => LeaseTables'
    <2> SUFFICES ASSUME SweepRow(d) PROVE LeaseTables'
      OBVIOUS
    <2>1. PICK r \in delivery[d].rows :
            /\ lease' = [lease EXCEPT ![r[2]].state = SweptState(r[1], r[2]),
                                     ![r[2]].code = @ \/ SweptState(r[1], r[2]) = "FAILED"]
            /\ delivery' = [delivery EXCEPT ![d].rows = @ \ {r},
                                           ![d].pc = IF delivery[d].rows = {r} THEN AfterScan(r[1]) ELSE @]
      BY DEF SweepRow
    <2>2. r \in Scans \X Leases /\ delivery[d] \in DeliveryRows
      BY <2>1 DEF DeliveryRows
    <2>3. SweptState(r[1], r[2]) \in LeaseStates /\ AfterScan(r[1]) \in Stages
      BY <2>2 DEF SweptState, LeaseStates, AfterScan, Stages, Served
    <2>4. lease' \in [Leases -> [state : LeaseStates, bound : BOOLEAN, code : BOOLEAN]]
      BY <2>1, <2>2, <2>3
    <2> DEFINE w == [delivery[d] EXCEPT !.rows = @ \ {r}, !.pc = IF delivery[d].rows = {r} THEN AfterScan(r[1]) ELSE @]
    <2>5. w \in DeliveryRows
      BY <2>2, <2>3 DEF DeliveryRows
    <2>6. delivery' = [delivery EXCEPT ![d] = w]
      BY <2>1, <2>2
    <2>7. delivery' \in [Deliveries -> DeliveryRows]
      BY <1>2, <2>5, <2>6
    <2> QED BY <2>4, <2>7 DEF SweepRow
  <1>6. ASSUME NEW d \in Deliveries PROVE ReadRuns(d) => LeaseTables'
    <2> SUFFICES ASSUME ReadRuns(d) PROVE LeaseTables'
      OBVIOUS
    <2> DEFINE rows == {r \in delivery[d].rows : teamRun[r[2]] = "ended"}
               w == [delivery[d] EXCEPT !.rows = rows, !.pc = IF rows = {} THEN "lookup" ELSE "sweep"]
    <2>0. delivery[d] \in DeliveryRows /\ rows \in SUBSET (Scans \X Leases) /\ {"lookup", "sweep"} \subseteq Stages
      BY DEF DeliveryRows, Stages, Served
    <2>1. w \in DeliveryRows /\ delivery' = [delivery EXCEPT ![d] = w]
      <3>1. delivery' = [delivery EXCEPT ![d] = w]
        BY DEF ReadRuns
      <3> HIDE DEF rows
      <3>2. w \in DeliveryRows
        BY <2>0 DEF DeliveryRows
      <3> QED BY <3>1, <3>2
    <2>2. delivery' \in [Deliveries -> DeliveryRows]
      BY <1>2, <2>1
    <2> QED BY <2>2 DEF ReadRuns
  <1>7. ASSUME NEW d \in Deliveries PROVE ReadList(d) => LeaseTables'
    <2> SUFFICES ASSUME ReadList(d) PROVE LeaseTables'
      OBVIOUS
    <2> DEFINE list == delivery[d].pc
               rows == {<<list, l>> : l \in ListOf(list)}
               w == [delivery[d] EXCEPT !.rows = rows, !.pc = IF ListOf(list) = {} THEN AfterScan(list)
                      ELSE IF list = "scan in use" THEN "runs" ELSE "sweep"]
    <2>1. list \in Scans /\ delivery' = [delivery EXCEPT ![d] = w]
      BY DEF ReadList, DeliveryRows
    <2>2. ListOf(list) \subseteq Leases /\ AfterScan(list) \in Stages
      BY <2>1 DEF ListOf, Scans, AfterScan, Stages, Served
    <2>3. w \in DeliveryRows
      <3>0. delivery[d] \in DeliveryRows /\ {"runs", "sweep"} \subseteq Stages
        BY DEF Stages, Served
      <3>1. rows \in SUBSET (Scans \X Leases)
        BY <2>1, <2>2
      <3> HIDE DEF rows
      <3> QED BY <2>2, <3>0, <3>1 DEF DeliveryRows
    <2>4. delivery' \in [Deliveries -> DeliveryRows]
      BY <1>2, <2>1, <2>3
    <2> QED BY <2>4 DEF ReadList
  <1>8. ASSUME NEW d \in Deliveries, Adopt(d) \/ LookupDelivery(d) \/ AwaitAllocation(d) \/ CrashDelivery(d) PROVE LeaseTables'
    BY <1>3, <1>4, <1>8 DEF Adopt, LookupDelivery, AwaitAllocation, CrashDelivery, Stages, Served, LeaseStates
  <1>9. ASSUME NEW d \in Deliveries, InsertLease(d) PROVE LeaseTables'
    BY <1>3, <1>4, <1>9 DEF InsertLease, Stages, Served, LeaseStates
  <1>10. ASSUME NEW d \in Deliveries, EndAllocation(d) PROVE LeaseTables'
    <2>1. delivery' \in [Deliveries -> DeliveryRows]
      BY <1>3, <1>10 DEF EndAllocation, Stages, Served
    <2> DEFINE l == delivery[d].cmd
               v == IF At(d, "added") THEN "READY" ELSE "FAILED"
               b == (lease[l].code \/ ~At(d, "added"))
    <2>2. lease' = [lease EXCEPT ![l].state = v, ![l].code = b] /\ v \in LeaseStates
      BY <1>10 DEF EndAllocation, LeaseStates
    <2>b. b \in BOOLEAN
      OBVIOUS
    <2>3. lease' \in [Leases -> [state : LeaseStates, bound : BOOLEAN, code : BOOLEAN]]
      <3> HIDE DEF v, b
      <3> QED BY <2>2, <2>b
    <2> QED BY <1>10, <2>1, <2>3 DEF EndAllocation
  <1>11. ASSUME NEW d \in Deliveries, GitAdd(d) PROVE LeaseTables'
    BY <1>3, <1>11 DEF GitAdd, Stages, Served
  <1>12. ASSUME NEW d \in Deliveries, CommitStart(d) PROVE LeaseTables'
    <2>1. Repeated(d) \in Stages /\ {"executed", "refused"} \subseteq Stages
      BY DEF Repeated, Stages
    <2>2. delivery' \in [Deliveries -> DeliveryRows]
      BY <1>3, <1>12, <2>1 DEF CommitStart
    <2> QED BY <1>12, <2>2 DEF CommitStart, LeaseStates
  <1>13. ASSUME NEW d \in Deliveries, CommitContinue(d) PROVE LeaseTables'
    <2>1. Repeated(d) \in Stages /\ {"executed", "refused"} \subseteq Stages
      BY DEF Repeated, Stages
    <2>2. delivery' \in [Deliveries -> DeliveryRows]
      BY <1>3, <1>13, <2>1 DEF CommitContinue
    <2> DEFINE c == delivery[d].cmd
               s == Source[c]
    <2>3. CASE UNCHANGED lease
      BY <1>13, <2>2, <2>3 DEF CommitContinue
    <2>4. CASE lease' = [lease EXCEPT ![s].state = IF s \in Isolated THEN "TRANSFERRED" ELSE @,
                                      ![c] = [state |-> "IN_USE", bound |-> TRUE, code |-> FALSE]]
      <3> DEFINE R == [state : LeaseStates, bound : BOOLEAN, code : BOOLEAN]
                 moved == [lease EXCEPT ![s].state = IF s \in Isolated THEN "TRANSFERRED" ELSE @]
      <3>2. moved \in [Leases -> R]
        BY DEF LeaseStates
      <3>3. lease' = [moved EXCEPT ![c] = [state |-> "IN_USE", bound |-> TRUE, code |-> FALSE]]
        BY <2>4
      <3>4. [state |-> "IN_USE", bound |-> TRUE, code |-> FALSE] \in R
        BY DEF LeaseStates
      <3>1. lease' \in [Leases -> R]
        <4> HIDE DEF moved, R
        <4> QED BY <3>2, <3>3, <3>4
      <3> QED BY <1>13, <2>2, <3>1 DEF CommitContinue
    <2> QED BY <1>13, <2>3, <2>4 DEF CommitContinue
  <1>14. ASSUME NEW d \in Deliveries, NEW s \in Starts, DeliverStart(d, s) PROVE LeaseTables'
    <2> DEFINE w == [delivery[d] EXCEPT !.cmd = s, !.payload = IF source THEN "dirty source" ELSE "clean source",
                       !.pc = IF source /\ s \in Isolated THEN "refused" ELSE "scan allocating"]
    <2>0. /\ delivery[d] \in DeliveryRows /\ s \in Leases /\ {"refused", "scan allocating"} \subseteq Stages
          /\ {"dirty source", "clean source"} \subseteq Payloads
      BY DEF Stages, Served, Payloads, Leases
    <2>1. w \in DeliveryRows /\ delivery' = [delivery EXCEPT ![d] = w]
      BY <1>14, <2>0 DEF DeliveryRows, DeliverStart
    <2>2. delivery' \in [Deliveries -> DeliveryRows]
      BY <1>2, <2>1
    <2> QED BY <1>14, <2>2 DEF DeliverStart
  <1>15. ASSUME NEW d \in Deliveries, NEW c \in Continues, DeliverContinue(d, c) PROVE LeaseTables'
    <2> DEFINE w == [delivery[d] EXCEPT !.cmd = c, !.payload = lease[Source[c]].state,
                       !.pc = IF teamRun[Source[c]] = "ended" THEN "continue" ELSE "refused"]
    <2>1. Source[c] \in Leases /\ c \in Leases
      BY WorkspaceAssumption DEF Leases
    <2>0. /\ delivery[d] \in DeliveryRows /\ {"continue", "refused"} \subseteq Stages /\ lease[Source[c]].state \in Payloads
      BY <2>1 DEF Stages, Payloads
    <2>2. w \in DeliveryRows /\ delivery' = [delivery EXCEPT ![d] = w]
      BY <1>15, <2>0, <2>1 DEF DeliveryRows, DeliverContinue
    <2>3. delivery' \in [Deliveries -> DeliveryRows]
      BY <1>2, <2>2
    <2> QED BY <1>15, <2>3 DEF DeliverContinue
  <1>16. ASSUME NEW l \in Leases, AgentWork(l) \/ AgeLease(l) PROVE LeaseTables'
    BY <1>16 DEF AgentWork, AgeLease
  <1>17. ASSUME NEW l \in Leases, ReleaseLease(l) PROVE LeaseTables'
    BY <1>17 DEF ReleaseLease, LeaseStates
  <1>18. ASSUME NEW l \in Leases, NEW p \in BOOLEAN, EndTeamRun(l, p) PROVE LeaseTables'
    BY <1>18 DEF EndTeamRun, SetLease, LeaseStates
  <1> QED
    BY <1>1, <1>5, <1>6, <1>7, <1>8, <1>9, <1>10, <1>11, <1>12, <1>13, <1>14, <1>15, <1>16, <1>17, <1>18
    DEF LeaseNext, LeaseWrites

\* The bounds on revisions and time.
ConnBounds ==
  /\ now \in 1..ClockLimit
  /\ \A c \in Conns : Current(c) <= RevLimit /\ card[c].of <= RevLimit

\* A connection that is within the limit of all has fewer revisions than it.
LEMMA RevisionsFit ==
  ASSUME ConnInv, ConnBounds, WithinLimit, NEW c \in Conns
  PROVE  Current(c) + 1 <= RevLimit
PROOF
  <1> DEFINE all == {r \in Conns \X (1..RevLimit) : r[2] <= Current(r[1])}
             own == {<<c, n>> : n \in 1..Current(c)}
  <1>1. Current(c) \in Nat /\ RevLimit \in Nat /\ MaxConns \in Nat /\ Current(c) <= RevLimit
    BY ConnectionAssumption DEF ConnInv, ConnTables, Current, ConnBounds
  <1>2. IsFiniteSet(all)
    <2>1. IsFiniteSet(Conns) /\ IsFiniteSet(1..RevLimit)
      BY <1>1, FS_Interval DEF Conns
    <2>2. IsFiniteSet(Conns \X (1..RevLimit))
      BY <2>1, FS_Product
    <2> QED BY <2>2, FS_Subset
  <1>3. own \subseteq all
    BY <1>1
  <1>4. Cardinality(own) = Current(c)
    <2> DEFINE f == [n \in 1..Current(c) |-> <<c, n>>]
    <2>1. f \in Bijection(1..Current(c), own)
      BY DEF Bijection, Injection, Surjection, IsInjective
    <2>2. IsFiniteSet(1..Current(c)) /\ Cardinality(1..Current(c)) = Current(c)
      BY <1>1, FS_Interval
    <2> QED BY <2>1, <2>2, FS_Bijection DEF ExistsBijection
  <1>5. Cardinality(own) <= Cardinality(all) /\ Cardinality(all) \in Nat
    <2> HIDE DEF own, all
    <2> QED BY <1>2, <1>3, FS_Subset, FS_CardinalityType
  <1>6. Cardinality(all) < RevLimit
    BY DEF WithinLimit
  <1> HIDE DEF own, all
  <1> QED BY <1>1, <1>4, <1>5, <1>6

LEMMA ConnBoundsStep ==
  ASSUME ConnInv, ConnBounds, [ConnNext]_connVars
  PROVE  ConnBounds'
PROOF
  <1>0. /\ card \in [Conns -> CardRows] /\ revisions \in [Conns -> Seq(RevisionRows)] /\ test \in [Tests -> TestRows]
        /\ RevLimit \in Nat \ {0} /\ ClockLimit \in Nat \ {0}
    BY ConnectionAssumption DEF ConnInv, ConnTables
  <1>1. CASE UNCHANGED <<card, revisions, now>>
    BY <1>1 DEF ConnBounds, Current
  <1>2. CASE ConnTick
    BY <1>0, <1>2 DEF ConnBounds, Current, ConnTick
  <1>3. ASSUME NEW c \in Conns, NEW p \in Profiles, Insert(c, p), UNCHANGED now PROVE ConnBounds'
    <2>1. Len(revisions'[c]) = 1 /\ \A e \in Conns \ {c} : revisions'[e] = revisions[e]
      BY <1>0, <1>3 DEF Insert
    <2>2. card'[c].of = 0 /\ \A e \in Conns \ {c} : card'[e] = card[e]
      BY <1>0, <1>3, DraftRows DEF Insert
    <2>3. \A e \in Conns : Len(revisions'[e]) <= RevLimit /\ card'[e].of <= RevLimit
      <3>1. \A e \in Conns \ {c} : Len(revisions[e]) <= RevLimit /\ card[e].of <= RevLimit
        BY DEF ConnBounds, Current
      <3>2. Len(revisions'[c]) <= RevLimit /\ card'[c].of <= RevLimit
        BY <1>0, <2>1, <2>2
      <3> QED BY <2>1, <2>2, <3>1, <3>2
    <2> QED BY <1>3, <2>3 DEF ConnBounds, Current
  <1>4. ASSUME NEW c \in Conns, NEW p \in Profiles, ReviseConnection(c, p) PROVE ConnBounds'
    <2>1. Len(revisions'[c]) = Current(c) + 1 /\ \A e \in Conns \ {c} : revisions'[e] = revisions[e]
      BY <1>0, <1>4 DEF ReviseConnection, Current
    <2>2. card'[c].of = 0 /\ (\A e \in Conns \ {c} : card'[e] = card[e]) /\ now' = now
      BY <1>0, <1>4, DraftRows DEF ReviseConnection
    <2>3. Current(c) + 1 <= RevLimit
      BY <1>4, RevisionsFit DEF ReviseConnection
    <2>4. \A e \in Conns : Len(revisions'[e]) <= RevLimit /\ card'[e].of <= RevLimit
      <3>1. \A e \in Conns \ {c} : Len(revisions[e]) <= RevLimit /\ card[e].of <= RevLimit
        BY DEF ConnBounds, Current
      <3>2. Len(revisions'[c]) <= RevLimit /\ card'[c].of <= RevLimit
        BY <1>0, <2>1, <2>2, <2>3
      <3> QED BY <2>1, <2>2, <3>1, <3>2
    <2> QED BY <2>2, <2>4 DEF ConnBounds, Current
  <1>5. ASSUME NEW c \in Conns, RevokeConnection(c) PROVE ConnBounds'
    <2>1. \A e \in Conns : card'[e].of = card[e].of
      BY <1>0, <1>5 DEF RevokeConnection, CardRows
    <2> QED BY <1>5, <2>1 DEF ConnBounds, Current, RevokeConnection
  <1>6. ASSUME NEW t \in Tests, PersistTest(t) PROVE ConnBounds'
    <2>1. test[t].rev <= Current(test[t].conn) /\ test[t].conn \in Conns /\ test[t].rev \in Nat
      BY <1>0, <1>6 DEF ConnInv, TestOK, PersistTest, TestRows
    <2>2. test[t].rev <= RevLimit
      BY <1>0, <2>1 DEF ConnBounds, Current
    <2>3. \A e \in Conns : card'[e].of = card[e].of \/ card'[e].of = test[t].rev
      BY <1>0, <1>6 DEF PersistTest
    <2> QED BY <1>6, <2>2, <2>3 DEF ConnBounds, Current, PersistTest
  <1>7. ASSUME NEW k \in Onboards, NEW p \in Profiles, OnboardCreate(k, p) PROVE ConnBounds'
    <2>1. onboard[k].conn \in Conns
      BY <1>7 DEF ConnInv, OnboardCreate
    <2> QED BY <1>1, <1>3, <1>7, <2>1 DEF OnboardCreate
  <1> QED
    BY <1>1, <1>2, <1>3, <1>4, <1>5, <1>6, <1>7 DEF ConnNext, connVars, CreateConnection, ReadStatus, EndProbe, ClaimRevision,
       AssertConnectionNotRevoked, ChooseId, OnboardTest

\* The revisions of sign-in flows.
AuthBounds ==
  /\ authorized \in [rev : 1..AuthRevLimit, revoked : BOOLEAN]
  /\ \A b \in Begins : begin[b].rev \in 0..AuthRevLimit /\ flow[b].rev \in 0..AuthRevLimit
  /\ \A b \in Begins : flow[b].live => flow[b].rev = begin[b].rev

LEMMA AuthBoundsStep ==
  ASSUME AuthInv, AuthBounds, [AuthNext]_authVars
  PROVE  AuthBounds'
PROOF
  <1>0. /\ begin \in [Begins -> BeginRows] /\ flow \in [Begins -> FlowRows] /\ AuthRevLimit \in Nat \ {0}
        /\ authorized.rev \in 0..AuthRevLimit
    BY AuthAssumption DEF AuthInv, AuthTables, AuthBounds
  <1>1. Unregistered.live = FALSE /\ Unregistered.rev \in 0..AuthRevLimit
    BY <1>0 DEF Unregistered
  <1> DEFINE SameRevs == \A b \in Begins : begin'[b].rev = begin[b].rev
             FewerFlowsLive == \A b \in Begins : flow'[b] = flow[b] \/ flow'[b] = Unregistered
  <1>2. CASE UNCHANGED authorized /\ SameRevs /\ FewerFlowsLive
    <2>1. \A b \in Begins : flow'[b].rev \in 0..AuthRevLimit /\ (flow'[b].live => flow'[b] = flow[b])
      BY <1>1, <1>2 DEF AuthBounds
    <2> QED BY <1>0, <1>2, <2>1 DEF AuthBounds
  <1>3. \A S : flow' = DropFlows(S) => FewerFlowsLive
    BY DEF DropFlows
  <1>4. ASSUME NEW b \in Begins, ResolveRevision(b) PROVE AuthBounds'
    <2>1. /\ begin'[b].rev = authorized.rev /\ \A c \in Begins \ {b} : begin'[c].rev = begin[c].rev
      BY <1>0, <1>4 DEF ResolveRevision, BeginRows
    <2>2. ~flow[b].live /\ UNCHANGED <<flow, authorized>>
      BY <1>4 DEF ResolveRevision, AuthInv, ServersAreOwned
    <2>3. \A c \in Begins : begin'[c].rev \in 0..AuthRevLimit /\ flow'[c].rev \in 0..AuthRevLimit
      BY <1>0, <2>1, <2>2 DEF AuthBounds
    <2>4. \A c \in Begins : flow'[c].live => flow'[c].rev = begin'[c].rev
      BY <2>1, <2>2 DEF AuthBounds
    <2> QED BY <2>2, <2>3, <2>4 DEF AuthBounds
  <1>5. ASSUME NEW b \in Begins, EvictStaleFor(b) \/ Classify(b) \/ Authorize(b) PROVE AuthBounds'
    <2>1. SameRevs
      BY <1>0, <1>5 DEF EvictStaleFor, Classify, Authorize, BeginRows
    <2>2. FewerFlowsLive /\ UNCHANGED authorized
      BY <1>3, <1>5 DEF EvictStaleFor, Classify, Authorize
    <2> QED BY <1>2, <2>1, <2>2
  <1>6. ASSUME NEW b \in Begins, Register(b) PROVE AuthBounds'
    <2>1. SameRevs /\ UNCHANGED authorized
      BY <1>0, <1>6 DEF Register, BeginRows
    <2>2. CASE UNCHANGED flow
      BY <1>2, <2>1, <2>2
    <2>3. CASE flow' = [flow EXCEPT ![b] = [live |-> TRUE, rev |-> begin[b].rev]]
      <3>1. flow'[b].rev = begin[b].rev /\ \A c \in Begins \ {b} : flow'[c] = flow[c]
        BY <1>0, <2>3
      <3>2. \A c \in Begins : begin'[c].rev \in 0..AuthRevLimit /\ flow'[c].rev \in 0..AuthRevLimit
        BY <2>1, <3>1 DEF AuthBounds
      <3>3. \A c \in Begins : flow'[c].live => flow'[c].rev = begin'[c].rev
        BY <2>1, <3>1 DEF AuthBounds
      <3> QED BY <2>1, <3>2, <3>3 DEF AuthBounds
    <2> QED BY <1>6, <2>2, <2>3 DEF Register
  <1>7. ASSUME NEW k \in Completes, Callback(k) \/ EndCallback(k) \/ \E f \in Begins : Fence(k, f) PROVE AuthBounds'
    BY <1>2, <1>3, <1>7 DEF Callback, EndCallback, Fence
  <1>8. ASSUME (\E f \in Begins : CancelAuthFlow(f) \/ Expire(f)) \/ GetActiveAuthFlows \/ CloseAll PROVE AuthBounds'
    BY <1>2, <1>3, <1>8 DEF CancelAuthFlow, Expire, RemoveFlow, GetActiveAuthFlows, CloseAll
  <1>9. CASE ChangeAuthority
    <2>1. authorized' \in [rev : 1..AuthRevLimit, revoked : BOOLEAN]
      <3>1. authorized \in [rev : 1..AuthRevLimit, revoked : BOOLEAN]
        BY DEF AuthBounds
      <3>2. CASE authorized.rev < AuthRevLimit /\ authorized' = [authorized EXCEPT !.rev = @ + 1]
        BY <1>0, <3>1, <3>2
      <3>3. CASE authorized' = [authorized EXCEPT !.revoked = TRUE]
        BY <3>1, <3>3
      <3> QED BY <1>9, <3>2, <3>3 DEF ChangeAuthority
    <2> QED BY <1>9, <2>1 DEF AuthBounds, ChangeAuthority
  <1>10. CASE UNCHANGED authVars
    BY <1>2, <1>10 DEF authVars
  <1> QED
    BY <1>4, <1>5, <1>6, <1>7, <1>8, <1>9, <1>10 DEF AuthNext, BeginStep

\* What the picker holds: a model only with a connection.
FormRest ==
  /\ target.conn = NoConn => target.model = NoModel
  /\ provider \in FormProviders \cup {NoProvider}
  /\ started \subseteq Targets

LEMMA FormRestStep ==
  ASSUME FormInv, FormRest, [FormNext]_formVars
  PROVE  FormRest'
PROOF
  <1>1. CASE UNCHANGED <<target, provider, started>>
    BY <1>1 DEF FormRest
  <1>2. ASSUME NEW c \in FormConns \cup {NoConn}, HandleConnectionChange(c) PROVE FormRest'
    BY <1>2 DEF FormRest, HandleConnectionChange, ConnectionEffect
  <1>3. ASSUME NEW m \in FormModels \cup {NoModel}, SelectModel(m) \/ EnterModel(m) PROVE FormRest'
    <2>1. target' = target \/ (target.conn # NoConn /\ target' = [target EXCEPT !.model = m])
      BY <1>3 DEF SelectModel, EnterModel
    <2>2. target'.conn = NoConn => target'.model = NoModel
      BY <2>1 DEF FormRest, FormInv, Targets
    <2> QED BY <1>3, <2>2 DEF FormRest, SelectModel, EnterModel
  <1>4. ASSUME NEW p \in FormProviders \cup {NoProvider}, SelectProvider(p) PROVE FormRest'
    BY <1>4 DEF FormRest, SelectProvider
  <1>5. CASE DecideLaunch
    <2>1. launch.target \in Targets
      BY DEF FormInv, Launches
    <2> QED BY <1>5, <2>1 DEF FormRest, DecideLaunch, pickerVars
  <1> QED
    BY <1>1, <1>2, <1>3, <1>4, <1>5 DEF FormNext, SelectRole, formVars, pickerVars, FormSignInChanges, RefreshModels, EditBounds,
       HandleSubmit, DiscoveryAnswers, ProvidersAnswer, ModelsAnswer, ChooseWorkspace, LoadCatalogs

\* Leases, release rows, connections, sign-in flows and the launch form keep
\* their types and bounds, with overlapping sessions too; a registered flow is
\* that of a call that registered it, on the revision the call resolved, and a
\* card exists exactly when it has a revision.
THEOREM WorkbenchTypeOKHolds == WorkbenchSpec => []WorkbenchTypeOK
PROOF
  <1>1. LeaseInit => LeaseTables
    BY LeaseInitially DEF LeaseInv
  <1>2. ConnInit => ConnBounds
    BY ConnectionAssumption, DraftRows DEF ConnInit, ConnBounds, Current, Draft
  <1>3. AuthInit => AuthBounds
    <2> SUFFICES ASSUME AuthInit PROVE AuthBounds
      OBVIOUS
    <2>1. \A b \in Begins : begin[b].rev = 0 /\ flow[b].rev = 0 /\ ~flow[b].live
      BY DEF AuthInit, Unregistered
    <2> QED BY <2>1, AuthAssumption DEF AuthInit, AuthBounds
  <1>4. FormInit => FormRest
    BY DEF FormInit, FormRest, NoTarget
  <1>5. LeaseTables => LeaseTypeOK
    BY DEF LeaseTables
  <1>6. ConnInv /\ ConnBounds => ConnTypeOK
    <2> SUFFICES ASSUME ConnInv, ConnBounds PROVE ConnTypeOK
      OBVIOUS
    <2>1. RevLimit \in Nat /\ ClockLimit \in Nat /\ now \in Nat
      BY ConnectionAssumption DEF ConnInv, ConnTables
    <2>2. ASSUME NEW c \in Conns
          PROVE  /\ card[c] \in [state : StatusStates, testedAt : 0..ClockLimit, of : 0..RevLimit]
                 /\ Len(revisions[c]) \in 0..RevLimit /\ (Exists(c) <=> revisions[c] # <<>>)
      <3>1. card[c] \in CardRows /\ card[c].testedAt <= now /\ Current(c) \in Nat
        BY DEF ConnInv, ConnTables, CardOK, Current
      <3> QED BY <2>1, <3>1 DEF ConnInv, CardOK, ConnBounds, CardRows, Current
    <2>3. card \in [Conns -> [state : StatusStates, testedAt : 0..ClockLimit, of : 0..RevLimit]]
      BY <2>2 DEF ConnInv, ConnTables
    <2>4. (\A t \in Tests : test[t].pc \in {"idle", "claimed", "probing", "probed"})
          /\ \A a \in Attempts : claim[a].pc \in {"none", "claimed", "dispatched", "denied"}
      BY DEF ConnInv, ConnTables, TestRows, ClaimRows
    <2>5. \A k \in Onboards : onboard[k].conn \in 0..MaxConns /\ onboard[k].audit \in 0..MaxConns
      BY DEF ConnInv, ConnTables, OnboardRows
    <2> QED BY <2>2, <2>3, <2>4, <2>5 DEF ConnTypeOK, ConnBounds
  <1>7. AuthInv /\ AuthBounds => AuthTypeOK
    <2> SUFFICES ASSUME AuthInv, AuthBounds PROVE AuthTypeOK
      OBVIOUS
    <2>1. flow \in [Begins -> [live : BOOLEAN, rev : 0..AuthRevLimit]]
      BY DEF AuthInv, AuthTables, AuthBounds, FlowRows
    <2> QED BY <2>1 DEF AuthInv, AuthTables, AuthBounds, AuthTypeOK, RegisteredFlows, ServersAreOwned
  <1>8. FormInv /\ FormRest => FormTypeOK
    BY DEF FormInv, FormRest, FormTypeOK, Targets
  <1>9. LeaseTables /\ ReleaseInv /\ ConnInv /\ ConnBounds /\ AuthInv /\ AuthBounds /\ FormInv /\ FormRest => WorkbenchTypeOK
    BY <1>5, <1>6, <1>7, <1>8, ReleaseInvSays DEF WorkbenchTypeOK
  <1>10. LeaseTables /\ [LeaseNext]_leaseVars => LeaseTables'
    BY LeaseTablesStep
  <1>11. ConnInv /\ ConnBounds /\ [ConnNext]_connVars => ConnBounds'
    BY ConnBoundsStep
  <1>12. AuthInv /\ AuthBounds /\ [AuthNext]_authVars => AuthBounds'
    BY AuthBoundsStep
  <1>13. FormInv /\ FormRest /\ [FormNext]_formVars => FormRest'
    BY FormRestStep
  <1> QED
    BY <1>1, <1>2, <1>3, <1>4, <1>9, <1>10, <1>11, <1>12, <1>13, WorkbenchImplementsParts, ReleaseInvariance, ConnInvariance,
       AuthInvariance, FormInvariance, PTL DEF LeaseSpec, ConnSpec, AuthSpec, FormSpec

\* A working tree has one run and one owner, a lease says what is on disk, and
\* what is reported removed is removed (allocateExecutionWorkspace,
\* reconcileWorkspaceExecutions, releaseExecutionWorkspace, the attention
\* queue), as long as no session commits between an observation of the sweep
\* or of an allocator and the unguarded write it leads to.
THEOREM LeasesAreSoundHolds ==
  ASSUME ~Overlap
  PROVE  WorkbenchSpec => []LeasesAreSound
PROOF
  <1>1. ConsoleInv => ReleasedMeansRemoved
    BY DEF ConsoleInv
  <1>2. LeaseInv /\ ReleaseInv /\ ConsoleInv => LeasesAreSound
    BY <1>1, LeaseInvSays, ReleaseInvSays DEF LeasesAreSound
  <1> QED
    BY <1>2, WorkbenchImplementsParts, LeaseInvariance, ReleaseInvariance, ConsoleInvariance, PTL

\* Cards, claims, evidence, audit rows, servers and flows belong to the
\* configuration, revision, request or owner they name (runtime-connection,
\* model-source, workbench-command, opencode-auth-flow), as long as no edit of
\* a source commits while a probe of it runs, and requests differ in what the
\* audit payload keeps.
THEOREM ConnectionsAreSoundHolds ==
  ASSUME ~SourceOverlap, \A q, r \in Rests : q = r
  PROVE  WorkbenchSpec => []ConnectionsAreSound
PROOF
  <1>1. SourceInv => EvidenceIsOfConfiguration
    BY DEF SourceInv
  <1>2. ConnInv /\ AuthInv /\ SourceInv /\ CommandInv => ConnectionsAreSound
    BY <1>1, ConnInvSays, AuthInvSays, CommandInvSays DEF ConnectionsAreSound
  <1> QED
    BY <1>2, WorkbenchImplementsParts, ConnInvariance, AuthInvariance, SourceInvariance, CommandInvariance, PTL

\* A revoked connection stays revoked, the newest test's result stands when
\* one process serves the tests, and only targets that were connected since
\* the click are launched (revokeConnection, testConnection, handleSubmit).
THEOREM ChoicesStandHolds ==
  ASSUME OneProcess
  PROVE  WorkbenchSpec => ChoicesStand
PROOF
  <1>1. ConnInv /\ FormInv /\ [ConnNext]_connVars /\ [FormNext]_formVars
          => RevokedIsTerminal /\ NewestTestWins /\ LaunchedTargetsWereConnected
    BY ConnStepStands, FormStepStands
  <1> QED
    BY <1>1, WorkbenchImplementsParts, ConnInvariance, FormInvariance, PTL DEF ConnSpec, FormSpec, ChoicesStand
=============================================================================
