------------------------------ MODULE Recovery ------------------------------
(***************************************************************************)
(* Self-hosted maintenance (scripts/self-hosted): the maintenance lock,    *)
(* the recovery journal, verified backup, restore (drill, promote,         *)
(* reconcile) and upgrade.  An invocation is one command line run; what it *)
(* still has to do is a sequence of steps, each of which may fail (and is  *)
(* then replaced by its `fail' steps) and after each of which the process  *)
(* may be killed.  A database is its name and whose content it holds:      *)
(* "original", or the invocation that restored it.                         *)
(***************************************************************************)
EXTENDS Naturals, Sequences, FiniteSets

CONSTANTS
    CommandLines,        \* the command line runs, in the order they are given
    Modes,               \* the commands the operator may give
    Clears,              \* runs of maintenance.mjs --clear-stale-lock
    RecoveryCrashLimit,  \* bound on kills
    LossLimit            \* bound on damage to the journal file

Invocations == {CommandLines[n] : n \in DOMAIN CommandLines}

ASSUME RecoveryAssumption ==
    /\ CommandLines \in Seq(Invocations) /\ Cardinality(Invocations) = Len(CommandLines)
    /\ Invocations \cap {"original", "none"} = {}
    /\ Modes \subseteq {"reconcile", "drill", "promote", "backup", "upgrade"}
    /\ {RecoveryCrashLimit, LossLimit} \subseteq Nat

VARIABLES
    lockFile,   \* .maintenance.lock: [pid, record] or absent
    life,       \* per invocation
    mode,       \* its command
    todo,       \* its remaining steps
    clearing,   \* per clear: the dead owner it read
    journal,    \* .recovery-journal.json
    db,         \* database name -> content
    services,   \* orchestrator and gateway
    versions,   \* [deployed (deploy.env), running (containers)]
    backups,    \* verified backups: [by, version]
    authority,  \* ghost: the content that is the proven authority
    settled,    \* ghost: invocations whose reconciliation ended unblocked
    crashes, lostCopies

recoveryVars == <<lockFile, life, mode, todo, clearing, journal, db, services,
                  versions, backups, authority, settled, crashes, lostCopies>>

JournalPhases == {"verify-done", "quiescing", "swap-active-to-safety",
                  "swap-verified-to-active", "post-gates", "complete"}
FailedNames == {"failed", "failed_1"}  \* the base name and one of the code's 100 others
Databases   == {"active", "safety", "isolated"} \cup FailedNames
Contents    == {"original"} \cup Invocations
Missing     == "none"
NoLock      == [pid |-> Missing, record |-> FALSE]
Has(name)   == db[name] # Missing
JournalState == IF journal \in JournalPhases THEN "valid" ELSE journal

----------------------------------------------------------------------------
(* The steps of a command.                                                 *)

Step0(op)            == [op |-> op, fail |-> <<>>]
Check                == Step0("check")
JournalAt(phase)     == [op |-> "journal", phase |-> phase, fail |-> <<>>]
Rename(a, b, fail)   == [op |-> "rename", from |-> a, to |-> b, fail |-> fail]
Drop(name, fail)     == [op |-> "drop", from |-> name, fail |-> fail]
Clear                == Step0("clear")
RestartAndProve      == Step0("start")

(* freeFailedPromotionName: the base name when free, else a numbered one. *)
FreeFailedPromotionName ==
    CASE ~Has("failed") -> "failed"
      [] Has("failed") /\ ~Has("failed_1") -> "failed_1"
      [] OTHER -> "no free name"

(* rollbackAfterGateFailure: the candidate is moved aside, the safety copy *)
(* becomes active, the deployment is proven, the journal goes last.        *)
RollbackPostPromotion ==
    << Step0("quiesce"), Rename("active", FreeFailedPromotionName, <<>>),
       Rename("safety", "active", <<>>), RestartAndProve, Clear,
       Drop(FreeFailedPromotionName, <<>>) >>

(* swapAuthority's failure handlers. *)
RestartUntouched == << RestartAndProve >>
RollbackSwap     == << Rename("safety", "active", <<>>), RestartAndProve, Clear >>

Drill   == << Check, Step0("restore"), Check >>
Promote ==
    Drill \o
    << JournalAt("verify-done"), JournalAt("quiescing"), Step0("quiesce"),
       JournalAt("swap-active-to-safety"), Drop("safety", RestartUntouched),
       Rename("active", "safety", RestartUntouched),
       JournalAt("swap-verified-to-active"),
       Rename("isolated", "active", RollbackSwap),
       JournalAt("post-gates"), Step0("gates"), JournalAt("complete") >>

(* Mutant: the stack is recreated before the backup is taken. *)
UpgradeUnbacked == << Step0("target"), Check, Check, Step0("up"), Step0("backup"), Check, Step0("persist") >>

Upgrade == << Step0("target"), Check, Step0("backup"), Check, Step0("up"), Check,
              Step0("persist") >>

(* Mutant: an active database next to a safety copy is taken for a         *)
(* completed recovery whatever the journal says.                           *)
PlanTrustingLayout ==
    IF Has("safety") /\ ~Has("active") THEN "restore-original"
    ELSE IF ~Has("active") THEN "blocked"
    ELSE IF journal \in {"quiescing", "swap-active-to-safety"} THEN "restart-original"
    ELSE "proceed"

(* planReconciliation: the decision table over journal and layout, in its order. *)
PlanReconciliation ==
    IF JournalState = "valid" /\ journal = "complete" THEN "proceed"
    ELSE IF JournalState # "valid" /\ Has("safety") /\ Has("active") THEN "blocked"
    ELSE IF Has("safety") /\ ~Has("active") THEN "restore-original"
    ELSE IF ~Has("active") THEN "blocked"
    ELSE IF journal \in {"quiescing", "swap-active-to-safety"} THEN "restart-original"
    ELSE IF journal \in {"swap-verified-to-active", "post-gates"} THEN
             IF Has("safety") THEN "rollback-candidate" ELSE "proceed-restart"
    ELSE "proceed"

(* What reconcileInterruptedState then does, in its order. *)
MayClear == JournalState = "malformed" \/ (JournalState = "valid" /\ ~Has("safety"))
Reconciliation(plan) ==
    CASE plan = "proceed" -> IF MayClear THEN <<Clear>> ELSE <<>>
      [] plan = "proceed-restart" -> <<Clear, RestartAndProve>>
      [] plan = "restart-original" ->
             <<RestartAndProve>> \o (IF Has("safety") THEN <<>> ELSE <<Clear>>)
      [] plan = "restore-original" ->
             <<Rename("safety", "active", <<>>), RestartAndProve, Clear>>
      [] plan = "rollback-candidate" ->
             <<Rename("active", FreeFailedPromotionName, <<>>),
               Rename("safety", "active", <<>>), RestartAndProve, Clear>>
      [] OTHER -> <<>>

(* The rest of main(): only an unblocked, uninterrupted state goes on; a   *)
(* preserved candidate is dropped only beside a valid journal.             *)
Command(i, plan) ==
    IF mode[i] = "reconcile" \/ plan \notin {"proceed", "proceed-restart"} THEN <<>>
    ELSE (IF JournalState = "valid" THEN <<Drop("failed", <<>>)>> ELSE <<>>)
         \o (IF mode[i] = "drill" THEN Drill ELSE Promote)

----------------------------------------------------------------------------
RecoveryTypeOK ==
    /\ lockFile = NoLock \/ lockFile \in [pid : Invocations, record : BOOLEAN]
    /\ life \in [Invocations -> {"new", "alive", "dead", "done"}]
    /\ mode \in [Invocations -> Modes \cup {Missing}]
    /\ \A i \in Invocations : life[i] # "alive" => todo[i] = <<>>
    /\ clearing \in [Clears -> Invocations \cup {Missing}]
    /\ journal \in JournalPhases \cup {"absent", "malformed"}
    /\ db \in [Databases -> Contents \cup {Missing}]
    /\ services \in {"running", "stopped"}
    /\ versions \in [deployed : 1..2, running : 1..2]
    /\ backups \subseteq [by : Contents, version : 1..2]
    /\ authority \in Contents /\ settled \subseteq Invocations
    /\ crashes \in 0..RecoveryCrashLimit /\ lostCopies \in 0..LossLimit

RecoveryInit ==
    /\ lockFile = NoLock
    /\ life = [i \in Invocations |-> "new"]
    /\ mode = [i \in Invocations |-> Missing]
    /\ todo = [i \in Invocations |-> <<>>]
    /\ clearing = [c \in Clears |-> Missing]
    /\ journal = "absent"
    /\ db = [n \in Databases |-> IF n = "active" THEN "original" ELSE Missing]
    /\ services = "running"
    /\ versions = [deployed |-> 1, running |-> 1]
    /\ backups = {[by |-> "original", version |-> 1]}
    /\ authority = "original" /\ settled = {}
    /\ crashes = 0 /\ lostCopies = 0

Owns(i) == life[i] = "alive" /\ lockFile # NoLock /\ lockFile.pid = i

(* The next command line the operator gives. *)
GivenNext(i) ==
    \E n \in DOMAIN CommandLines :
        /\ CommandLines[n] = i /\ life[i] = "new"
        /\ \A m \in 1..(n - 1) : life[CommandLines[m]] # "new"

(* acquireMaintenanceLock: the O_EXCL create, then the owner record. *)
CreateLock(i, m) ==
    /\ GivenNext(i) /\ lockFile = NoLock
    /\ lockFile' = [pid |-> i, record |-> FALSE]
    /\ life' = [life EXCEPT ![i] = "alive"] /\ mode' = [mode EXCEPT ![i] = m]
    /\ todo' = [todo EXCEPT ![i] = <<Step0("own")>>]
    /\ UNCHANGED <<clearing, journal, db, services, versions, backups, authority,
                   settled, crashes, lostCopies>>

(* A live, a dead (stale) and an unreadable owner all deny acquisition.    *)
Denied(i) ==
    /\ GivenNext(i) /\ lockFile # NoLock
    /\ life' = [life EXCEPT ![i] = "done"]
    /\ UNCHANGED <<lockFile, mode, todo, clearing, journal, db, services, versions, backups,
                   authority, settled, crashes, lostCopies>>

(* Mutant: the clear does not ask whether the recorded owner is alive. *)
ProvablyDeadOrNot(i) == lockFile # NoLock /\ lockFile.pid = i /\ lockFile.record

(* clearStaleMaintenanceLock reads the owner (only ESRCH is dead) ...      *)
ProvablyDead(i) ==
    /\ lockFile # NoLock /\ lockFile.pid = i /\ lockFile.record /\ life[i] = "dead"

ReadStaleOwner(c) == \E i \in Invocations :
    /\ clearing[c] = Missing /\ ProvablyDead(i)
    /\ clearing' = [clearing EXCEPT ![c] = i]
    /\ UNCHANGED <<lockFile, life, mode, todo, journal, db, services, versions,
                   backups, authority, settled, crashes, lostCopies>>

(* ... and removes the file, whoever owns it by then. *)
RemoveStaleLock(c) ==
    /\ clearing[c] # Missing
    /\ lockFile' = NoLock /\ clearing' = [clearing EXCEPT ![c] = Missing]
    /\ UNCHANGED <<life, mode, todo, journal, db, services, versions, backups,
                   authority, settled, crashes, lostCopies>>

----------------------------------------------------------------------------
(* One step of the invocation that runs: its effect, or its failure.       *)

Head1(i)     == Head(todo[i])
AtStep(i, op) == life[i] = "alive" /\ todo[i] # <<>> /\ Head1(i).op = op
Advance(i)   == todo' = [todo EXCEPT ![i] = Tail(@)]
FailStep(i)  == todo' = [todo EXCEPT ![i] = Head1(i).fail]
Unlocked     == UNCHANGED <<life, mode, clearing, crashes, lostCopies>>

(* The owner record is visible; what runs next depends on the command. *)
WriteOwner(i) ==
    /\ AtStep(i, "own")
    /\ lockFile' = IF Owns(i) THEN [lockFile EXCEPT !.record = TRUE] ELSE lockFile
    /\ todo' = [todo EXCEPT ![i] =
                  CASE mode[i] = "backup"  -> <<Step0("backup")>>
                    [] mode[i] = "upgrade" -> Upgrade
                    [] OTHER -> <<Step0("reconcile")>>]
    /\ UNCHANGED <<journal, db, services, versions, backups, authority, settled>>
    /\ Unlocked

(* reconcileInterruptedState: plan from what is observed (a database list  *)
(* that cannot be read blocks); the steps follow, then `settle'.           *)
ReconcileStep(i) ==
    /\ AtStep(i, "reconcile")
    /\ \E plan \in {PlanReconciliation, "blocked"} :
         todo' = [todo EXCEPT ![i] =
            IF plan = "blocked" THEN <<>>
            ELSE Reconciliation(plan) \o <<Step0("settle")>> \o Command(i, plan)]
    /\ UNCHANGED <<lockFile, journal, db, services, versions, backups, authority, settled>>
    /\ Unlocked

SettleStep(i) ==
    /\ AtStep(i, "settle") /\ Advance(i)
    /\ settled' = settled \cup {i}
    /\ UNCHANGED <<lockFile, journal, db, services, versions, backups, authority>>
    /\ Unlocked

(* A verification, build, readiness or invariants step without effect. A   *)
(* readiness check cannot pass without an active database.                 *)
CheckStep(i) ==
    /\ AtStep(i, "check")
    /\ (Has("active") /\ Advance(i)) \/ FailStep(i)
    /\ UNCHANGED <<lockFile, journal, db, services, versions, backups, authority, settled>>
    /\ Unlocked

(* restoreIntoIsolated from a backup of the deployed version (the manifest *)
(* contract); a failure may leave the target created or dropped.           *)
RestoreStep(i) ==
    /\ AtStep(i, "restore")
    /\ \/ /\ \E b \in backups : b.version = versions.deployed
          /\ db' = [db EXCEPT !["isolated"] = i] /\ Advance(i)
       \/ /\ db' \in {db, [db EXCEPT !["isolated"] = Missing]} /\ FailStep(i)
    /\ UNCHANGED <<lockFile, journal, services, versions, backups, authority, settled>>
    /\ Unlocked

(* writeJournal: temp, fsync, rename; a failure throws.  `complete' is     *)
(* what makes the candidate the authority.                                 *)
JournalStep(i) ==
    /\ AtStep(i, "journal")
    /\ \/ /\ journal' = Head1(i).phase /\ Advance(i)
          /\ authority' = IF Head1(i).phase = "complete" THEN db["active"] ELSE authority
       \/ /\ FailStep(i) /\ UNCHANGED <<journal, authority>>
    /\ UNCHANGED <<lockFile, db, services, versions, backups, settled>>
    /\ Unlocked

ClearStep(i) ==
    /\ AtStep(i, "clear") /\ Advance(i) /\ journal' = "absent"
    /\ UNCHANGED <<lockFile, db, services, versions, backups, authority, settled>>
    /\ Unlocked

(* quiesce: a failed stop restarts both services (which may fail too).     *)
QuiesceStep(i) ==
    /\ AtStep(i, "quiesce")
    /\ \/ services' = "stopped" /\ Advance(i)
       \/ services' \in {"running", "stopped"} /\ FailStep(i)
    /\ settled' = settled \ {i}
    /\ UNCHANGED <<lockFile, journal, db, versions, backups, authority>>
    /\ Unlocked

(* startServices + readiness + invariants. *)
StartStep(i) ==
    /\ AtStep(i, "start")
    /\ \/ Has("active") /\ services' = "running" /\ Advance(i)
       \/ services' \in {services, "running"} /\ FailStep(i)
    /\ UNCHANGED <<lockFile, journal, db, versions, backups, authority, settled>>
    /\ Unlocked

(* ALTER DATABASE ... RENAME: needs its source and a free target, and may  *)
(* fail anyway (an open connection).  Swapping ends the settled state.     *)
RenameStep(i) ==
    LET s == Head1(i) IN
    /\ AtStep(i, "rename")
    /\ \/ /\ s.to \in Databases /\ Has(s.from) /\ ~Has(s.to)
          /\ db' = [db EXCEPT ![s.to] = db[s.from], ![s.from] = Missing] /\ Advance(i)
          /\ settled' = settled \ {i}
       \/ FailStep(i) /\ UNCHANGED <<db, settled>>
    /\ UNCHANGED <<lockFile, journal, services, versions, backups, authority>>
    /\ Unlocked

(* DROP DATABASE IF EXISTS. A drop without a failure handler is ignored.   *)
DropStep(i) ==
    LET s == Head1(i) IN
    /\ AtStep(i, "drop")
    /\ \/ /\ db' = [n \in Databases |-> IF n = s.from THEN Missing ELSE db[n]] /\ Advance(i)
       \/ /\ UNCHANGED db /\ (IF s.fail = <<>> THEN Advance(i) ELSE FailStep(i))
    /\ UNCHANGED <<lockFile, journal, services, versions, backups, authority, settled>>
    /\ Unlocked

(* runPostPromotionGates: any failure rolls back to the original.          *)
GatesStep(i) ==
    /\ AtStep(i, "gates")
    /\ \/ services' = "running" /\ Advance(i)
       \/ /\ services' \in {services, "running"}
          /\ todo' = [todo EXCEPT ![i] = RollbackPostPromotion]
    /\ UNCHANGED <<lockFile, journal, db, versions, backups, authority, settled>>
    /\ Unlocked

(* runVerifiedBackup dumps whatever database is active. *)
BackupStep(i) ==
    /\ AtStep(i, "backup")
    /\ \/ /\ Has("active") /\ Advance(i)
          /\ backups' = backups \cup {[by |-> i, version |-> versions.deployed]}
       \/ FailStep(i) /\ UNCHANGED backups
    /\ UNCHANGED <<lockFile, journal, db, services, versions, authority, settled>>
    /\ Unlocked

(* validateTargetVersion: the target must be newer than deploy.env says.   *)
TargetStep(i) ==
    /\ AtStep(i, "target")
    /\ IF versions.deployed < 2 THEN Advance(i) ELSE FailStep(i)
    /\ UNCHANGED <<lockFile, journal, db, services, versions, backups, authority, settled>>
    /\ Unlocked

(* compose up -d recreates the services at the target version (fully or,   *)
(* when it fails, perhaps); deploy.env follows only at the very end.       *)
UpStep(i) ==
    /\ AtStep(i, "up")
    /\ \/ versions' = [versions EXCEPT !.running = 2] /\ services' = "running" /\ Advance(i)
       \/ /\ versions' \in {versions, [versions EXCEPT !.running = 2]}
          /\ FailStep(i) /\ UNCHANGED services
    /\ UNCHANGED <<lockFile, journal, db, backups, authority, settled>>
    /\ Unlocked

PersistStep(i) ==
    /\ AtStep(i, "persist") /\ Advance(i)
    /\ versions' = [versions EXCEPT !.deployed = 2]
    /\ UNCHANGED <<lockFile, journal, db, services, backups, authority, settled>>
    /\ Unlocked

(* releaseMaintenanceLock removes the file without reading it. *)
FinishInvocation(i) ==
    /\ life[i] = "alive" /\ todo[i] = <<>>
    /\ life' = [life EXCEPT ![i] = "done"] /\ lockFile' = NoLock
    /\ UNCHANGED <<mode, todo, clearing, journal, db, services, versions, backups,
                   authority, settled, crashes, lostCopies>>

(* SIGKILL, at any step. *)
Kill(i) ==
    /\ life[i] = "alive" /\ crashes < RecoveryCrashLimit
    /\ life' = [life EXCEPT ![i] = "dead"] /\ crashes' = crashes + 1
    /\ todo' = [todo EXCEPT ![i] = <<>>]
    /\ UNCHANGED <<lockFile, mode, clearing, journal, db, services, versions, backups,
                   authority, settled, lostCopies>>

(* The journal file is damaged or lost (readJournalState handles both).    *)
JournalDamage ==
    /\ lostCopies < LossLimit /\ lostCopies' = lostCopies + 1
    /\ journal \in JournalPhases /\ journal' \in {"malformed", "absent"}
    /\ UNCHANGED <<lockFile, life, mode, todo, clearing, db, services, versions, backups,
                   authority, settled, crashes>>

Run(i) == \/ WriteOwner(i) \/ ReconcileStep(i) \/ SettleStep(i) \/ CheckStep(i) \/ RestoreStep(i)
          \/ JournalStep(i) \/ ClearStep(i) \/ QuiesceStep(i) \/ StartStep(i)
          \/ RenameStep(i) \/ DropStep(i) \/ GatesStep(i) \/ BackupStep(i)
          \/ TargetStep(i) \/ UpStep(i) \/ PersistStep(i) \/ FinishInvocation(i)

RecoveryNext ==
    \/ \E i \in Invocations :
          Run(i) \/ Kill(i) \/ Denied(i) \/ \E m \in Modes : CreateLock(i, m)
    \/ \E c \in Clears : ReadStaleOwner(c) \/ RemoveStaleLock(c)
    \/ JournalDamage

RecoverySpec == RecoveryInit /\ [][RecoveryNext]_recoveryVars

----------------------------------------------------------------------------
(* The authority (the original, until a promotion writes its durable       *)
(* completion marker) is always held by some database: no failed rename,   *)
(* kill, lost journal or retry loses it (planReconciliation, swapAuthority,*)
(* rollbackPostPromotion).                                                 *)
AuthorityIsKept == \E n \in Databases : db[n] = authority

(* After a reconciliation that was not blocked, and until that invocation  *)
(* quiesces or renames, the active database is the authority: an unproven  *)
(* candidate never survives a reconciliation (reconcileInterruptedState).  *)
ReconciledIsAuthority ==
    \A i \in settled : life[i] = "alive" => db["active"] = authority

(* At most one maintenance operation runs at a time (acquireMaintenanceLock*)
(* and clearStaleMaintenanceLock).                                         *)
OneMaintenanceOwner == Cardinality({i \in Invocations : life[i] = "alive"}) <= 1

(* As long as the running version differs from deploy.env (an upgrade in   *)
(* progress, failed or killed), an upgrade has taken a verified backup     *)
(* that the manifest contract accepts for the deployed version, so restore *)
(* remains the way back (upgrade.mjs main, validateManifestContract).      *)
FailedUpgradeIsRecoverable ==
    versions.running # versions.deployed =>
        \E i \in Invocations : mode[i] = "upgrade"
            /\ [by |-> i, version |-> versions.deployed] \in backups

(* A reconciliation that reports an unblocked state leaves the services    *)
(* running, until that invocation quiesces them itself: availability is    *)
(* never left broken (reconcileInterruptedState, "restart + prove FIRST,   *)
(* then clear").                                                           *)
ReconciledIsServing ==
    \A i \in settled : life[i] = "alive" => services = "running"
=============================================================================
