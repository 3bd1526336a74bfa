------------------------------ MODULE Commands ------------------------------
(***************************************************************************)
(* WorkbenchCommandService: an operator's command is delivered, perhaps    *)
(* more than once and to several replicas, under an idempotency key.  One  *)
(* transaction inserts the audit row, runs the command's authority and     *)
(* stores its outcome.  Most commands pass that transaction on to the      *)
(* service that does the work; a few let it work on its own.  The model    *)
(* follows the deliveries of one kind of command, chosen at the start.     *)
(***************************************************************************)
EXTENDS Naturals, FiniteSets

CONSTANTS
  CmdDeliveries,  \* deliveries of the command
  CmdKeys,        \* idempotency keys, among them ill-formed ones
  IllFormed,      \* the keys boundedKey refuses
  Cores, Rests,   \* what a request says, and what its audit payload omits
  CrashBudget,    \* transactions lost to a crash or a database error
  FlipLimit       \* changes of the provider's sign-in state
ASSUME CommandAssumption ==
  /\ IllFormed \subseteq CmdKeys /\ CrashBudget \in Nat /\ FlipLimit \in Nat

\* Commands whose authority works inside the transaction of the audit row.
RunAuthority == {"start-team-run", "resolve-wait", "cancel-execution",
                 "replay-execution", "continue-run"}
ConnectionAuthority == {"create-connection", "revise-connection", "revoke-connection"}
SourceAuthority == {"model-source-create", "model-source-update",
                    "model-source-delete", "model-source-test", "model-source-refresh"}
InTransaction == RunAuthority \cup ConnectionAuthority \cup SourceAuthority

\* Commands whose authority works on its own, and one that only reads.
WorkspaceAuthority == {"create-workspace"}
ProbeAuthority == {"test-connection"}
ProviderAuthority == {"test-runtime-target", "opencode-oauth-begin",
                      "opencode-oauth-complete"}
OnItsOwn == WorkspaceAuthority \cup ProbeAuthority \cup ProviderAuthority
ReadOnly == {"compare-executions"}
AllCommands == InTransaction \cup OnItsOwn \cup ReadOnly

\* The commands whose provider targets are proved ready before they start,
\* and the ones whose audit payload summarises the request: summarizeConfig
\* leaves the targets out, the completion of a sign-in stores only that a
\* code was given.
Guarded == {"start-team-run", "continue-run"}
Summarised == Guarded \cup {"opencode-oauth-complete"}

VARIABLES
  command,    \* the kind of command being followed
  requestOf,  \* delivery -> its key and request
  stage,      \* delivery -> where it stands
  auditRow,   \* key -> the committed audit row
  writing,    \* key -> the delivery whose uncommitted insert holds it
  effects,    \* the effects the authority has had, one record each
  answer,     \* delivery -> what its caller was told
  signedIn,   \* whether the provider the targets name is authenticated
  losses, flips
commandVars == <<command, requestOf, stage, auditRow, writing, effects, answer,
                 signedIn, losses, flips>>

RequestBodies == [core : Cores, rest : Rests]
NoAudit == [present |-> FALSE]
NoHolder == [held |-> FALSE]

\* The canonical hash of the audit payload.
PayloadHash(r) == IF command \in Summarised THEN [core |-> r.core] ELSE r

\* boundedKey.
BoundedKey(k) == k \notin IllFormed

\* assertExplicitTargetsReady: every explicit model names a provider that is
\* authenticated through the connection's current revision.
AssertExplicitTargetsReady == command \in Guarded => signedIn

CommandInit ==
  /\ command \in AllCommands
  /\ requestOf \in [CmdDeliveries -> [key : CmdKeys, body : RequestBodies]]
  /\ stage = [d \in CmdDeliveries |-> "sent"]
  /\ auditRow = [k \in CmdKeys |-> NoAudit]
  /\ writing = [k \in CmdKeys |-> NoHolder]
  /\ effects = {}
  /\ answer = [d \in CmdDeliveries |-> "none"]
  /\ signedIn \in BOOLEAN
  /\ losses = 0 /\ flips = 0

Reply(d, said) ==
  /\ stage' = [stage EXCEPT ![d] = "done"]
  /\ answer' = [answer EXCEPT ![d] = said]

\* The checks made before the transaction.
Admit(d) ==
  /\ stage[d] = "sent"
  /\ IF AssertExplicitTargetsReady /\ BoundedKey(requestOf[d].key)
     THEN stage' = [stage EXCEPT ![d] = "admitted"] /\ UNCHANGED answer
     ELSE Reply(d, "refused")
  /\ UNCHANGED <<command, requestOf, auditRow, writing, effects, signedIn, losses, flips>>

\* assertSameRequestPayload.
SameRequestPayload(stored, r) == stored.hash = PayloadHash(r)

\* INSERT ... ON CONFLICT DO NOTHING.  An uncommitted insert of the same key
\* makes this one wait; a committed row decides it.
InsertAudit(d) ==
  LET k == requestOf[d].key
      r == requestOf[d].body IN
  /\ stage[d] = "admitted"
  /\ ~writing[k].held
  /\ IF auditRow[k].present
     THEN /\ Reply(d, IF SameRequestPayload(auditRow[k], r) THEN "duplicate" ELSE "conflict")
          /\ UNCHANGED writing
     ELSE /\ writing' = [writing EXCEPT ![k] = [held |-> TRUE, by |-> d]]
          /\ stage' = [stage EXCEPT ![d] = "pending"]
          /\ UNCHANGED answer
  /\ UNCHANGED <<command, requestOf, auditRow, effects, signedIn, losses, flips>>

\* The authority of a command that works on its own has its effect at once.
PerformOnItsOwn(d) ==
  /\ stage[d] = "pending"
  /\ command \in OnItsOwn
  /\ effects' = effects \cup {[key |-> requestOf[d].key, by |-> d, body |-> requestOf[d].body]}
  /\ stage' = [stage EXCEPT ![d] = "performed"]
  /\ UNCHANGED <<command, requestOf, auditRow, writing, answer, signedIn, losses, flips>>

\* The outcome is stored and the transaction commits, together with whatever
\* the authority wrote through its manager.
CommitOutcome(d) ==
  LET k == requestOf[d].key IN
  /\ auditRow' = [auditRow EXCEPT ![k] =
       [present |-> TRUE, hash |-> PayloadHash(requestOf[d].body), body |-> requestOf[d].body]]
  /\ writing' = [writing EXCEPT ![k] = NoHolder]
  /\ effects' = IF command \in InTransaction /\ stage[d] = "pending"
                THEN effects \cup {[key |-> k, by |-> d, body |-> requestOf[d].body]}
                ELSE effects
  /\ Reply(d, "executed")

FinishCommand(d) ==
  /\ \/ stage[d] = "pending" /\ command \in InTransaction \cup ReadOnly
     \/ stage[d] = "performed"
  /\ CommitOutcome(d)
  /\ UNCHANGED <<command, requestOf, signedIn, losses, flips>>

\* The authority throws, or the transaction does not commit: the audit row is
\* gone, and the caller, who sees an error or nothing, may deliver again.
RollBack(d) ==
  /\ stage[d] \in {"pending", "performed"}
  /\ losses < CrashBudget
  /\ losses' = losses + 1
  /\ writing' = [writing EXCEPT ![requestOf[d].key] = NoHolder]
  /\ stage' = [stage EXCEPT ![d] = "sent"]
  /\ UNCHANGED <<command, requestOf, auditRow, effects, answer, signedIn, flips>>

\* The provider signs in or out on its own account.
SignInChanges ==
  /\ command \in Guarded
  /\ flips < FlipLimit
  /\ flips' = flips + 1
  /\ signedIn' = ~signedIn
  /\ UNCHANGED <<command, requestOf, stage, auditRow, writing, effects, answer, losses>>

CommandNext ==
  \/ \E d \in CmdDeliveries :
       Admit(d) \/ InsertAudit(d) \/ PerformOnItsOwn(d) \/ FinishCommand(d) \/ RollBack(d)
  \/ SignInChanges

CommandSpec == CommandInit /\ [][CommandNext]_commandVars

---------------------------------------------------------------------------
\* A command whose authority works in the audit transaction takes effect
\* once per key, and its audit row is there exactly when the effect is: no
\* interleaving of duplicate deliveries and lost transactions leaves one
\* without the other (runCommand).
EvidenceMatchesAuthority ==
  command \in InTransaction => \A k \in CmdKeys :
    LET done == {e \in effects : e.key = k} IN
    /\ Cardinality(done) <= 1
    /\ (done # {}) = auditRow[k].present
    /\ \A e \in done : e.body = auditRow[k].body

\* Whoever is told "duplicate" is answered for the very request it made, and
\* never for another one that used its key (assertSameRequestPayload).
DuplicateIsOfTheSameRequest ==
  \A d \in CmdDeliveries : answer[d] = "duplicate" =>
    auditRow[requestOf[d].key].body = requestOf[d].body

\* Executes exactly once per (action, idempotencyKey), as runCommand says of
\* every command.
ExactlyOncePerKey ==
  \A k \in CmdKeys : Cardinality({e \in effects : e.key = k}) <= 1
=============================================================================
