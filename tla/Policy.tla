------------------------------- MODULE Policy -------------------------------
(***************************************************************************)
(* PolicyService and the policy domain: the trusted rules document of each *)
(* replica (TENVYR_POLICY), frozen into one snapshot per version on first  *)
(* use, and the append-only decisions taken under it.  Every evaluation is *)
(* part of a caller's transaction: an inserted snapshot is invisible until *)
(* it commits, blocks a concurrent insert of its version, and disappears   *)
(* with a rollback, the decision with it.                                  *)
(*                                                                         *)
(* A rule is [action, effect, agents, executors]; a constraint that is not *)
(* declared is Unconstrained, a declared one a set.                           *)
(***************************************************************************)
EXTENDS Naturals, Sequences, FiniteSets, FiniteSetsExt

CONSTANTS
  PolicyReplicas,  \* Orchestrator processes
  Documents,       \* rules documents: [version, rules, ok], ok = parses
  Proposals,       \* action proposals: [action, agent, executor, ok]
  Rotations        \* how often the operator may change a replica's document

\* parsePolicySnapshot refuses a document without rules.
ASSUME PolicyAssumption ==
  /\ PolicyReplicas # {} /\ Proposals # {} /\ Rotations \in Nat
  /\ Documents \subseteq
       [version : Nat, ok : BOOLEAN,
        rules : Seq([action : STRING, effect : STRING, agents : SUBSET STRING, executors : SUBSET STRING])]
  /\ \A d \in Documents : d.ok => d.rules # <<>>

\* Stands for a constraint that is not declared.
Unconstrained == {"*"}
Unset == [version |-> 0, rules |-> <<>>, ok |-> FALSE]

VARIABLES
  document,    \* TENVYR_POLICY of a replica, Unset when it declares none
  snapshot,    \* committed policy_snapshots rows: version -> [hash, rules] or None
  policyCall,  \* the evaluation a replica is in the middle of
  decisions,   \* committed policy_decisions rows
  rotations

policyVars == <<document, snapshot, policyCall, decisions, rotations>>

None == [hash |-> <<>>, rules |-> <<>>]
Versions == {d.version : d \in Documents}

\* parsePolicySnapshot's hash: `agents ?? []` and `executors ?? []`.
Hashed(rules) ==
  [i \in DOMAIN rules |->
     [rules[i] EXCEPT !.agents = IF @ = Unconstrained THEN {} ELSE @,
                      !.executors = IF @ = Unconstrained THEN {} ELSE @]]

\* evaluateProposal: first match, a missing rule restricts nothing.
Matches(rule, p) ==
  /\ rule.action = p.action
  /\ rule.agents = Unconstrained \/ p.agent \in rule.agents
  /\ rule.executors = Unconstrained \/ p.executor \in rule.executors

EvaluateProposal(rules, p) ==
  LET hits == {i \in DOMAIN rules : Matches(rules[i], p)}
  IN IF hits = {} THEN "ALLOW" ELSE rules[Min(hits)].effect

IdleCall == [phase |-> "idle", proposal |-> CHOOSE p \in Proposals : TRUE, doc |-> Unset,
             effect |-> "ALLOW", inserted |-> FALSE]

\* A boundary builds its proposal (bounded fields) and opens the transaction; a
\* replica without a document never evaluates, one that does not parse throws.
BeginEvaluate(r) ==
  /\ policyCall[r].phase = "idle" /\ document[r] # Unset /\ document[r].ok
  /\ \E p \in Proposals :
       /\ p.ok
       /\ policyCall' = [policyCall EXCEPT ![r] = [IdleCall EXCEPT !.phase = "load", !.proposal = p, !.doc = document[r]]]
  /\ UNCHANGED <<document, snapshot, decisions, rotations>>

Goes(r, phase) == policyCall' = [policyCall EXCEPT ![r].phase = phase]

\* loadSnapshot's first read: a row with another hash is a conflict.
LoadSnapshot(r) ==
  LET row == snapshot[policyCall[r].doc.version] IN
  /\ policyCall[r].phase = "load"
  /\ IF row = None THEN Goes(r, "insert")
     ELSE IF row.hash = Hashed(policyCall[r].doc.rules) THEN Goes(r, "evaluate")
     ELSE Goes(r, "rollback")
  /\ UNCHANGED <<document, snapshot, decisions, rotations>>

\* INSERT ... ON CONFLICT DO NOTHING waits for a concurrent uncommitted insert
\* of the version, then the winner is read back and its hash compared.
InsertSnapshot(r) ==
  LET row == snapshot[policyCall[r].doc.version] IN
  /\ policyCall[r].phase = "insert"
  /\ \A q \in PolicyReplicas \ {r} :
       ~(policyCall[q].inserted /\ policyCall[q].doc.version = policyCall[r].doc.version)
  /\ policyCall' = [policyCall EXCEPT ![r].inserted = (row = None),
                          ![r].phase = IF row = None \/ row.hash = Hashed(policyCall[r].doc.rules)
                                         THEN "evaluate" ELSE "rollback"]
  /\ UNCHANGED <<document, snapshot, decisions, rotations>>

\* The frozen rules, which are the transaction's own when it inserted them.
FrozenRules(r) ==
  IF policyCall[r].inserted THEN policyCall[r].doc.rules ELSE snapshot[policyCall[r].doc.version].rules

EvaluatePolicy(r) ==
  /\ policyCall[r].phase = "evaluate"
  /\ policyCall' = [policyCall EXCEPT ![r].effect = EvaluateProposal(FrozenRules(r), policyCall[r].proposal),
                          ![r].phase = "decided"]
  /\ UNCHANGED <<document, snapshot, decisions, rotations>>

\* The intercepted action commits together with the snapshot and the decision.
CommitDecision(r) ==
  LET c == policyCall[r] IN
  /\ c.phase = "decided"
  /\ snapshot' = IF c.inserted
                   THEN [snapshot EXCEPT ![c.doc.version] = [hash |-> Hashed(c.doc.rules), rules |-> c.doc.rules]]
                   ELSE snapshot
  /\ decisions' = decisions \cup {[proposal |-> c.proposal, version |-> c.doc.version,
                                   hash |-> Hashed(c.doc.rules), effect |-> c.effect, doc |-> c.doc]}
  /\ policyCall' = [policyCall EXCEPT ![r] = IdleCall]
  /\ UNCHANGED <<document, rotations>>

\* A conflict, a failure of the caller, or a crash: nothing was written.
RollBackCheck(r) ==
  /\ policyCall[r].phase \in {"insert", "evaluate", "decided", "rollback"}
  /\ policyCall' = [policyCall EXCEPT ![r] = IdleCall]
  /\ UNCHANGED <<document, snapshot, decisions, rotations>>

\* The operator restarts an idle replica with another document.
RotatePolicy(r) ==
  /\ policyCall[r].phase = "idle" /\ rotations < Rotations
  /\ \E d \in Documents : document' = [document EXCEPT ![r] = d]
  /\ rotations' = rotations + 1
  /\ UNCHANGED <<snapshot, policyCall, decisions>>

PolicyInit ==
  /\ document \in [PolicyReplicas -> Documents \cup {Unset}]
  /\ snapshot = [v \in Versions |-> None]
  /\ policyCall = [r \in PolicyReplicas |-> IdleCall]
  /\ decisions = {} /\ rotations = 0

PolicyNext ==
  \E r \in PolicyReplicas :
    \/ BeginEvaluate(r) \/ LoadSnapshot(r) \/ InsertSnapshot(r) \/ EvaluatePolicy(r)
    \/ CommitDecision(r) \/ RollBackCheck(r) \/ RotatePolicy(r)

PolicySpec == PolicyInit /\ [][PolicyNext]_policyVars

-----------------------------------------------------------------------------
\* The rule of a frozen document that governs a proposal: the matching rule
\* no matching rule precedes.
Governs(rules, i, p) == Matches(rules[i], p) /\ \A k \in 1 .. i - 1 : ~Matches(rules[k], p)

(***************************************************************************)
(* Every stored decision is what the frozen rules of its version say, and  *)
(* carries their hash, whichever replica took it and however the replicas' *)
(* documents, first uses and rollbacks interleaved.                        *)
(***************************************************************************)
DecisionsFollowFrozenRules ==
  \A d \in decisions :
    LET row == snapshot[d.version] IN
    /\ row # None /\ row.hash = d.hash
    /\ \/ \E i \in DOMAIN row.rules : Governs(row.rules, i, d.proposal) /\ d.effect = row.rules[i].effect
       \/ d.effect = "ALLOW" /\ \A i \in DOMAIN row.rules : ~Governs(row.rules, i, d.proposal)

\* A version once frozen is never rewritten or lost.
FrozenVersionsStay ==
  \A v \in Versions : snapshot[v] # None => snapshot'[v] = snapshot[v]

(***************************************************************************)
(* "A rotated configuration for an existing version is a deterministic     *)
(* safe failure": a replica that decides at all decides by its own         *)
(* document.  An empty allowlist and no allowlist have one hash, so a      *)
(* document that differs there is accepted and the other rules applied.    *)
(***************************************************************************)
RotationIsRefused ==
  \A d \in decisions : d.effect = EvaluateProposal(d.doc.rules, d.proposal)
=============================================================================
