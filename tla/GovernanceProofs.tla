--------------------------- MODULE GovernanceProofs ---------------------------
(***************************************************************************)
(* The orchestrator's rules, for every number of replicas, documents,      *)
(* plans, runs and calls: what work was built on is not rewritten, and a   *)
(* decision follows the records it was taken from.  Each component has its *)
(* inductive invariant; the rules side by side implement each component,   *)
(* the team loop of CoordinationProofs included.                           *)
(***************************************************************************)
EXTENDS MCGovernance, CoordinationProofs, WellFoundedInduction

\* A set of naturals has a least member.
LEMMA LeastNatural ==
  ASSUME NEW S, S \subseteq Nat, S # {}
  PROVE  \E m \in S : \A y \in S : m <= y
PROOF
  <1>1. PICK m \in S : \A y \in S : ~(<<y, m>> \in OpToRel(<, Nat))
    BY NatLessThanWellFounded, WFMin
  <1>2. \A y \in S : ~(y < m)
    BY <1>1 DEF OpToRel
  <1> QED BY <1>2

\* Min of a set of naturals.
LEMMA MinIsLeast ==
  ASSUME NEW S, S \subseteq Nat, S # {}
  PROVE  Min(S) \in S /\ \A y \in S : Min(S) <= y
  BY LeastNatural DEF Min

-----------------------------------------------------------------------------
(***************************************************************************)
(* Policy versions and decisions (Policy)                                  *)
(***************************************************************************)

\* The row a document is frozen as.
RowOf(d) == [hash |-> Hashed(d.rules), rules |-> d.rules]

Effects == {"ALLOW"} \cup STRING
PolicyPhases == {"idle", "load", "insert", "evaluate", "decided", "rollback"}
Calls == [phase : PolicyPhases, proposal : Proposals, doc : Documents \cup {Unset}, effect : Effects,
          inserted : BOOLEAN]

\* A row is a parsed document of its version.
RowsAreDocuments ==
  \A v \in Versions : snapshot[v] # None => \E d \in Documents : d.ok /\ d.version = v /\ snapshot[v] = RowOf(d)

\* A call that is under way holds a parsed document; one that inserted a row
\* is alone with its version, which has no committed row; one that will
\* decide by a committed row has compared its hash; one that has decided did
\* so by the frozen rules.
RulesFor(c) == IF c.inserted THEN c.doc.rules ELSE snapshot[c.doc.version].rules

CallOK(c) ==
  /\ c.phase # "idle" => c.doc \in Documents /\ c.doc.ok
  /\ c.inserted => c.phase \in {"evaluate", "decided"} /\ snapshot[c.doc.version] = None
  /\ c.phase \in {"evaluate", "decided"} /\ ~c.inserted =>
       snapshot[c.doc.version] # None /\ snapshot[c.doc.version].hash = Hashed(c.doc.rules)
  /\ c.phase = "decided" => c.effect = EvaluateProposal(RulesFor(c), c.proposal)

OneInsert ==
  \A r, q \in PolicyReplicas :
    policyCall[r].inserted /\ policyCall[q].inserted /\ policyCall[r].doc.version = policyCall[q].doc.version => r = q

PolicyTypeOK ==
  /\ document \in [PolicyReplicas -> Documents \cup {Unset}]
  /\ policyCall \in [PolicyReplicas -> Calls]
  /\ DOMAIN snapshot = Versions /\ snapshot = [v \in Versions |-> snapshot[v]]
  /\ \A d \in decisions : d.version \in Versions

PolicyInv ==
  /\ PolicyTypeOK /\ RowsAreDocuments /\ OneInsert
  /\ \A r \in PolicyReplicas : CallOK(policyCall[r])
  /\ DecisionsFollowFrozenRules

\* A document's rules are a sequence of rules, and a parsed one has some.
LEMMA DocumentRules ==
  ASSUME NEW d \in Documents
  PROVE  /\ DOMAIN d.rules = 1 .. Len(d.rules) /\ Len(d.rules) \in Nat
         /\ \A i \in DOMAIN d.rules : d.rules[i].effect \in STRING
         /\ d.version \in Versions
         /\ d.ok => RowOf(d) # None /\ RowOf(d).hash = Hashed(d.rules) /\ RowOf(d).rules = d.rules
PROOF
  <1>1. d \in [version : Nat, ok : BOOLEAN,
               rules : Seq([action : STRING, effect : STRING, agents : SUBSET STRING, executors : SUBSET STRING])]
    BY PolicyAssumption
  <1>2. /\ DOMAIN d.rules = 1 .. Len(d.rules) /\ Len(d.rules) \in Nat
        /\ \A i \in DOMAIN d.rules : d.rules[i].effect \in STRING
    <2> DEFINE R == [action : STRING, effect : STRING, agents : SUBSET STRING, executors : SUBSET STRING]
    <2>1. d.rules \in Seq(R)
      BY <1>1
    <2>2. \A x \in R : x.effect \in STRING
      OBVIOUS
    <2> HIDE DEF R
    <2>3. DOMAIN d.rules = 1 .. Len(d.rules) /\ Len(d.rules) \in Nat /\ \A i \in 1 .. Len(d.rules) : d.rules[i] \in R
      BY <2>1, LenProperties, ElementOfSeq
    <2> QED BY <2>2, <2>3
  <1>3. d.version \in Versions
    BY DEF Versions
  <1>4. d.ok => RowOf(d) # None
    BY PolicyAssumption DEF RowOf, None
  <1> QED BY <1>2, <1>3, <1>4 DEF RowOf

\* What the search returns is the effect of the governing rule.
LEMMA FirstMatchGoverns ==
  ASSUME NEW d \in Documents, NEW p
  PROVE  /\ EvaluateProposal(d.rules, p) \in Effects
         /\ \/ \E i \in DOMAIN d.rules : Governs(d.rules, i, p) /\ EvaluateProposal(d.rules, p) = d.rules[i].effect
            \/ EvaluateProposal(d.rules, p) = "ALLOW" /\ \A i \in DOMAIN d.rules : ~Governs(d.rules, i, p)
PROOF
  <1> DEFINE hits == {i \in DOMAIN d.rules : Matches(d.rules[i], p)}
  <1>1. DOMAIN d.rules = 1 .. Len(d.rules) /\ Len(d.rules) \in Nat /\ \A i \in DOMAIN d.rules : d.rules[i].effect \in STRING
    BY DocumentRules
  <1>2. CASE hits = {}
    BY <1>2 DEF EvaluateProposal, Governs, Effects
  <1>3. CASE hits # {}
    <2> DEFINE m == Min(hits)
    <2>1. m \in hits /\ \A y \in hits : m <= y
      <3>1. hits \subseteq Nat /\ hits # {}
        BY <1>1, <1>3
      <3> HIDE DEF hits
      <3> QED BY <3>1, MinIsLeast
    <2>3. EvaluateProposal(d.rules, p) = d.rules[m].effect
      BY <1>3 DEF EvaluateProposal
    <2> HIDE DEF m
    <2>4. Governs(d.rules, m, p)
      <3>1. m \in DOMAIN d.rules /\ Matches(d.rules[m], p)
        BY <2>1
      <3>2. ASSUME NEW k \in 1 .. m - 1, Matches(d.rules[k], p) PROVE FALSE
        <4>1. k \in 1 .. Len(d.rules) /\ k \in Nat /\ m \in Nat /\ k < m
          <5>1. m \in 1 .. Len(d.rules)
            BY <1>1, <3>1
          <5> QED BY <1>1, <5>1
        <4>2. k \in hits
          BY <1>1, <3>2, <4>1
        <4> HIDE DEF hits
        <4> QED BY <2>1, <4>1, <4>2
      <3> QED BY <3>1, <3>2 DEF Governs
    <2> QED BY <1>1, <2>1, <2>3, <2>4 DEF Effects
  <1> QED BY <1>2, <1>3

\* An idle call is in order.
LEMMA IdleCallOK == IdleCall \in Calls /\ CallOK(IdleCall) /\ ~IdleCall.inserted /\ IdleCall.phase = "idle"
PROOF
  <1>1. (CHOOSE p \in Proposals : TRUE) \in Proposals
    BY PolicyAssumption
  <1>2. IdleCall \in Calls
    BY <1>1 DEF IdleCall, Calls, Effects, PolicyPhases
  <1>3. IdleCall.phase = "idle" /\ ~IdleCall.inserted
    BY DEF IdleCall
  <1> QED BY <1>2, <1>3 DEF CallOK

\* Initially nothing is frozen and nobody evaluates.
LEMMA PolicyInitially == PolicyInit => PolicyInv
PROOF
  <1> SUFFICES ASSUME PolicyInit PROVE PolicyInv
    OBVIOUS
  <1>1. PolicyTypeOK
    BY IdleCallOK DEF PolicyInit, PolicyTypeOK
  <1>2. RowsAreDocuments
    BY DEF PolicyInit, RowsAreDocuments
  <1>3. \A r \in PolicyReplicas : CallOK(policyCall[r]) /\ ~policyCall[r].inserted
    BY IdleCallOK DEF PolicyInit
  <1>4. DecisionsFollowFrozenRules
    BY DEF PolicyInit, DecisionsFollowFrozenRules
  <1> QED BY <1>1, <1>2, <1>3, <1>4 DEF PolicyInv, OneInsert

\* A step of one call that writes nothing durable.
LEMMA OneCallMoves ==
  ASSUME PolicyInv, NEW r \in PolicyReplicas, NEW c \in Calls,
         policyCall' = [policyCall EXCEPT ![r] = c], UNCHANGED <<document, snapshot, decisions>>,
         CallOK(c),
         c.inserted => \A q \in PolicyReplicas \ {r} :
                         ~(policyCall[q].inserted /\ policyCall[q].doc.version = c.doc.version)
  PROVE  PolicyInv'
PROOF
  <1>1. PolicyTypeOK'
    <2>1. policyCall' \in [PolicyReplicas -> Calls]
      BY DEF PolicyInv, PolicyTypeOK
    <2>2. PolicyTypeOK /\ snapshot' = snapshot /\ document' = document /\ decisions' = decisions
      BY DEF PolicyInv
    <2> QED BY <2>1, <2>2 DEF PolicyTypeOK
  <1>2. RowsAreDocuments'
    BY DEF PolicyInv, RowsAreDocuments
  <1>3. policyCall'[r] = c /\ \A q \in PolicyReplicas \ {r} : policyCall'[q] = policyCall[q]
    BY DEF PolicyInv, PolicyTypeOK
  <1>5. \A q \in PolicyReplicas : CallOK(policyCall[q])'
    <2> SUFFICES ASSUME NEW q \in PolicyReplicas PROVE CallOK(policyCall[q])'
      OBVIOUS
    <2>1. CASE q = r
      BY <1>3, <2>1 DEF CallOK, RulesFor
    <2>2. CASE q # r
      <3>1. CallOK(policyCall[q]) /\ policyCall'[q] = policyCall[q]
        BY <1>3, <2>2 DEF PolicyInv
      <3> QED BY <3>1 DEF CallOK, RulesFor
    <2> QED BY <2>1, <2>2
  <1>6. OneInsert'
    BY <1>3 DEF PolicyInv, OneInsert
  <1>7. DecisionsFollowFrozenRules'
    BY DEF PolicyInv, DecisionsFollowFrozenRules
  <1> QED BY <1>1, <1>2, <1>5, <1>6, <1>7 DEF PolicyInv

\* The row a call finds is of a version that documents carry.
LEMMA CallRow ==
  ASSUME PolicyInv, NEW r \in PolicyReplicas
  PROVE  /\ policyCall[r] \in Calls /\ CallOK(policyCall[r])
         /\ policyCall[r].phase # "idle" => policyCall[r].doc.version \in Versions
         /\ FrozenRules(r) = RulesFor(policyCall[r])
PROOF
  <1>1. policyCall[r] \in Calls /\ CallOK(policyCall[r])
    BY DEF PolicyInv, PolicyTypeOK
  <1>2. policyCall[r].phase # "idle" => policyCall[r].doc.version \in Versions
    BY <1>1 DEF CallOK, Versions
  <1> QED BY <1>1, <1>2 DEF FrozenRules, RulesFor

LEMMA BeginEvaluateKeeps ==
  ASSUME PolicyInv, NEW r \in PolicyReplicas, BeginEvaluate(r)
  PROVE  PolicyInv'
PROOF
  <1>1. PICK p \in Proposals :
          policyCall' = [policyCall EXCEPT ![r] = [IdleCall EXCEPT !.phase = "load", !.proposal = p, !.doc = document[r]]]
    BY DEF BeginEvaluate
  <1> DEFINE c == [IdleCall EXCEPT !.phase = "load", !.proposal = p, !.doc = document[r]]
  <1>2. document[r] \in Documents /\ document[r].ok
    BY DEF BeginEvaluate, PolicyInv, PolicyTypeOK
  <1>3. c \in Calls /\ c.phase = "load" /\ ~c.inserted /\ c.doc = document[r]
    BY <1>2, IdleCallOK DEF Calls, PolicyPhases
  <1>4. CallOK(c)
    <2> HIDE DEF c
    <2> QED BY <1>2, <1>3 DEF CallOK
  <1>5. UNCHANGED <<document, snapshot, decisions>>
    BY DEF BeginEvaluate
  <1> HIDE DEF c
  <1> QED BY <1>1, <1>3, <1>4, <1>5, OneCallMoves DEF c

LEMMA LoadSnapshotKeeps ==
  ASSUME PolicyInv, NEW r \in PolicyReplicas, LoadSnapshot(r)
  PROVE  PolicyInv'
PROOF
  <1> DEFINE old == policyCall[r]
             row == snapshot[old.doc.version]
             c(ph) == [old EXCEPT !.phase = ph]
  <1>1. old \in Calls /\ CallOK(old) /\ old.phase = "load" /\ UNCHANGED <<document, snapshot, decisions>>
    BY CallRow DEF LoadSnapshot
  <1>2. ~old.inserted
    BY <1>1 DEF CallOK
  <1>3. PICK ph \in {"insert", "evaluate", "rollback"} :
          /\ policyCall' = [policyCall EXCEPT ![r] = c(ph)]
          /\ ph = "evaluate" => row # None /\ row.hash = Hashed(old.doc.rules)
    BY DEF LoadSnapshot, Goes
  <1>4. /\ c(ph) \in Calls /\ c(ph).phase = ph /\ ~c(ph).inserted
        /\ c(ph).doc = old.doc
    BY <1>1, <1>2 DEF Calls, PolicyPhases
  <1>5. old.doc \in Documents /\ old.doc.ok
    BY <1>1 DEF CallOK
  <1> DEFINE new == c(ph)
  <1>6. /\ new \in Calls /\ new.phase = ph /\ ~new.inserted /\ new.doc = old.doc
        /\ policyCall' = [policyCall EXCEPT ![r] = new]
    BY <1>3, <1>4
  <1> HIDE DEF new
  <1>7. CallOK(new)
    BY <1>3, <1>5, <1>6 DEF CallOK
  <1> QED BY <1>1, <1>6, <1>7, OneCallMoves

LEMMA InsertSnapshotKeeps ==
  ASSUME PolicyInv, NEW r \in PolicyReplicas, InsertSnapshot(r)
  PROVE  PolicyInv'
PROOF
  <1> DEFINE old == policyCall[r]
             row == snapshot[old.doc.version]
             ph == IF row = None \/ row.hash = Hashed(old.doc.rules) THEN "evaluate" ELSE "rollback"
             new == [old EXCEPT !.inserted = (row = None), !.phase = ph]
  <1>1. old \in Calls /\ CallOK(old) /\ old.phase = "insert" /\ UNCHANGED <<document, snapshot, decisions>>
    BY CallRow DEF InsertSnapshot
  <1>2. policyCall' = [policyCall EXCEPT ![r] = new]
    BY DEF InsertSnapshot
  <1>3. /\ new \in Calls /\ new.phase = ph /\ new.inserted = (row = None) /\ new.doc = old.doc
    BY <1>1 DEF Calls, PolicyPhases
  <1>4. old.doc \in Documents /\ old.doc.ok
    BY <1>1 DEF CallOK
  <1>5. \A q \in PolicyReplicas \ {r} : ~(policyCall[q].inserted /\ policyCall[q].doc.version = old.doc.version)
    BY DEF InsertSnapshot
  <1> HIDE DEF new
  <1>6. CallOK(new)
    BY <1>3, <1>4 DEF CallOK
  <1>7. new.inserted => \A q \in PolicyReplicas \ {r} :
                          ~(policyCall[q].inserted /\ policyCall[q].doc.version = new.doc.version)
    BY <1>3, <1>5
  <1> QED BY <1>1, <1>2, <1>3, <1>6, <1>7, OneCallMoves

\* The rules a call decides by are a parsed document's.
LEMMA DecidesByDocument ==
  ASSUME PolicyInv, NEW r \in PolicyReplicas, policyCall[r].phase \in {"evaluate", "decided"}
  PROVE  \E d \in Documents : /\ d.ok /\ RulesFor(policyCall[r]) = d.rules
                              /\ Hashed(policyCall[r].doc.rules) = Hashed(d.rules)
                              /\ ~policyCall[r].inserted => snapshot[policyCall[r].doc.version] = RowOf(d)
                              /\ policyCall[r].inserted => d = policyCall[r].doc
PROOF
  <1> DEFINE c == policyCall[r]
  <1>1. c \in Calls /\ CallOK(c) /\ c.phase \in {"evaluate", "decided"} /\ c.doc.version \in Versions
    BY CallRow
  <1>2. c.doc \in Documents /\ c.doc.ok
    BY <1>1 DEF CallOK
  <1>3. CASE c.inserted
    BY <1>2, <1>3 DEF RulesFor
  <1>4. CASE ~c.inserted
    <2>1. snapshot[c.doc.version] # None /\ snapshot[c.doc.version].hash = Hashed(c.doc.rules)
      BY <1>1, <1>4 DEF CallOK
    <2>2. PICK d \in Documents : d.ok /\ snapshot[c.doc.version] = RowOf(d)
      BY <1>1, <2>1 DEF PolicyInv, RowsAreDocuments
    <2>3. RowOf(d).rules = d.rules /\ RowOf(d).hash = Hashed(d.rules)
      BY DEF RowOf
    <2> QED BY <1>4, <2>1, <2>2, <2>3 DEF RulesFor
  <1> QED BY <1>3, <1>4

LEMMA EvaluatePolicyKeeps ==
  ASSUME PolicyInv, NEW r \in PolicyReplicas, EvaluatePolicy(r)
  PROVE  PolicyInv'
PROOF
  <1> DEFINE old == policyCall[r]
             effect == EvaluateProposal(FrozenRules(r), old.proposal)
             new == [old EXCEPT !.effect = effect, !.phase = "decided"]
  <1>1. old \in Calls /\ CallOK(old) /\ old.phase = "evaluate" /\ UNCHANGED <<document, snapshot, decisions>>
    BY CallRow DEF EvaluatePolicy
  <1>2. policyCall' = [policyCall EXCEPT ![r] = new]
    BY DEF EvaluatePolicy
  <1>3. effect = EvaluateProposal(RulesFor(old), old.proposal) /\ effect \in Effects
    <2>1. PICK d \in Documents : RulesFor(old) = d.rules
      BY <1>1, DecidesByDocument
    <2>2. FrozenRules(r) = RulesFor(old)
      BY CallRow
    <2> QED BY <2>1, <2>2, FirstMatchGoverns
  <1> HIDE DEF effect
  <1>4. /\ new \in Calls /\ new.phase = "decided" /\ new.inserted = old.inserted /\ new.doc = old.doc
        /\ new.effect = effect /\ new.proposal = old.proposal
    BY <1>1, <1>3 DEF Calls, PolicyPhases
  <1> HIDE DEF new
  <1>5. RulesFor(new) = RulesFor(old)
    BY <1>4 DEF RulesFor
  <1>6. CallOK(new)
    BY <1>1, <1>3, <1>4, <1>5 DEF CallOK
  <1>7. new.inserted => \A q \in PolicyReplicas \ {r} :
                          ~(policyCall[q].inserted /\ policyCall[q].doc.version = new.doc.version)
    BY <1>4 DEF PolicyInv, OneInsert
  <1> QED BY <1>1, <1>2, <1>4, <1>6, <1>7, OneCallMoves

LEMMA RollBackKeeps ==
  ASSUME PolicyInv, NEW r \in PolicyReplicas, RollBackCheck(r)
  PROVE  PolicyInv'
PROOF
  <1>1. policyCall' = [policyCall EXCEPT ![r] = IdleCall] /\ UNCHANGED <<document, snapshot, decisions>>
    BY DEF RollBackCheck
  <1> QED BY <1>1, IdleCallOK, OneCallMoves

LEMMA RotateKeeps ==
  ASSUME PolicyInv, NEW r \in PolicyReplicas, RotatePolicy(r)
  PROVE  PolicyInv'
PROOF
  <1>1. PICK d \in Documents : document' = [document EXCEPT ![r] = d]
    BY DEF RotatePolicy
  <1>2. UNCHANGED <<snapshot, policyCall, decisions>>
    BY DEF RotatePolicy
  <1>3. PolicyTypeOK'
    <2>1. document' \in [PolicyReplicas -> Documents \cup {Unset}]
      BY <1>1 DEF PolicyInv, PolicyTypeOK
    <2> QED BY <1>2, <2>1 DEF PolicyInv, PolicyTypeOK
  <1>4. \A q \in PolicyReplicas : CallOK(policyCall[q])'
    <2> SUFFICES ASSUME NEW q \in PolicyReplicas PROVE CallOK(policyCall[q])'
      OBVIOUS
    <2>1. CallOK(policyCall[q])
      BY DEF PolicyInv
    <2> QED BY <1>2, <2>1 DEF CallOK, RulesFor
  <1>5. RowsAreDocuments' /\ OneInsert' /\ DecisionsFollowFrozenRules'
    BY <1>2 DEF PolicyInv, RowsAreDocuments, OneInsert, DecisionsFollowFrozenRules
  <1> QED BY <1>3, <1>4, <1>5 DEF PolicyInv

\* A commit freezes the version it inserted, or leaves every row as it is.
LEMMA CommitWritesOnce ==
  ASSUME PolicyInv, NEW r \in PolicyReplicas, CommitDecision(r)
  PROVE  /\ \A v \in Versions : snapshot[v] # None => snapshot'[v] = snapshot[v]
         /\ DOMAIN snapshot' = Versions /\ snapshot' = [v \in Versions |-> snapshot'[v]]
         /\ \E d \in Documents : /\ d.ok /\ snapshot'[policyCall[r].doc.version] = RowOf(d)
                                 /\ RulesFor(policyCall[r]) = d.rules
                                 /\ Hashed(policyCall[r].doc.rules) = Hashed(d.rules)
         /\ \A v \in Versions : v # policyCall[r].doc.version => snapshot'[v] = snapshot[v]
         /\ ~policyCall[r].inserted => snapshot' = snapshot
PROOF
  <1> DEFINE c == policyCall[r]
             v0 == c.doc.version
  <1>1. c \in Calls /\ CallOK(c) /\ c.phase = "decided" /\ v0 \in Versions
    BY CallRow DEF CommitDecision
  <1>2. PICK d \in Documents : /\ d.ok /\ RulesFor(c) = d.rules /\ Hashed(c.doc.rules) = Hashed(d.rules)
                               /\ ~c.inserted => snapshot[v0] = RowOf(d)
                               /\ c.inserted => d = c.doc
    BY <1>1, DecidesByDocument
  <1>3. DOMAIN snapshot = Versions /\ snapshot = [v \in Versions |-> snapshot[v]]
    BY DEF PolicyInv, PolicyTypeOK
  <1>4. CASE c.inserted
    <2>1. snapshot' = [snapshot EXCEPT ![v0] = RowOf(c.doc)] /\ snapshot[v0] = None
      BY <1>1, <1>4 DEF CommitDecision, RowOf, CallOK
    <2>2. snapshot'[v0] = RowOf(d) /\ \A v \in Versions : v # v0 => snapshot'[v] = snapshot[v]
      BY <1>1, <1>2, <1>3, <1>4, <2>1
    <2>3. DOMAIN snapshot' = Versions /\ snapshot' = [v \in Versions |-> snapshot'[v]]
      BY <1>3, <2>1
    <2> QED BY <1>2, <1>4, <2>1, <2>2, <2>3
  <1>5. CASE ~c.inserted
    <2>1. snapshot' = snapshot
      BY <1>5 DEF CommitDecision
    <2> QED BY <1>2, <1>3, <1>5, <2>1
  <1> QED BY <1>4, <1>5

LEMMA CommitKeeps ==
  ASSUME PolicyInv, NEW r \in PolicyReplicas, CommitDecision(r)
  PROVE  PolicyInv'
PROOF
  <1> DEFINE c == policyCall[r]
             v0 == c.doc.version
             dd == [proposal |-> c.proposal, version |-> v0, hash |-> Hashed(c.doc.rules), effect |-> c.effect,
                    doc |-> c.doc]
  <1>1. c \in Calls /\ CallOK(c) /\ c.phase = "decided" /\ v0 \in Versions
    BY CallRow DEF CommitDecision
  <1>2. /\ decisions' = decisions \cup {dd} /\ policyCall' = [policyCall EXCEPT ![r] = IdleCall]
        /\ document' = document
    BY DEF CommitDecision
  <1>3. PICK d \in Documents : /\ d.ok /\ snapshot'[v0] = RowOf(d) /\ RulesFor(c) = d.rules
                               /\ Hashed(c.doc.rules) = Hashed(d.rules)
    BY CommitWritesOnce
  <1>4. /\ \A v \in Versions : snapshot[v] # None => snapshot'[v] = snapshot[v]
        /\ \A v \in Versions : v # v0 => snapshot'[v] = snapshot[v]
        /\ ~c.inserted => snapshot' = snapshot
        /\ DOMAIN snapshot' = Versions /\ snapshot' = [v \in Versions |-> snapshot'[v]]
    BY CommitWritesOnce
  <1>5. RowOf(d) # None /\ RowOf(d).hash = Hashed(d.rules) /\ RowOf(d).rules = d.rules
    BY <1>3, DocumentRules
  <1>6. policyCall'[r] = IdleCall /\ \A q \in PolicyReplicas \ {r} : policyCall'[q] = policyCall[q]
    BY <1>2 DEF PolicyInv, PolicyTypeOK
  <1>7. PolicyTypeOK'
    <2>1. policyCall' \in [PolicyReplicas -> Calls]
      BY <1>2, IdleCallOK DEF PolicyInv, PolicyTypeOK
    <2>2. \A x \in decisions' : x.version \in Versions
      BY <1>1, <1>2 DEF PolicyInv, PolicyTypeOK
    <2> QED BY <1>2, <1>4, <2>1, <2>2 DEF PolicyInv, PolicyTypeOK
  <1>8. RowsAreDocuments'
    <2> SUFFICES ASSUME NEW v \in Versions, snapshot'[v] # None
                 PROVE  \E e \in Documents : e.ok /\ e.version = v /\ snapshot'[v] = RowOf(e)
      BY DEF RowsAreDocuments
    <2>1. CASE snapshot'[v] = snapshot[v]
      BY <2>1 DEF PolicyInv, RowsAreDocuments
    <2>2. CASE snapshot'[v] # snapshot[v]
      <3>1. v = v0 /\ c.inserted
        BY <1>4, <2>2
      <3>2. c.doc \in Documents /\ c.doc.ok
        BY <1>1 DEF CallOK
      <3>3. snapshot'[v0] = RowOf(c.doc)
        BY <1>1, <3>1 DEF CommitDecision, RowOf, PolicyInv, PolicyTypeOK
      <3> QED BY <3>1, <3>2, <3>3
    <2> QED BY <2>1, <2>2
  <1>9. \A q \in PolicyReplicas : CallOK(policyCall[q])'
    <2> SUFFICES ASSUME NEW q \in PolicyReplicas PROVE CallOK(policyCall[q])'
      OBVIOUS
    <2>1. CASE q = r
      BY <1>6, <2>1, IdleCallOK DEF CallOK
    <2>2. CASE q # r
      <3> DEFINE b == policyCall[q]
      <3>1. b \in Calls /\ CallOK(b) /\ (b.phase # "idle" => b.doc.version \in Versions) /\ policyCall'[q] = b
        BY <1>6, <2>2, CallRow
      <3>2. b.inserted => b.doc.version \in Versions /\ snapshot[b.doc.version] = None /\ b.phase # "idle"
        BY <3>1 DEF CallOK
      <3>3. b.inserted => snapshot'[b.doc.version] = snapshot[b.doc.version]
        <4>1. SUFFICES ASSUME b.inserted, b.doc.version = v0, c.inserted PROVE FALSE
          BY <1>4, <3>2
        <4> QED BY <2>2, <4>1 DEF PolicyInv, OneInsert
      <3>4. b.phase \in {"evaluate", "decided"} /\ ~b.inserted =>
              snapshot[b.doc.version] # None /\ snapshot'[b.doc.version] = snapshot[b.doc.version]
        BY <1>4, <3>1 DEF CallOK
      <3>5. b.phase = "decided" => b.effect = EvaluateProposal(RulesFor(b), b.proposal)
        BY <3>1 DEF CallOK
      <3> HIDE DEF b
      <3>6. b.phase = "decided" => RulesFor(policyCall[q])' = RulesFor(b)
        BY <3>1, <3>4 DEF RulesFor
      <3> QED BY <3>1, <3>2, <3>3, <3>4, <3>5, <3>6 DEF CallOK
    <2> QED BY <2>1, <2>2
  <1>10. OneInsert'
    BY <1>6, IdleCallOK DEF PolicyInv, OneInsert
  <1>11. DecisionsFollowFrozenRules'
    <2> DEFINE Traced(x, row) ==
          /\ row # None /\ row.hash = x.hash
          /\ \/ \E i \in DOMAIN row.rules : Governs(row.rules, i, x.proposal) /\ x.effect = row.rules[i].effect
             \/ x.effect = "ALLOW" /\ \A i \in DOMAIN row.rules : ~Governs(row.rules, i, x.proposal)
    <2>1. ASSUME NEW x \in decisions PROVE Traced(x, snapshot'[x.version])
      <3>1. Traced(x, snapshot[x.version]) /\ x.version \in Versions
        BY DEF PolicyInv, DecisionsFollowFrozenRules, PolicyTypeOK
      <3>2. snapshot'[x.version] = snapshot[x.version]
        BY <1>4, <3>1
      <3> QED BY <3>1, <3>2
    <2>2. Traced(dd, snapshot'[v0])
      <3>1. c.effect = EvaluateProposal(d.rules, c.proposal)
        BY <1>1, <1>3 DEF CallOK
      <3>2. \/ \E i \in DOMAIN d.rules : Governs(d.rules, i, c.proposal) /\ c.effect = d.rules[i].effect
            \/ c.effect = "ALLOW" /\ \A i \in DOMAIN d.rules : ~Governs(d.rules, i, c.proposal)
        BY <3>1, FirstMatchGoverns
      <3>3. dd.hash = Hashed(d.rules) /\ dd.proposal = c.proposal /\ dd.effect = c.effect
        BY <1>3
      <3> HIDE DEF c, dd
      <3> QED BY <1>3, <1>5, <3>2, <3>3
    <2>3. dd.version = v0
      OBVIOUS
    <2> HIDE DEF dd, c
    <2> QED BY <1>2, <2>1, <2>2, <2>3 DEF DecisionsFollowFrozenRules
  <1> QED BY <1>7, <1>8, <1>9, <1>10, <1>11 DEF PolicyInv

LEMMA PolicyStep == PolicyInv /\ [PolicyNext]_policyVars => PolicyInv'
PROOF
  <1> SUFFICES ASSUME PolicyInv, [PolicyNext]_policyVars PROVE PolicyInv'
    OBVIOUS
  <1>1. CASE UNCHANGED policyVars
    <2>1. UNCHANGED <<document, snapshot, policyCall, decisions>>
      BY <1>1 DEF policyVars
    <2>2. \A q \in PolicyReplicas : CallOK(policyCall[q])'
      BY <2>1 DEF PolicyInv, CallOK, RulesFor
    <2>3. PolicyTypeOK' /\ RowsAreDocuments' /\ OneInsert' /\ DecisionsFollowFrozenRules'
      BY <2>1 DEF PolicyInv, PolicyTypeOK, RowsAreDocuments, OneInsert, DecisionsFollowFrozenRules
    <2> QED BY <2>2, <2>3 DEF PolicyInv
  <1>2. ASSUME NEW r \in PolicyReplicas,
               \/ BeginEvaluate(r) \/ LoadSnapshot(r) \/ InsertSnapshot(r) \/ EvaluatePolicy(r)
               \/ CommitDecision(r) \/ RollBackCheck(r) \/ RotatePolicy(r)
        PROVE  PolicyInv'
    BY <1>2, BeginEvaluateKeeps, LoadSnapshotKeeps, InsertSnapshotKeeps, EvaluatePolicyKeeps, CommitKeeps,
       RollBackKeeps, RotateKeeps
  <1> QED BY <1>1, <1>2 DEF PolicyNext

\* A call that inserted a row is alone with its version until it commits or
\* rolls back, rows are parsed documents, and every decision is what its
\* frozen version says (PolicyService.evaluate, loadSnapshot).
THEOREM PolicyInvariance == PolicySpec => []PolicyInv
  BY PolicyInitially, PolicyStep, PTL DEF PolicySpec

\* A version once frozen is never rewritten or lost, however first uses race.
THEOREM FrozenVersionsStayHolds == PolicySpec => [][FrozenVersionsStay]_policyVars
PROOF
  <1>1. PolicyInv /\ [PolicyNext]_policyVars => [FrozenVersionsStay]_policyVars
    <2> SUFFICES ASSUME PolicyInv, PolicyNext PROVE FrozenVersionsStay
      BY DEF FrozenVersionsStay
    <2>1. PICK r \in PolicyReplicas : CommitDecision(r) \/ snapshot' = snapshot
      BY DEF PolicyNext, BeginEvaluate, LoadSnapshot, InsertSnapshot, EvaluatePolicy, RollBackCheck, RotatePolicy
    <2> QED BY <2>1, CommitWritesOnce DEF FrozenVersionsStay
  <1> QED BY <1>1, PolicyInvariance, PTL DEF PolicySpec

-----------------------------------------------------------------------------
(***************************************************************************)
(* Conditions and inputs (Conditions)                                      *)
(***************************************************************************)

RowTypes == [status : {"PENDING", "READY", "RETRYING", "RUNNING", "COMPLETED", "FAILED", "SKIPPED"},
             output : StepOutputs \cup {Null}, error : {Null, Text(9)}, attempt : Nat]

\* A row that no step of the engine writes again.
RowIsFinal(row) == row.status \in {"COMPLETED", "FAILED", "SKIPPED"}

ConditionTypeOK ==
  /\ rows \in [PlanSteps -> RowTypes]
  /\ reading \in [Passes -> [PlanSteps -> RowTypes]]
  /\ DOMAIN frozen = PlanSteps

\* Whoever left PENDING has resolved dependencies; what a pass has read final
\* is still so.
ConditionInv ==
  /\ ConditionTypeOK
  /\ \A s \in PlanSteps : rows[s].status # "PENDING" => Resolved(s, rows)
  /\ \A p \in Passes, s \in PlanSteps :
       /\ reading[p][s].status # "PENDING" => Resolved(s, reading[p])
       /\ RowIsFinal(reading[p][s]) => rows[s] = reading[p][s]
  /\ \A s \in PlanSteps : frozen[s].run # "no" => rows[s].status # "PENDING"
  /\ DecisionsFollowDependencies

\* A reference is looked up in the row of its step only.
LEMMA LookupAgrees ==
  ASSUME NEW path, NEW A, NEW B, path[1] = "steps" => A[path[2]] = B[path[2]]
  PROVE  LookupPath(path, A) = LookupPath(path, B)
  BY DEF LookupPath

\* A condition has one value on rows that agree on the steps it refers to.
LEMMA EvaluateAgrees ==
  ASSUME NEW e, NEW A, NEW B, NEW D, RefsOf(e) \subseteq D, \A d \in D : A[d] = B[d]
  PROVE  Evaluate(e, A) = Evaluate(e, B)
PROOF
  <1>1. ASSUME NEW x \in OperandsOf(e) PROVE Resolve(x, A) = Resolve(x, B)
    <2>1. CASE "ref" \in DOMAIN x
      <3>1. x.ref[1] = "steps" => x.ref[2] \in RefsOf(e)
        BY <2>1 DEF RefsOf
      <3>2. x.ref[1] = "steps" => A[x.ref[2]] = B[x.ref[2]]
        BY <3>1
      <3>3. LookupPath(x.ref, A) = LookupPath(x.ref, B)
        BY <3>2, LookupAgrees
      <3> QED BY <2>1, <3>3 DEF Resolve
    <2>2. CASE "ref" \notin DOMAIN x
      BY <2>2 DEF Resolve
    <2> QED BY <2>1, <2>2
  <1>2. [x \in OperandsOf(e) |-> Resolve(x, A)] = [x \in OperandsOf(e) |-> Resolve(x, B)]
    BY <1>1
  <1> QED BY <1>2 DEF Evaluate

\* So has an input template.
LEMMA TemplateAgrees ==
  ASSUME NEW t, NEW A, NEW B, NEW D, TemplateRefs(t) \subseteq D, \A d \in D : A[d] = B[d]
  PROVE  ResolveTemplate(t, A) = ResolveTemplate(t, B)
PROOF
  <1>1. CASE t.k = "literal"
    BY <1>1 DEF ResolveTemplate
  <1>2. CASE t.k # "literal"
    <2>1. t.ref[1] = "steps" => A[t.ref[2]] = B[t.ref[2]]
      BY <1>2 DEF TemplateRefs
    <2>2. LookupPath(t.ref, A) = LookupPath(t.ref, B)
      BY <2>1, LookupAgrees
    <2>3. TemplateExpression(t.ref, A) = TemplateExpression(t.ref, B)
      BY <2>2 DEF TemplateExpression
    <2> QED BY <1>2, <2>3 DEF ResolveTemplate
  <1> QED BY <1>1, <1>2

\* How the engine may move the rows: final rows stay, and a row leaves
\* PENDING only with its dependencies resolved.
RowsAdvance ==
  /\ rows' \in [PlanSteps -> RowTypes]
  /\ \A s \in PlanSteps : /\ RowIsFinal(rows[s]) => rows'[s] = rows[s]
                          /\ rows'[s].status # "PENDING" => Resolved(s, rows)
                          /\ rows[s].status # "PENDING" => rows'[s].status # "PENDING"

\* Resolved dependencies have final rows.
LEMMA ResolvedIsFinal ==
  ASSUME NEW s \in PlanSteps, NEW A, Resolved(s, A)
  PROVE  \A d \in SpecOf[s].dependsOn : d \in PlanSteps /\ d # s /\ RowIsFinal(A[d])
  BY ConditionAssumption DEF Resolved, RowIsFinal

\* Rows that agree on the dependencies resolve them alike.
LEMMA ResolvedAgrees ==
  ASSUME NEW s, NEW A, NEW B, Resolved(s, A), \A d \in SpecOf[s].dependsOn : A[d] = B[d]
  PROVE  Resolved(s, B)
  BY DEF Resolved

\* A decision that follows the dependencies' rows follows them still.
Follows(s, A) ==
  LET e == Compile(written[s].condition) IN
  (/\ frozen[s].run # "no"
   /\ RefsOf(e) \cup TemplateRefs(written[s].input) \subseteq SpecOf[s].dependsOn)
  => /\ frozen[s].run = "run" <=> Evaluate(e, A)
     /\ frozen[s].run = "run" => frozen[s].input = ResolveTemplate(written[s].input, A)

LEMMA FollowsAgrees ==
  ASSUME NEW s \in PlanSteps, NEW A, NEW B, Follows(s, A), \A d \in SpecOf[s].dependsOn : A[d] = B[d]
  PROVE  Follows(s, B)
PROOF
  <1> DEFINE e == Compile(written[s].condition)
             D == SpecOf[s].dependsOn
             t == written[s].input
  <1> SUFFICES ASSUME frozen[s].run # "no", RefsOf(e) \cup TemplateRefs(t) \subseteq D
               PROVE  /\ frozen[s].run = "run" <=> Evaluate(e, B)
                      /\ frozen[s].run = "run" => frozen[s].input = ResolveTemplate(t, B)
    BY DEF Follows
  <1>1. /\ frozen[s].run = "run" <=> Evaluate(e, A)
        /\ frozen[s].run = "run" => frozen[s].input = ResolveTemplate(t, A)
    BY DEF Follows
  <1>2. RefsOf(e) \subseteq D /\ TemplateRefs(t) \subseteq D /\ \A d \in D : A[d] = B[d]
    OBVIOUS
  <1> HIDE DEF e, D, t
  <1>3. Evaluate(e, A) = Evaluate(e, B)
    BY <1>2, EvaluateAgrees
  <1>4. ResolveTemplate(t, A) = ResolveTemplate(t, B)
    BY <1>2, TemplateAgrees
  <1> QED BY <1>1, <1>3, <1>4

\* What every move of the rows keeps, the decisions aside.
LEMMA RowsAdvanceKeep ==
  ASSUME ConditionInv, RowsAdvance
  PROVE  /\ \A s \in PlanSteps : rows'[s].status # "PENDING" => Resolved(s, rows')
         /\ \A p \in Passes, s \in PlanSteps : RowIsFinal(reading[p][s]) => rows'[s] = reading[p][s]
         /\ \A s \in PlanSteps : rows[s].status # "PENDING" =>
              \A d \in SpecOf[s].dependsOn : rows'[d] = rows[d]
PROOF
  <1>1. ASSUME NEW s \in PlanSteps, Resolved(s, rows)
        PROVE  Resolved(s, rows') /\ \A d \in SpecOf[s].dependsOn : rows'[d] = rows[d]
    <2>1. \A d \in SpecOf[s].dependsOn : rows'[d] = rows[d]
      BY <1>1, ResolvedIsFinal DEF RowsAdvance
    <2> QED BY <1>1, <2>1, ResolvedAgrees
  <1>2. \A s \in PlanSteps : rows'[s].status # "PENDING" => Resolved(s, rows')
    BY <1>1 DEF RowsAdvance
  <1>3. \A s \in PlanSteps : rows[s].status # "PENDING" => \A d \in SpecOf[s].dependsOn : rows'[d] = rows[d]
    BY <1>1 DEF ConditionInv
  <1>4. \A p \in Passes, s \in PlanSteps : RowIsFinal(reading[p][s]) => rows'[s] = reading[p][s]
    BY DEF ConditionInv, RowsAdvance
  <1> QED BY <1>2, <1>3, <1>4

\* Moves of the rows that decide nothing.
LEMMA RowsMoveKeeps ==
  ASSUME ConditionInv, RowsAdvance, UNCHANGED <<written, reading, frozen>>
  PROVE  ConditionInv'
PROOF
  <1>1. ConditionTypeOK'
    BY DEF ConditionInv, ConditionTypeOK, RowsAdvance
  <1>2. \A s \in PlanSteps : Resolved(s, rows)' <=> Resolved(s, rows')
    BY DEF Resolved
  <1>3. \A s \in PlanSteps : rows'[s].status # "PENDING" => Resolved(s, rows)'
    BY <1>2, RowsAdvanceKeep
  <1>4. \A p \in Passes, s \in PlanSteps :
          /\ reading'[p][s].status # "PENDING" => Resolved(s, reading[p])'
          /\ RowIsFinal(reading'[p][s]) => rows'[s] = reading'[p][s]
    <2> SUFFICES ASSUME NEW p \in Passes, NEW s \in PlanSteps
                 PROVE  /\ reading'[p][s].status # "PENDING" => Resolved(s, reading[p])'
                        /\ RowIsFinal(reading'[p][s]) => rows'[s] = reading'[p][s]
      OBVIOUS
    <2>1. reading'[p] = reading[p]
      OBVIOUS
    <2>2. reading[p][s].status # "PENDING" => Resolved(s, reading[p])
      BY DEF ConditionInv
    <2>3. Resolved(s, reading[p]) => Resolved(s, reading[p])'
      BY <2>1 DEF Resolved
    <2> QED BY <2>1, <2>2, <2>3, RowsAdvanceKeep
  <1>5. \A s \in PlanSteps : frozen'[s].run # "no" => rows'[s].status # "PENDING"
    BY DEF ConditionInv, RowsAdvance
  <1>6. DecisionsFollowDependencies'
    <2> SUFFICES ASSUME NEW s \in PlanSteps PROVE Follows(s, rows')
      BY DEF DecisionsFollowDependencies, Follows
    <2>1. CASE frozen[s].run = "no"
      BY <2>1 DEF Follows
    <2>2. CASE frozen[s].run # "no"
      <3>1. \A d \in SpecOf[s].dependsOn : rows[d] = rows'[d]
        BY <2>2, RowsAdvanceKeep DEF ConditionInv
      <3>2. Follows(s, rows)
        BY DEF ConditionInv, DecisionsFollowDependencies, Follows
      <3> QED BY <3>1, <3>2, FollowsAgrees
    <2> QED BY <2>1, <2>2
  <1> QED BY <1>1, <1>3, <1>4, <1>5, <1>6 DEF ConditionInv, RowIsFinal

LEMMA MarkReadyKeeps ==
  ASSUME ConditionInv, NEW s \in PlanSteps, MarkReady(s)
  PROVE  ConditionInv'
PROOF
  <1>1. rows \in [PlanSteps -> RowTypes] /\ rows[s].status = "PENDING" /\ Resolved(s, rows)
    BY DEF ConditionInv, ConditionTypeOK, MarkReady
  <1>2. rows' = [rows EXCEPT ![s].status = "READY"] /\ UNCHANGED <<written, reading, frozen>>
    BY DEF MarkReady
  <1>3. rows' \in [PlanSteps -> RowTypes] /\ rows'[s].status = "READY" /\ \A d \in PlanSteps \ {s} : rows'[d] = rows[d]
    BY <1>1, <1>2 DEF RowTypes
  <1>4. RowsAdvance
    BY <1>1, <1>3 DEF RowsAdvance, RowIsFinal, ConditionInv
  <1> QED BY <1>2, <1>4, RowsMoveKeeps

LEMMA EndStepKeeps ==
  ASSUME ConditionInv, NEW s \in PlanSteps, EndStep(s)
  PROVE  ConditionInv'
PROOF
  <1>1. rows \in [PlanSteps -> RowTypes] /\ rows[s].status = "RUNNING" /\ Resolved(s, rows)
    BY DEF ConditionInv, ConditionTypeOK, EndStep
  <1>2. UNCHANGED <<written, reading, frozen>>
    BY DEF EndStep
  <1>3. rows' \in [PlanSteps -> RowTypes] /\ rows'[s].status # "PENDING" /\ \A d \in PlanSteps \ {s} : rows'[d] = rows[d]
    <2>1. ASSUME NEW out \in StepOutputs, rows' = [rows EXCEPT ![s].status = "COMPLETED", ![s].output = out]
          PROVE  rows'[s] \in RowTypes /\ rows'[s].status = "COMPLETED" /\ rows' = [rows EXCEPT ![s] = rows'[s]]
      <3>1. rows' = [rows EXCEPT ![s] = [rows[s] EXCEPT !.status = "COMPLETED", !.output = out]] /\ rows[s] \in RowTypes
        BY <1>1, <2>1
      <3> QED BY <1>1, <3>1 DEF RowTypes
    <2>2. ASSUME NEW st \in {"RETRYING", "FAILED"}, rows' = [rows EXCEPT ![s].status = st, ![s].error = Text(9)]
          PROVE  rows'[s] \in RowTypes /\ rows'[s].status = st /\ rows' = [rows EXCEPT ![s] = rows'[s]]
      <3>1. rows' = [rows EXCEPT ![s] = [rows[s] EXCEPT !.status = st, !.error = Text(9)]] /\ rows[s] \in RowTypes
        BY <1>1, <2>2
      <3> QED BY <1>1, <3>1 DEF RowTypes
    <2>3. \/ \E out \in StepOutputs : rows' = [rows EXCEPT ![s].status = "COMPLETED", ![s].output = out]
          \/ \E st \in {"RETRYING", "FAILED"} : rows' = [rows EXCEPT ![s].status = st, ![s].error = Text(9)]
      BY DEF EndStep
    <2>4. rows'[s] \in RowTypes /\ rows'[s].status # "PENDING" /\ rows' = [rows EXCEPT ![s] = rows'[s]]
      BY <2>1, <2>2, <2>3
    <2> QED BY <1>1, <2>4
  <1>4. RowsAdvance
    BY <1>1, <1>3 DEF RowsAdvance, RowIsFinal, ConditionInv
  <1> QED BY <1>2, <1>4, RowsMoveKeeps

LEMMA BeginPassKeeps ==
  ASSUME ConditionInv, NEW p \in Passes, BeginPass(p)
  PROVE  ConditionInv'
PROOF
  <1>1. reading' = [reading EXCEPT ![p] = rows] /\ UNCHANGED <<written, rows, frozen>>
    BY DEF BeginPass
  <1>2. ConditionTypeOK'
    BY <1>1 DEF ConditionInv, ConditionTypeOK
  <1>3. reading'[p] = rows /\ \A q \in Passes \ {p} : reading'[q] = reading[q]
    BY <1>1 DEF ConditionInv, ConditionTypeOK
  <1>4. \A q \in Passes, s \in PlanSteps :
          /\ reading'[q][s].status # "PENDING" => Resolved(s, reading[q])'
          /\ RowIsFinal(reading'[q][s]) => rows'[s] = reading'[q][s]
    <2> SUFFICES ASSUME NEW q \in Passes, NEW s \in PlanSteps
                 PROVE  /\ reading'[q][s].status # "PENDING" => Resolved(s, reading[q])'
                        /\ RowIsFinal(reading'[q][s]) => rows'[s] = reading'[q][s]
      OBVIOUS
    <2>1. CASE q = p
      BY <1>1, <1>3, <2>1 DEF ConditionInv, Resolved
    <2>2. CASE q # p
      <3>1. reading'[q] = reading[q]
        BY <1>3, <2>2
      <3> QED BY <1>1, <3>1 DEF ConditionInv, Resolved
    <2> QED BY <2>1, <2>2
  <1>5. \A s \in PlanSteps : rows'[s].status # "PENDING" => Resolved(s, rows)'
    BY <1>1 DEF ConditionInv, Resolved
  <1>6. DecisionsFollowDependencies'
    BY <1>1 DEF ConditionInv, DecisionsFollowDependencies
  <1>7. \A s \in PlanSteps : frozen'[s].run # "no" => rows'[s].status # "PENDING"
    BY <1>1 DEF ConditionInv
  <1> QED BY <1>2, <1>4, <1>5, <1>6, <1>7 DEF ConditionInv, RowIsFinal

LEMMA ClaimStepKeeps ==
  ASSUME ConditionInv, NEW p \in Passes, NEW s \in PlanSteps, ClaimStep(p, s)
  PROVE  ConditionInv'
PROOF
  <1> DEFINE e == Compile(written[s].condition)
             t == written[s].input
             D == SpecOf[s].dependsOn
  <1>1. rows \in [PlanSteps -> RowTypes] /\ rows[s].status \in {"READY", "RETRYING"} /\ Resolved(s, rows)
    BY DEF ConditionInv, ConditionTypeOK, ClaimStep
  <1>2. UNCHANGED <<written, reading>>
    BY DEF ClaimStep
  <1>3. rows' \in [PlanSteps -> RowTypes] /\ rows'[s].status # "PENDING" /\ \A d \in PlanSteps \ {s} : rows'[d] = rows[d]
    <2>1. CASE rows' = [rows EXCEPT ![s] = [status |-> "RUNNING", output |-> Null, error |-> Null, attempt |-> @.attempt + 1]]
      BY <1>1, <2>1 DEF RowTypes
    <2>2. CASE rows' = [rows EXCEPT ![s].status = "SKIPPED"]
      BY <1>1, <2>2 DEF RowTypes
    <2> QED BY <2>1, <2>2 DEF ClaimStep
  <1>4. /\ DOMAIN frozen' = PlanSteps /\ \A q \in PlanSteps \ {s} : frozen'[q] = frozen[q]
        /\ frozen'[s].run # "no"
        /\ frozen'[s].run = "run" <=> Evaluate(e, rows)
        /\ frozen'[s].run = "run" => frozen'[s].input = ResolveTemplate(t, reading[p])
    <2>1. DOMAIN frozen = PlanSteps
      BY DEF ConditionInv, ConditionTypeOK
    <2>2. CASE Evaluate(e, rows)
      <3>1. frozen' = [frozen EXCEPT ![s] = [run |-> "run", input |-> ResolveTemplate(t, reading[p])]]
        BY <2>2 DEF ClaimStep
      <3> HIDE DEF e, t
      <3> QED BY <2>1, <2>2, <3>1
    <2>3. CASE ~Evaluate(e, rows)
      <3>1. frozen' = [frozen EXCEPT ![s] = [run |-> "skip", input |-> Undefined]]
        BY <2>3 DEF ClaimStep
      <3> HIDE DEF e, t
      <3> QED BY <2>1, <2>3, <3>1
    <2> QED BY <2>2, <2>3
  <1>5. RowsAdvance
    BY <1>1, <1>3 DEF RowsAdvance, RowIsFinal, ConditionInv
  <1>6. ConditionTypeOK'
    BY <1>2, <1>3, <1>4 DEF ConditionInv, ConditionTypeOK
  <1>7. \A q \in PlanSteps : rows'[q].status # "PENDING" => Resolved(q, rows)'
    <2>1. \A q \in PlanSteps : Resolved(q, rows') => Resolved(q, rows)'
      BY DEF Resolved
    <2> QED BY <1>5, <2>1, RowsAdvanceKeep
  <1>8. \A u \in Passes, q \in PlanSteps :
          /\ reading'[u][q].status # "PENDING" => Resolved(q, reading[u])'
          /\ RowIsFinal(reading'[u][q]) => rows'[q] = reading'[u][q]
    <2> SUFFICES ASSUME NEW u \in Passes, NEW q \in PlanSteps
                 PROVE  /\ reading'[u][q].status # "PENDING" => Resolved(q, reading[u])'
                        /\ RowIsFinal(reading'[u][q]) => rows'[q] = reading'[u][q]
      OBVIOUS
    <2>1. reading'[u] = reading[u]
      BY <1>2
    <2>2. reading[u][q].status # "PENDING" => Resolved(q, reading[u])
      BY DEF ConditionInv
    <2>3. Resolved(q, reading[u]) => Resolved(q, reading[u])'
      BY <2>1 DEF Resolved
    <2> QED BY <1>5, <2>1, <2>2, <2>3, RowsAdvanceKeep
  <1>9. \A q \in PlanSteps : frozen'[q].run # "no" => rows'[q].status # "PENDING"
    BY <1>3, <1>4, <1>5 DEF ConditionInv, RowsAdvance
  <1>10. ASSUME RefsOf(e) \cup TemplateRefs(t) \subseteq D
         PROVE  Evaluate(e, rows) = Evaluate(e, rows') /\ ResolveTemplate(t, reading[p]) = ResolveTemplate(t, rows')
    <2>1. \A d \in D : d \in PlanSteps /\ d # s /\ rows[d] = rows'[d]
      BY <1>1, <1>3, ResolvedIsFinal
    <2>2. Resolved(s, reading[p])
      BY DEF ConditionInv, ClaimStep, Due
    <2>3. \A d \in D : reading[p][d] = rows[d]
      BY <2>2, ResolvedIsFinal DEF ConditionInv
    <2>4. /\ RefsOf(e) \subseteq D /\ TemplateRefs(t) \subseteq D /\ \A d \in D : rows[d] = rows'[d]
          /\ \A d \in D : reading[p][d] = rows'[d]
      BY <1>10, <2>1, <2>3
    <2> HIDE DEF e, t, D
    <2>5. Evaluate(e, rows) = Evaluate(e, rows')
      BY <2>4, EvaluateAgrees
    <2>6. ResolveTemplate(t, reading[p]) = ResolveTemplate(t, rows')
      BY <2>4, TemplateAgrees
    <2> QED BY <2>5, <2>6
  <1>11. ASSUME NEW q \in PlanSteps
         PROVE  (/\ frozen'[q].run # "no"
                 /\ RefsOf(Compile(written[q].condition)) \cup TemplateRefs(written[q].input) \subseteq SpecOf[q].dependsOn)
                => /\ frozen'[q].run = "run" <=> Evaluate(Compile(written[q].condition), rows')
                   /\ frozen'[q].run = "run" => frozen'[q].input = ResolveTemplate(written[q].input, rows')
    <2>1. CASE q = s
      BY <1>4, <1>10, <2>1
    <2>2. CASE q # s
      <3>1. frozen'[q] = frozen[q]
        BY <1>4, <2>2
      <3>2. Follows(q, rows)
        BY DEF ConditionInv, DecisionsFollowDependencies, Follows
      <3>3. CASE frozen[q].run = "no"
        BY <3>1, <3>3
      <3>4. CASE frozen[q].run # "no"
        <4>1. \A d \in SpecOf[q].dependsOn : rows[d] = rows'[d]
          BY <1>5, <3>4, RowsAdvanceKeep DEF ConditionInv
        <4>2. Follows(q, rows')
          BY <3>2, <4>1, FollowsAgrees
        <4> QED BY <3>1, <4>2 DEF Follows
      <3> QED BY <3>3, <3>4
    <2> QED BY <2>1, <2>2
  <1>12. DecisionsFollowDependencies'
    BY <1>2, <1>11 DEF DecisionsFollowDependencies
  <1> QED BY <1>6, <1>7, <1>8, <1>9, <1>12 DEF ConditionInv, RowIsFinal

LEMMA ConditionInitially == ConditionInit => ConditionInv
PROOF
  <1> SUFFICES ASSUME ConditionInit PROVE ConditionInv
    OBVIOUS
  <1>1. FreshRows \in [PlanSteps -> RowTypes]
    BY DEF FreshRows, Row, RowTypes
  <1>2. \A s \in PlanSteps : /\ FreshRows[s].status \in {"PENDING", "READY"}
                             /\ FreshRows[s].status = "READY" => SpecOf[s].dependsOn = {}
    BY DEF FreshRows, Row
  <1>3. rows = FreshRows /\ reading = [p \in Passes |-> FreshRows] /\ frozen = [s \in PlanSteps |-> Unclaimed]
    BY DEF ConditionInit
  <1>4. \A s \in PlanSteps : frozen[s].run = "no"
    BY <1>3 DEF Unclaimed
  <1>5. ConditionTypeOK
    BY <1>1, <1>3 DEF ConditionTypeOK
  <1>6. DecisionsFollowDependencies
    BY <1>4 DEF DecisionsFollowDependencies
  <1> QED BY <1>2, <1>3, <1>4, <1>5, <1>6 DEF ConditionInv, Resolved, RowIsFinal

LEMMA ConditionStep == ConditionInv /\ [ConditionNext]_conditionVars => ConditionInv'
PROOF
  <1> SUFFICES ASSUME ConditionInv, [ConditionNext]_conditionVars PROVE ConditionInv'
    OBVIOUS
  <1>1. CASE UNCHANGED conditionVars
    <2>1. UNCHANGED <<written, reading, frozen>> /\ rows' = rows
      BY <1>1 DEF conditionVars
    <2>2. RowsAdvance
      BY <2>1 DEF RowsAdvance, ConditionInv, ConditionTypeOK
    <2> QED BY <2>1, <2>2, RowsMoveKeeps
  <1>2. CASE ConditionNext
    BY <1>2, MarkReadyKeeps, EndStepKeeps, BeginPassKeeps, ClaimStepKeeps DEF ConditionNext
  <1> QED BY <1>1, <1>2

\* A step that refers only to its dependencies is decided by their final
\* rows, whichever pass claims it and however old that pass's reading is.
THEOREM ConditionInvariance == ConditionSpec => []ConditionInv
  BY ConditionInitially, ConditionStep, PTL DEF ConditionSpec

-----------------------------------------------------------------------------
(***************************************************************************)
(* Execution state, projections and envelopes (ContextFlow)                *)
(***************************************************************************)

ArtifactRefs == [run : Runs, step : Producers, ordinal : Nat]
Envelopes == [version : Nat, values : States, artifacts : SUBSET ArtifactRefs]
Hashes == [version : Nat, values : States, artifacts : SUBSET ArtifactRefs, step : Projections]

\* What was materialized from the inputs a fingerprint stands for.
EnvelopeOf(h) == [version |-> h.version, values |-> h.values, artifacts |-> h.artifacts]
Entries == {x \in [hash : Hashes, envelope : Envelopes] :
              x.envelope = EnvelopeOf(x.hash) /\ EnvelopeBytes(x.envelope) <= MaxEnvelope}
PatchTypes == [set : States, delete : Seq(StateKeys), ok : BOOLEAN]
WriterTypes == [at : {"new", "read", "invalid", "terminal", "conflict", "noop", "applied"}, run : Runs,
                version : Nat, seen : States, patch : PatchTypes]
ClaimTypes == [ok : BOOLEAN, envelope : Envelopes, reused : BOOLEAN, stateBytes : {SizeOf(s) : s \in States},
               usage : {"open", "reported", "not_reported"}, state : States, version : Nat,
               applied : [Producers -> Seq(Outputs)], proj : Projections]

ContextTypeOK ==
  /\ state \in [Runs -> States] /\ version \in [Runs -> Nat] /\ over \in [Runs -> BOOLEAN]
  /\ applied \in [Runs -> [Producers -> Seq(Outputs)]]
  /\ writer \in [Writers -> WriterTypes]
  /\ cache \in Seq(Entries)
  /\ claims \in [Runs -> Seq(ClaimTypes)]

\* A version that a writer read and that is still current is of the state it read.
WriterOK(w) ==
  writer[w].at = "read" =>
    /\ writer[w].version <= version[writer[w].run]
    /\ writer[w].version = version[writer[w].run] => writer[w].seen = state[writer[w].run]

\* What a claim shows is its own run's.
ClaimOK(e, c) ==
  c.ok =>
    /\ c.envelope.version = c.version
    /\ \A k \in StateKeys : c.envelope.values[k] = IF k \in c.proj.keys THEN c.state[k] ELSE Absent
    /\ \A a \in c.envelope.artifacts : a.run = e /\ c.applied[a.step] # <<>>
    /\ c.proj.keys \subseteq Present(c.state)
    /\ EnvelopeBytes(c.envelope) <= MaxEnvelope
    /\ c.stateBytes = SizeOf(c.state)

ContextInv ==
  /\ ContextTypeOK
  /\ \A w \in Writers : WriterOK(w)
  /\ EnvelopeIsOwnAndFresh

LEMMA PatchTyped ==
  ASSUME NEW s \in States, NEW p \in PatchTypes
  PROVE  ApplyStatePatch(s, p) \in States
PROOF
  <1>1. p.set \in States
    BY DEF PatchTypes
  <1> QED BY <1>1 DEF ApplyStatePatch, States

\* The writes of a result, one key each, and those it sets when all resolve.
LEMMA WritesTyped ==
  ASSUME NEW o \in Outputs, NEW p \in Producers
  PROVE  /\ BuildStateWritesPatch(o, Mappings[p]).set \in States
         /\ \A s \in States : ApplyStatePatch(s, BuildStateWritesPatch(o, Mappings[p])) \in States
         /\ Resolves(o, Mappings[p]) =>
              \A s \in States : \A i \in DOMAIN Mappings[p] :
                ApplyStatePatch(s, BuildStateWritesPatch(o, Mappings[p]))[Mappings[p][i].key]
                  = o.values[Mappings[p][i].from]
PROOF
  <1> DEFINE m == Mappings[p]
             patch == BuildStateWritesPatch(o, m)
             at(k) == CHOOSE i \in DOMAIN m : m[i].key = k
  <1>1. /\ \A i, j \in DOMAIN m : m[i].key = m[j].key => i = j
        /\ \A i \in DOMAIN m : o.values[m[i].from] \in Values \cup {Absent}
    BY ContextAssumption
  <1>2. \A i \in DOMAIN m : m[i].key \in StateKeys
    <2> DEFINE M == [key : StateKeys, from : STRING]
    <2>1. m \in Seq(M) /\ \A x \in M : x.key \in StateKeys
      BY ContextAssumption
    <2> HIDE DEF M, m
    <2>2. \A i \in DOMAIN m : m[i] \in M
      BY <2>1, ElementOfSeq, LenProperties
    <2> QED BY <2>1, <2>2
  <1>3. \A k : (\E i \in DOMAIN m : m[i].key = k) => at(k) \in DOMAIN m /\ m[at(k)].key = k
    OBVIOUS
  <1>4. patch.set = [k \in StateKeys |-> IF \E i \in DOMAIN m : m[i].key = k THEN o.values[m[at(k)].from] ELSE Absent]
    BY DEF BuildStateWritesPatch
  <1>5. patch.set \in States
    <2> DEFINE v(k) == IF \E i \in DOMAIN m : m[i].key = k THEN o.values[m[at(k)].from] ELSE Absent
    <2>1. \A k \in StateKeys : v(k) \in Values \cup {Absent}
      BY <1>1, <1>3
    <2>2. patch.set = [k \in StateKeys |-> v(k)]
      BY <1>4
    <2> HIDE DEF v, patch
    <2> QED BY <2>1, <2>2 DEF States
  <1>6. \A i \in DOMAIN m : patch.set[m[i].key] = o.values[m[i].from]
    <2> SUFFICES ASSUME NEW i \in DOMAIN m PROVE patch.set[m[i].key] = o.values[m[i].from]
      OBVIOUS
    <2>1. at(m[i].key) = i
      BY <1>1, <1>3
    <2>2. patch.set[m[i].key] = o.values[m[at(m[i].key)].from]
      BY <1>2, <1>4
    <2> QED BY <2>1, <2>2
  <1> HIDE DEF patch, m
  <1>7. \A s \in States : ApplyStatePatch(s, patch) \in States
    BY <1>5 DEF ApplyStatePatch, States
  <1>8. ASSUME Resolves(o, m), NEW s \in States, NEW i \in DOMAIN m
        PROVE  ApplyStatePatch(s, patch)[m[i].key] = o.values[m[i].from]
    <2>1. o.values[m[i].from] # Absent /\ m[i].key \in StateKeys /\ patch.set[m[i].key] = o.values[m[i].from]
      BY <1>2, <1>6, <1>8 DEF Resolves
    <2> QED BY <2>1 DEF ApplyStatePatch
  <1> QED BY <1>5, <1>7, <1>8 DEF patch, m

LEMMA ClaimsAreOK == EnvelopeIsOwnAndFresh <=> \A e \in Runs : \A i \in DOMAIN claims[e] : ClaimOK(e, claims[e][i])
  BY DEF EnvelopeIsOwnAndFresh, ClaimOK

\* A change of a run's state takes a version.
StateMoves ==
  /\ state' \in [Runs -> States] /\ version' \in [Runs -> Nat]
  /\ \A e \in Runs : \/ state'[e] = state[e] /\ version'[e] = version[e]
                     \/ version'[e] = version[e] + 1

\* A writer that only waits keeps what it knows.
LEMMA WriterStays ==
  ASSUME ContextInv, StateMoves, NEW w \in Writers, writer'[w] = writer[w]
  PROVE  WriterOK(w)'
PROOF
  <1>1. writer[w] \in WriterTypes /\ version \in [Runs -> Nat] /\ WriterOK(w)
    BY DEF ContextInv, ContextTypeOK
  <1>2. writer[w].run \in Runs /\ writer[w].version \in Nat
    BY <1>1 DEF WriterTypes
  <1>3. CASE writer[w].at # "read"
    BY <1>3 DEF WriterOK
  <1>4. CASE writer[w].at = "read"
    <2> DEFINE e == writer[w].run
    <2>1. /\ writer[w].version <= version[e] /\ version[e] \in Nat
          /\ writer[w].version = version[e] => writer[w].seen = state[e]
      BY <1>1, <1>2, <1>4 DEF WriterOK
    <2>2. \/ state'[e] = state[e] /\ version'[e] = version[e]
          \/ version'[e] = version[e] + 1
      BY <1>2 DEF StateMoves
    <2>3. writer'[w].version <= version'[e] /\ (writer'[w].version = version'[e] => writer'[w].seen = state'[e])
      BY <1>2, <2>1, <2>2
    <2> QED BY <2>3 DEF WriterOK
  <1> QED BY <1>3, <1>4

\* Storing a state takes exactly one version.
LEMMA StoreMoves ==
  ASSUME ContextTypeOK, NEW e \in Runs, NEW s \in States, Store(e, s)
  PROVE  /\ StateMoves /\ state'[e] = s /\ version'[e] = version[e] + 1
         /\ \A f \in Runs \ {e} : state'[f] = state[f] /\ version'[f] = version[f]
PROOF
  <1>1. /\ state \in [Runs -> States] /\ version \in [Runs -> Nat]
        /\ state' = [state EXCEPT ![e] = s] /\ version' = [version EXCEPT ![e] = @ + 1]
    BY DEF ContextTypeOK, Store
  <1>2. state' \in [Runs -> States] /\ state'[e] = s /\ \A f \in Runs \ {e} : state'[f] = state[f]
    BY <1>1
  <1>3. version' \in [Runs -> Nat] /\ version'[e] = version[e] + 1 /\ \A f \in Runs \ {e} : version'[f] = version[f]
    BY <1>1
  <1> QED BY <1>2, <1>3 DEF StateMoves

LEMMA StillMoves == ContextTypeOK /\ UNCHANGED <<state, version>> => StateMoves
  BY DEF ContextTypeOK, StateMoves

LEMMA ReadStateKeeps ==
  ASSUME ContextInv, NEW w \in Writers, ReadState(w)
  PROVE  ContextInv'
PROOF
  <1>1. PICK e \in Runs : writer' = [writer EXCEPT ![w] =
          [writer[w] EXCEPT !.at = "read", !.run = e, !.version = version[e], !.seen = state[e]]]
    BY DEF ReadState
  <1>2. UNCHANGED <<state, version, over, applied, cache, claims>>
    BY DEF ReadState
  <1>3. writer \in [Writers -> WriterTypes] /\ writer[w] \in WriterTypes /\ version[e] \in Nat /\ state[e] \in States
    BY DEF ContextInv, ContextTypeOK
  <1> DEFINE new == [writer[w] EXCEPT !.at = "read", !.run = e, !.version = version[e], !.seen = state[e]]
  <1>4. new \in WriterTypes /\ new.at = "read" /\ new.run = e /\ new.version = version[e] /\ new.seen = state[e]
    BY <1>3 DEF WriterTypes
  <1> HIDE DEF new
  <1>5. writer' = [writer EXCEPT ![w] = new]
    BY <1>1 DEF new
  <1>6. writer' \in [Writers -> WriterTypes] /\ writer'[w] = new /\ \A v \in Writers \ {w} : writer'[v] = writer[v]
    BY <1>3, <1>4, <1>5
  <1>7. ContextTypeOK'
    BY <1>2, <1>6 DEF ContextInv, ContextTypeOK
  <1>8. WriterOK(w)'
    BY <1>2, <1>3, <1>4, <1>6 DEF WriterOK
  <1>9. \A v \in Writers \ {w} : WriterOK(v)'
    BY <1>2, <1>6, StillMoves, WriterStays DEF ContextInv
  <1>10. EnvelopeIsOwnAndFresh'
    BY <1>2 DEF ContextInv, EnvelopeIsOwnAndFresh
  <1> QED BY <1>7, <1>8, <1>9, <1>10 DEF ContextInv

\* What a call of mutate does: one of its outcomes, and only an applied one
\* stores the patched state.
LEMMA MutateDoes ==
  ASSUME ContextInv, NEW w \in Writers, Mutate(w)
  PROVE  LET e == writer[w].run IN
         /\ e \in Runs /\ writer[w].at = "read"
         /\ UNCHANGED <<over, applied, cache, claims>>
         /\ writer' \in [Writers -> WriterTypes] /\ \A v \in Writers \ {w} : writer'[v] = writer[v]
         /\ writer'[w].at # "read"
         /\ \/ writer'[w].at # "applied" /\ UNCHANGED <<state, version>>
            \/ /\ writer'[w].at = "applied" /\ ~over[e] /\ version[e] = writer[w].version
               /\ Store(e, ApplyStatePatch(state[e], writer'[w].patch))
               /\ ApplyStatePatch(state[e], writer'[w].patch) # state[e]
               /\ ApplyStatePatch(state[e], writer'[w].patch) \in States
               /\ WithinBounds(ApplyStatePatch(state[e], writer'[w].patch))
PROOF
  <1> DEFINE e == writer[w].run
             out(p) == IF ~ValidPatch(p) THEN "invalid"
                       ELSE IF over[e] THEN "terminal"
                       ELSE IF ~VersionMatches(w) THEN "conflict"
                       ELSE IF ApplyStatePatch(state[e], p) = state[e] THEN "noop"
                       ELSE IF ~WithinBounds(ApplyStatePatch(state[e], p)) THEN "invalid"
                       ELSE "applied"
  <1>1. PICK p \in StatePatches :
          /\ writer' = [writer EXCEPT ![w].at = out(p), ![w].patch = p]
          /\ IF out(p) = "applied" THEN Store(e, ApplyStatePatch(state[e], p)) ELSE UNCHANGED <<state, version>>
    BY DEF Mutate
  <1>2. writer[w].at = "read" /\ UNCHANGED <<over, applied, cache, claims>>
    BY DEF Mutate
  <1>3. writer \in [Writers -> WriterTypes] /\ writer[w] \in WriterTypes
    BY DEF ContextInv, ContextTypeOK
  <1>4. e \in Runs /\ p \in PatchTypes /\ state[e] \in States
    BY <1>3, ContextAssumption DEF WriterTypes, PatchTypes, ContextInv, ContextTypeOK
  <1>5. out(p) \in {"invalid", "terminal", "conflict", "noop", "applied"}
    OBVIOUS
  <1>6. out(p) = "applied" => /\ ~over[e] /\ VersionMatches(w) /\ ApplyStatePatch(state[e], p) # state[e]
                              /\ WithinBounds(ApplyStatePatch(state[e], p))
    OBVIOUS
  <1> HIDE DEF out
  <1> DEFINE new == [writer[w] EXCEPT !.at = out(p), !.patch = p]
  <1>7. new \in WriterTypes /\ new.at = out(p) /\ new.patch = p
    BY <1>3, <1>4, <1>5 DEF WriterTypes
  <1>8. writer' = [writer EXCEPT ![w] = new]
    BY <1>1, <1>3
  <1> HIDE DEF new
  <1>9. writer' \in [Writers -> WriterTypes] /\ writer'[w] = new /\ \A v \in Writers \ {w} : writer'[v] = writer[v]
    BY <1>3, <1>7, <1>8
  <1>10. ApplyStatePatch(state[e], p) \in States
    BY <1>4, PatchTyped
  <1>11. VersionMatches(w) => version[e] = writer[w].version
    BY DEF VersionMatches
  <1> QED BY <1>1, <1>2, <1>4, <1>5, <1>6, <1>7, <1>9, <1>10, <1>11

LEMMA MutateKeeps ==
  ASSUME ContextInv, NEW w \in Writers, Mutate(w)
  PROVE  ContextInv'
PROOF
  <1> DEFINE e == writer[w].run
             new == ApplyStatePatch(state[e], writer'[w].patch)
  <1>1. /\ e \in Runs /\ UNCHANGED <<over, applied, cache, claims>>
        /\ writer' \in [Writers -> WriterTypes] /\ \A v \in Writers \ {w} : writer'[v] = writer[v]
        /\ writer'[w].at # "read"
        /\ UNCHANGED <<state, version>> \/ (Store(e, new) /\ new \in States)
    BY MutateDoes
  <1>2. StateMoves
    <2>1. ContextTypeOK
      BY DEF ContextInv
    <2> HIDE DEF new, e
    <2> QED BY <1>1, <2>1, StoreMoves, StillMoves
  <1>3. ContextTypeOK'
    BY <1>1, <1>2 DEF ContextInv, ContextTypeOK, StateMoves
  <1>4. \A v \in Writers : WriterOK(v)'
    <2>1. WriterOK(w)'
      BY <1>1 DEF WriterOK
    <2> QED BY <1>1, <1>2, <2>1, WriterStays
  <1>5. EnvelopeIsOwnAndFresh'
    BY <1>1 DEF ContextInv, EnvelopeIsOwnAndFresh
  <1> QED BY <1>3, <1>4, <1>5 DEF ContextInv

\* What a result's application does: it is registered once, and its writes
\* land together or not at all.
LEMMA ApplyDoes ==
  ASSUME ContextInv, NEW e \in Runs, NEW p \in Producers, ApplyOutput(e, p)
  PROVE  /\ ~over[e] /\ UNCHANGED <<over, writer, cache, claims>>
         /\ applied' \in [Runs -> [Producers -> Seq(Outputs)]]
         /\ \A f \in Runs, q \in Producers : f # e \/ q # p => applied'[f][q] = applied[f][q]
         /\ \E o \in Outputs :
              LET new == ApplyStatePatch(state[e], BuildStateWritesPatch(o, Mappings[p])) IN
              /\ applied'[e][p] = <<o>>
              /\ \/ UNCHANGED <<state, version>>
                 \/ /\ Store(e, new) /\ new # state[e] /\ new \in States /\ WithinBounds(new)
                    /\ \A i \in DOMAIN Mappings[p] : new[Mappings[p][i].key] = o.values[Mappings[p][i].from]
PROOF
  <1> DEFINE patch(o) == BuildStateWritesPatch(o, Mappings[p])
             new(o) == ApplyStatePatch(state[e], patch(o))
  <1>1. ~over[e] /\ UNCHANGED <<over, writer, cache, claims>>
    BY DEF ApplyOutput
  <1>2. PICK o \in Outputs :
          /\ applied' = [applied EXCEPT ![e][p] = <<o>>]
          /\ IF ValidPatch(patch(o)) /\ new(o) # state[e] /\ WithinBounds(new(o))
               THEN Store(e, new(o)) ELSE UNCHANGED <<state, version>>
    BY DEF ApplyOutput
  <1>3. applied \in [Runs -> [Producers -> Seq(Outputs)]] /\ state[e] \in States
    BY DEF ContextInv, ContextTypeOK
  <1>4. /\ applied' \in [Runs -> [Producers -> Seq(Outputs)]] /\ applied'[e][p] = <<o>>
        /\ \A f \in Runs, q \in Producers : f # e \/ q # p => applied'[f][q] = applied[f][q]
    <2>1. <<o>> \in Seq(Outputs)
      OBVIOUS
    <2> DEFINE row == [applied[e] EXCEPT ![p] = <<o>>]
    <2>2. row \in [Producers -> Seq(Outputs)] /\ row[p] = <<o>> /\ \A q \in Producers : q # p => row[q] = applied[e][q]
      BY <1>3, <2>1
    <2>3. applied' = [applied EXCEPT ![e] = row]
      BY <1>2, <1>3
    <2> HIDE DEF row
    <2> QED BY <1>3, <2>2, <2>3
  <1>5. new(o) \in States
    BY <1>3, WritesTyped
  <1>6. ValidPatch(patch(o)) => \A i \in DOMAIN Mappings[p] : new(o)[Mappings[p][i].key] = o.values[Mappings[p][i].from]
    <2>1. ValidPatch(patch(o)) => Resolves(o, Mappings[p])
      BY DEF ValidPatch, BuildStateWritesPatch
    <2> QED BY <1>3, <2>1, WritesTyped
  <1> QED BY <1>1, <1>2, <1>4, <1>5, <1>6

LEMMA ApplyOutputKeeps ==
  ASSUME ContextInv, NEW e \in Runs, NEW p \in Producers, ApplyOutput(e, p)
  PROVE  ContextInv'
PROOF
  <1>1. /\ UNCHANGED <<over, writer, cache, claims>> /\ applied' \in [Runs -> [Producers -> Seq(Outputs)]]
        /\ UNCHANGED <<state, version>> \/ \E new \in States : Store(e, new)
    BY ApplyDoes
  <1>2. StateMoves
    BY <1>1, StoreMoves, StillMoves DEF ContextInv
  <1>3. ContextTypeOK'
    BY <1>1, <1>2 DEF ContextInv, ContextTypeOK, StateMoves
  <1>4. \A v \in Writers : WriterOK(v)'
    BY <1>1, <1>2, WriterStays
  <1>5. EnvelopeIsOwnAndFresh'
    BY <1>1 DEF ContextInv, EnvelopeIsOwnAndFresh
  <1> QED BY <1>3, <1>4, <1>5 DEF ContextInv

\* The artifacts a projection resolves are its own run's, of applied results.
LEMMA ReferencesAreOwn ==
  ASSUME ContextInv, NEW e \in Runs, NEW proj \in Projections
  PROVE  /\ References(e, proj) \subseteq ArtifactRefs
         /\ \A a \in References(e, proj) : a.run = e /\ applied[e][a.step] # <<>>
PROOF
  <1> DEFINE S == [from : Producers, name : STRING]
  <1>1. proj.selectors \in Seq(S) /\ \A x \in S : x.from \in Producers
    BY ContextAssumption
  <1>2. \A i \in DOMAIN proj.selectors : proj.selectors[i].from \in Producers
    <2> HIDE DEF S
    <2>1. \A i \in DOMAIN proj.selectors : proj.selectors[i] \in S
      BY <1>1, ElementOfSeq, LenProperties
    <2> QED BY <1>1, <2>1
  <1>3. ASSUME NEW sel, sel.from \in Producers, NEW a \in Matched(e, sel)
        PROVE  a \in ArtifactRefs /\ a.run = e /\ a.step = sel.from /\ applied[e][sel.from] # <<>>
    <2> DEFINE o == applied[e][sel.from][1]
    <2>1. applied[e][sel.from] # <<>>
      BY <1>3 DEF Matched
    <2>2. o \in Outputs
      <3>1. applied[e][sel.from] \in Seq(Outputs)
        BY <1>3 DEF ContextInv, ContextTypeOK
      <3> QED BY <2>1, <3>1
    <2>3. o.names \in Seq(STRING)
      BY <2>2, ContextAssumption
    <2>4. PICK i \in DOMAIN o.names : a = [run |-> e, step |-> sel.from, ordinal |-> i]
      BY <1>3, <2>1 DEF Matched
    <2>5. i \in Nat
      <3> HIDE DEF o
      <3> QED BY <2>3, <2>4, LenProperties
    <2> QED BY <1>3, <2>1, <2>4, <2>5 DEF ArtifactRefs
  <1>4. ASSUME NEW a \in References(e, proj)
        PROVE  a \in ArtifactRefs /\ a.run = e /\ applied[e][a.step] # <<>>
    <2>1. PICK i \in DOMAIN proj.selectors : a \in Matched(e, proj.selectors[i])
      BY <1>4 DEF References
    <2> QED BY <1>2, <1>3, <2>1
  <1> QED BY <1>4

\* The fingerprint of a claim, and the envelope it stands for.
LEMMA HashTyped ==
  ASSUME ContextInv, NEW e \in Runs, NEW proj \in Projections
  PROVE  /\ BundleHash(e, proj) \in Hashes
         /\ Materialize(e, proj) = EnvelopeOf(BundleHash(e, proj))
         /\ EnvelopeOf(BundleHash(e, proj)) \in Envelopes
PROOF
  <1>1. state[e] \in States /\ version[e] \in Nat
    BY DEF ContextInv, ContextTypeOK
  <1>2. SelectProjectedValues(e, proj) \in States
    BY <1>1 DEF SelectProjectedValues, States
  <1>3. References(e, proj) \in SUBSET ArtifactRefs
    BY ReferencesAreOwn
  <1>4. BundleHash(e, proj) \in Hashes
    BY <1>1, <1>2, <1>3 DEF BundleHash, Hashes
  <1>5. Materialize(e, proj) = EnvelopeOf(BundleHash(e, proj))
    BY DEF Materialize, EnvelopeOf, BundleHash
  <1>6. Materialize(e, proj) \in Envelopes
    BY <1>1, <1>2, <1>3 DEF Materialize, Envelopes
  <1> QED BY <1>4, <1>5, <1>6

\* A hit returns what the fingerprint stands for, and a touch keeps the cache.
LEMMA HitIsRight ==
  ASSUME ContextInv, NEW h, CachedAt(h) # {}
  PROVE  LET i == CHOOSE i \in CachedAt(h) : TRUE IN
         /\ cache[i] \in Entries /\ cache[i].hash = h
         /\ cache[i].envelope = EnvelopeOf(h) /\ EnvelopeBytes(cache[i].envelope) <= MaxEnvelope
         /\ Touched(h) \in Seq(Entries)
PROOF
  <1> DEFINE i == CHOOSE i \in CachedAt(h) : TRUE
  <1>1. i \in CachedAt(h)
    OBVIOUS
  <1>2. i \in DOMAIN cache /\ cache[i].hash = h
    BY <1>1 DEF CachedAt
  <1>3. cache \in Seq(Entries)
    BY DEF ContextInv, ContextTypeOK
  <1>4. Touched(h) = Append(SubSeq(cache, 1, i - 1) \o SubSeq(cache, i + 1, Len(cache)), cache[i])
    BY DEF Touched, RemoveAt
  <1>5. \A x \in Entries : x.envelope = EnvelopeOf(x.hash) /\ EnvelopeBytes(x.envelope) <= MaxEnvelope
    BY DEF Entries
  <1> HIDE DEF i
  <1>6. i \in 1 .. Len(cache) /\ cache[i] \in Entries
    BY <1>2, <1>3, ElementOfSeq, LenProperties
  <1>7. SubSeq(cache, 1, i - 1) \in Seq(Entries) /\ SubSeq(cache, i + 1, Len(cache)) \in Seq(Entries)
    BY <1>3, <1>6
  <1>8. Touched(h) \in Seq(Entries)
    BY <1>4, <1>6, <1>7
  <1> QED BY <1>2, <1>5, <1>6, <1>8 DEF i

\* An insertion evicts the oldest entry of a full cache.
LEMMA InsertedTyped ==
  ASSUME cache \in Seq(Entries), NEW x \in Entries
  PROVE  Inserted(x.hash, x.envelope) \in Seq(Entries)
PROOF
  <1>1. x = [hash |-> x.hash, envelope |-> x.envelope]
    BY DEF Entries
  <1> DEFINE longer == Append(cache, x)
  <1>2. Inserted(x.hash, x.envelope) = IF Len(longer) > MaxCacheEntries THEN Tail(longer) ELSE longer
    BY <1>1 DEF Inserted
  <1>3. longer \in Seq(Entries) /\ longer # <<>>
    BY AppendProperties
  <1>4. Tail(longer) \in Seq(Entries)
    <2> HIDE DEF longer
    <2> QED BY <1>3, HeadTailProperties
  <1> QED BY <1>2, <1>3, <1>4

\* The claims of the runs, one of them longer by a claim.
LEMMA ClaimAdded ==
  ASSUME ContextInv, NEW e \in Runs, NEW c \in ClaimTypes, ClaimOK(e, c),
         claims' = [claims EXCEPT ![e] = Append(@, c)]
  PROVE  claims' \in [Runs -> Seq(ClaimTypes)] /\ EnvelopeIsOwnAndFresh'
PROOF
  <1>1. claims \in [Runs -> Seq(ClaimTypes)] /\ \A f \in Runs : \A i \in DOMAIN claims[f] : ClaimOK(f, claims[f][i])
    BY ClaimsAreOK DEF ContextInv, ContextTypeOK
  <1>2. claims' \in [Runs -> Seq(ClaimTypes)]
    BY <1>1
  <1>3. \A f \in Runs : \A i \in DOMAIN claims'[f] : ClaimOK(f, claims'[f][i])
    <2> SUFFICES ASSUME NEW f \in Runs, NEW i \in DOMAIN claims'[f] PROVE ClaimOK(f, claims'[f][i])
      OBVIOUS
    <2>1. CASE f # e
      <3>1. claims'[f] = claims[f]
        BY <1>1, <2>1
      <3> QED BY <1>1, <3>1
    <2>2. CASE f = e
      <3>1. claims'[e] = Append(claims[e], c) /\ claims[e] \in Seq(ClaimTypes)
        BY <1>1
      <3>2. (i \in DOMAIN claims[e] /\ claims'[e][i] = claims[e][i]) \/ claims'[e][i] = c
        BY <2>2, <3>1
      <3> QED BY <1>1, <2>2, <3>2
    <2> QED BY <2>1, <2>2
  <1>4. EnvelopeIsOwnAndFresh'
    BY <1>3 DEF EnvelopeIsOwnAndFresh, ClaimOK
  <1> QED BY <1>2, <1>4

LEMMA ClaimWithContextKeeps ==
  ASSUME ContextInv, NEW e \in Runs, ClaimWithContext(e)
  PROVE  ContextInv'
PROOF
  <1> DEFINE hash(proj) == BundleHash(e, proj)
             hit(proj) == CachedAt(hash(proj)) # {}
             env(proj) == IF hit(proj) THEN cache[CHOOSE i \in CachedAt(hash(proj)) : TRUE].envelope
                          ELSE Materialize(e, proj)
             ok(proj) == /\ Resolvable(e, proj) /\ Projectable(e, proj)
                         /\ hit(proj) \/ EnvelopeBytes(env(proj)) <= MaxEnvelope
             new(proj) == [ok |-> ok(proj), envelope |-> env(proj), reused |-> hit(proj),
                           stateBytes |-> SizeOf(state[e]), usage |-> "open", state |-> state[e],
                           version |-> version[e], applied |-> applied[e], proj |-> proj]
  <1>1. PICK proj \in Projections :
          /\ claims' = [claims EXCEPT ![e] = Append(@, new(proj))]
          /\ cache' = IF ~ok(proj) THEN cache ELSE IF hit(proj) THEN Touched(hash(proj)) ELSE Inserted(hash(proj), env(proj))
    BY DEF ClaimWithContext
  <1>2. UNCHANGED <<state, version, over, applied, writer>>
    BY DEF ClaimWithContext
  <1>3. /\ state[e] \in States /\ version[e] \in Nat /\ applied[e] \in [Producers -> Seq(Outputs)]
        /\ cache \in Seq(Entries)
    BY DEF ContextInv, ContextTypeOK
  <1>4. /\ hash(proj) \in Hashes /\ env(proj) = EnvelopeOf(hash(proj)) /\ env(proj) \in Envelopes
        /\ ok(proj) => EnvelopeBytes(env(proj)) <= MaxEnvelope
        /\ hit(proj) => Touched(hash(proj)) \in Seq(Entries)
    <2>1. /\ hash(proj) \in Hashes /\ Materialize(e, proj) = EnvelopeOf(hash(proj))
          /\ EnvelopeOf(hash(proj)) \in Envelopes
      BY HashTyped
    <2>2. CASE hit(proj)
      BY <2>1, <2>2, HitIsRight
    <2>3. CASE ~hit(proj)
      BY <2>1, <2>3
    <2> QED BY <2>2, <2>3
  <1>5. cache' \in Seq(Entries)
    <2>1. CASE ok(proj) /\ ~hit(proj)
      <3> DEFINE x == [hash |-> hash(proj), envelope |-> env(proj)]
      <3>1. x \in Entries /\ x.hash = hash(proj) /\ x.envelope = env(proj)
        <4> HIDE DEF hash, env, hit, ok
        <4>1. EnvelopeBytes(env(proj)) <= MaxEnvelope
          BY <1>4, <2>1
        <4> QED BY <1>4, <4>1 DEF Entries
      <3>2. cache' = Inserted(hash(proj), env(proj))
        BY <1>1, <2>1
      <3> HIDE DEF x, hash, env
      <3> QED BY <1>3, <3>1, <3>2, InsertedTyped
    <2>2. CASE ~ok(proj) \/ hit(proj)
      BY <1>1, <1>3, <1>4, <2>2
    <2> QED BY <2>1, <2>2
  <1>6. new(proj) \in ClaimTypes
    <2>1. ok(proj) \in BOOLEAN /\ hit(proj) \in BOOLEAN
      OBVIOUS
    <2> HIDE DEF hash, env, hit, ok
    <2> QED BY <1>3, <1>4, <2>1 DEF ClaimTypes
  <1>7. ClaimOK(e, new(proj))
    <2> SUFFICES ASSUME ok(proj)
                 PROVE /\ env(proj).version = version[e]
                       /\ \A k \in StateKeys : env(proj).values[k] = IF k \in proj.keys THEN state[e][k] ELSE Absent
                       /\ \A a \in env(proj).artifacts : a.run = e /\ applied[e][a.step] # <<>>
                       /\ proj.keys \subseteq Present(state[e])
                       /\ EnvelopeBytes(env(proj)) <= MaxEnvelope
      <3> HIDE DEF hash, env, hit, ok
      <3> QED BY DEF ClaimOK
    <2>1. /\ env(proj).version = version[e] /\ env(proj).values = SelectProjectedValues(e, proj)
          /\ env(proj).artifacts = References(e, proj)
      <3>1. env(proj) = EnvelopeOf(BundleHash(e, proj))
        BY <1>4
      <3> HIDE DEF hash, env, hit, ok
      <3> QED BY <3>1 DEF EnvelopeOf, BundleHash
    <2>2. proj.keys \subseteq Present(state[e])
      BY DEF Projectable
    <2>3. EnvelopeBytes(env(proj)) <= MaxEnvelope
      BY <1>4
    <2> HIDE DEF hash, env, hit, ok
    <2> QED BY <2>1, <2>2, <2>3, ReferencesAreOwn DEF SelectProjectedValues
  <1>8. claims' \in [Runs -> Seq(ClaimTypes)] /\ EnvelopeIsOwnAndFresh'
    <2> DEFINE c == new(proj)
    <2>1. c \in ClaimTypes /\ ClaimOK(e, c) /\ claims' = [claims EXCEPT ![e] = Append(@, c)]
      BY <1>1, <1>6, <1>7
    <2> HIDE DEF c
    <2> QED BY <2>1, ClaimAdded
  <1>9. ContextTypeOK'
    BY <1>2, <1>5, <1>8 DEF ContextInv, ContextTypeOK
  <1>10. \A v \in Writers : WriterOK(v)'
    BY <1>2, StillMoves, WriterStays DEF ContextInv
  <1> QED BY <1>8, <1>9, <1>10 DEF ContextInv

LEMMA CompleteEvidenceKeeps ==
  ASSUME ContextInv, NEW e \in Runs, CompleteEvidence(e)
  PROVE  ContextInv'
PROOF
  <1>1. PICK i \in DOMAIN claims[e], usage \in {"reported", "not_reported"} :
          claims' = [claims EXCEPT ![e][i].usage = usage]
    BY DEF CompleteEvidence
  <1>2. UNCHANGED <<state, version, over, applied, writer, cache>>
    BY DEF CompleteEvidence
  <1>3. claims \in [Runs -> Seq(ClaimTypes)] /\ \A f \in Runs : \A j \in DOMAIN claims[f] : ClaimOK(f, claims[f][j])
    BY ClaimsAreOK DEF ContextInv, ContextTypeOK
  <1> DEFINE c == [claims[e][i] EXCEPT !.usage = usage]
             row == [claims[e] EXCEPT ![i] = c]
  <1>4. claims[e] \in Seq(ClaimTypes) /\ i \in 1 .. Len(claims[e]) /\ claims[e][i] \in ClaimTypes
    BY <1>1, <1>3, ElementOfSeq, LenProperties
  <1>5. c \in ClaimTypes /\ ClaimOK(e, c)
    <2>1. c \in ClaimTypes
      BY <1>4 DEF ClaimTypes
    <2>2. /\ c.ok = claims[e][i].ok /\ c.envelope = claims[e][i].envelope /\ c.version = claims[e][i].version
          /\ c.proj = claims[e][i].proj /\ c.state = claims[e][i].state /\ c.applied = claims[e][i].applied
          /\ c.stateBytes = claims[e][i].stateBytes
      BY <1>4 DEF ClaimTypes
    <2>3. ClaimOK(e, claims[e][i])
      BY <1>3
    <2> HIDE DEF c
    <2> QED BY <2>1, <2>2, <2>3 DEF ClaimOK
  <1>6. row \in Seq(ClaimTypes) /\ DOMAIN row = DOMAIN claims[e] /\ row[i] = c
        /\ \A j \in DOMAIN claims[e] : j # i => row[j] = claims[e][j]
    <2> HIDE DEF c
    <2> QED BY <1>4, <1>5
  <1>7. claims' = [claims EXCEPT ![e] = row]
    BY <1>1, <1>3
  <1> HIDE DEF row, c
  <1>8. claims' \in [Runs -> Seq(ClaimTypes)] /\ claims'[e] = row /\ \A f \in Runs \ {e} : claims'[f] = claims[f]
    BY <1>3, <1>6, <1>7
  <1>9. \A f \in Runs : \A j \in DOMAIN claims'[f] : ClaimOK(f, claims'[f][j])
    BY <1>3, <1>5, <1>6, <1>8
  <1>10. EnvelopeIsOwnAndFresh'
    BY <1>9 DEF EnvelopeIsOwnAndFresh, ClaimOK
  <1>11. ContextTypeOK'
    BY <1>2, <1>8 DEF ContextInv, ContextTypeOK
  <1>12. \A v \in Writers : WriterOK(v)'
    BY <1>2, StillMoves, WriterStays DEF ContextInv
  <1> QED BY <1>10, <1>11, <1>12 DEF ContextInv

\* A step that changes neither states, writers nor claims.
LEMMA ContextRests ==
  ASSUME ContextInv, UNCHANGED <<state, version, applied, writer, claims>>,
         over' \in [Runs -> BOOLEAN], cache' \in Seq(Entries)
  PROVE  ContextInv'
PROOF
  <1>1. ContextTypeOK'
    BY DEF ContextInv, ContextTypeOK
  <1>2. \A v \in Writers : WriterOK(v)'
    BY StillMoves, WriterStays DEF ContextInv
  <1>3. EnvelopeIsOwnAndFresh'
    BY DEF ContextInv, EnvelopeIsOwnAndFresh
  <1> QED BY <1>1, <1>2, <1>3 DEF ContextInv

LEMMA ContextInitially == ContextInit => ContextInv
PROOF
  <1> SUFFICES ASSUME ContextInit PROVE ContextInv
    OBVIOUS
  <1>1. BlankState \in States
    BY DEF BlankState, States
  <1> DEFINE first == CHOOSE e \in Runs : TRUE
             new == [at |-> "new", run |-> first, version |-> 0, seen |-> BlankState,
                     patch |-> [set |-> BlankState, delete |-> <<>>, ok |-> TRUE]]
  <1>2. first \in Runs
    BY ContextAssumption
  <1>3. writer = [w \in Writers |-> new]
    BY DEF ContextInit
  <1> HIDE DEF first
  <1>4. new \in WriterTypes /\ new.at = "new"
    BY <1>1, <1>2 DEF WriterTypes, PatchTypes
  <1> HIDE DEF new
  <1>5. ContextTypeOK
    <2>1. writer \in [Writers -> WriterTypes]
      BY <1>3, <1>4
    <2>2. state \in [Runs -> States] /\ version \in [Runs -> Nat] /\ over \in [Runs -> BOOLEAN]
      BY <1>1 DEF ContextInit
    <2>3. applied \in [Runs -> [Producers -> Seq(Outputs)]] /\ cache \in Seq(Entries) /\ claims \in [Runs -> Seq(ClaimTypes)]
      BY DEF ContextInit
    <2> QED BY <2>1, <2>2, <2>3 DEF ContextTypeOK
  <1>6. \A w \in Writers : WriterOK(w)
    BY <1>3, <1>4 DEF WriterOK
  <1>7. EnvelopeIsOwnAndFresh
    <2>1. \A e \in Runs : claims[e] = <<>>
      BY DEF ContextInit
    <2> QED BY <2>1 DEF EnvelopeIsOwnAndFresh
  <1> QED BY <1>5, <1>6, <1>7 DEF ContextInv

LEMMA ContextStep == ContextInv /\ [ContextNext]_contextVars => ContextInv'
PROOF
  <1> SUFFICES ASSUME ContextInv, [ContextNext]_contextVars PROVE ContextInv'
    OBVIOUS
  <1>0. over \in [Runs -> BOOLEAN] /\ cache \in Seq(Entries)
    BY DEF ContextInv, ContextTypeOK
  <1>1. CASE UNCHANGED contextVars
    <2>1. UNCHANGED <<state, version, applied, writer, claims>> /\ UNCHANGED <<over, cache>>
      BY <1>1 DEF contextVars
    <2> QED BY <1>0, <2>1, ContextRests
  <1>2. ASSUME NEW e \in Runs, EndRunState(e) PROVE ContextInv'
    BY <1>0, <1>2, ContextRests DEF EndRunState
  <1>3. CASE RestartCache
    BY <1>0, <1>3, ContextRests DEF RestartCache
  <1> QED BY <1>1, <1>2, <1>3, ReadStateKeeps, MutateKeeps, ClaimWithContextKeeps, CompleteEvidenceKeeps,
             ApplyOutputKeeps DEF ContextNext

\* What an attempt is shown is what its own run held when it was claimed,
\* whichever run filled the cache and whatever was written meanwhile.
THEOREM ContextInvariance == ContextSpec => []ContextInv
  BY ContextInitially, ContextStep, PTL DEF ContextSpec

\* The states move only by Store, each by one version.
LEMMA StillCounted ==
  ASSUME ContextInv, UNCHANGED <<state, version>>
  PROVE  StateChangesAreCounted
PROOF
  <1>1. \A e \in Runs : version'[e] = version[e] + 0
    BY DEF ContextInv, ContextTypeOK
  <1> QED BY <1>1 DEF StateChangesAreCounted

LEMMA StoreCounted ==
  ASSUME ContextInv, NEW e \in Runs, NEW s \in States, Store(e, s), s # state[e], ~over[e], WithinBounds(s),
         \A p \in Producers : applied'[e][p] # applied[e][p] =>
           \A i \in DOMAIN Mappings[p] : s[Mappings[p][i].key] = applied'[e][p][1].values[Mappings[p][i].from]
  PROVE  StateChangesAreCounted
PROOF
  <1>1. /\ state'[e] = s /\ version'[e] = version[e] + 1
        /\ \A f \in Runs \ {e} : state'[f] = state[f] /\ version'[f] = version[f]
    BY StoreMoves DEF ContextInv
  <1>2. \A f \in Runs : version[f] + 0 = version[f]
    BY DEF ContextInv, ContextTypeOK
  <1>3. \A f \in Runs : version'[f] = version[f] + (IF state'[f] = state[f] THEN 0 ELSE 1)
    BY <1>1, <1>2
  <1> QED BY <1>1, <1>3 DEF StateChangesAreCounted

LEMMA MutateStands ==
  ASSUME ContextInv, NEW w \in Writers, Mutate(w)
  PROVE  NoLostUpdate /\ StateChangesAreCounted
PROOF
  <1> DEFINE e == writer[w].run
             new == ApplyStatePatch(state[e], writer'[w].patch)
  <1>1. /\ e \in Runs /\ writer[w].at = "read" /\ UNCHANGED applied
        /\ \A v \in Writers \ {w} : writer'[v] = writer[v]
        /\ \/ writer'[w].at # "applied" /\ UNCHANGED <<state, version>>
           \/ /\ writer'[w].at = "applied" /\ ~over[e] /\ version[e] = writer[w].version
              /\ Store(e, new) /\ new # state[e] /\ new \in States /\ WithinBounds(new)
    BY MutateDoes
  <1>2. StateChangesAreCounted
    <2> HIDE DEF new, e
    <2> QED BY <1>1, StillCounted, StoreCounted
  <1>3. writer'[w].at = "applied" => state'[e] = ApplyStatePatch(writer[w].seen, writer'[w].patch)
    <2> SUFFICES ASSUME writer'[w].at = "applied" PROVE state'[e] = ApplyStatePatch(writer[w].seen, writer'[w].patch)
      OBVIOUS
    <2>1. WriterOK(w)
      BY DEF ContextInv
    <2>2. writer[w].seen = state[e]
      BY <1>1, <2>1 DEF WriterOK
    <2>3. state'[e] = new
      <3> HIDE DEF new, e
      <3> QED BY <1>1, StoreMoves DEF ContextInv
    <2> QED BY <2>2, <2>3
  <1>4. NoLostUpdate
    <2> SUFFICES ASSUME NEW v \in Writers, writer'[v].at = "applied", writer[v].at = "read"
                 PROVE  state'[writer[v].run] = ApplyStatePatch(writer[v].seen, writer'[v].patch)
      BY DEF NoLostUpdate
    <2>1. v = w
      BY <1>1
    <2> QED BY <1>3, <2>1
  <1> QED BY <1>2, <1>4

LEMMA ApplyStands ==
  ASSUME ContextInv, NEW e \in Runs, NEW p \in Producers, ApplyOutput(e, p)
  PROVE  NoLostUpdate /\ StateChangesAreCounted
PROOF
  <1> DEFINE new(o) == ApplyStatePatch(state[e], BuildStateWritesPatch(o, Mappings[p]))
  <1>1. /\ ~over[e] /\ UNCHANGED writer
        /\ \A q \in Producers : q # p => applied'[e][q] = applied[e][q]
    BY ApplyDoes
  <1>2. PICK o \in Outputs :
          /\ applied'[e][p] = <<o>>
          /\ \/ UNCHANGED <<state, version>>
             \/ /\ Store(e, new(o)) /\ new(o) # state[e] /\ new(o) \in States /\ WithinBounds(new(o))
                /\ \A i \in DOMAIN Mappings[p] : new(o)[Mappings[p][i].key] = o.values[Mappings[p][i].from]
    BY ApplyDoes
  <1>3. NoLostUpdate
    BY <1>1 DEF NoLostUpdate
  <1>4. CASE UNCHANGED <<state, version>>
    BY <1>3, <1>4, StillCounted
  <1>5. CASE ~UNCHANGED <<state, version>>
    <2> DEFINE s == new(o)
    <2>1. /\ Store(e, s) /\ s # state[e] /\ s \in States /\ WithinBounds(s)
          /\ \A i \in DOMAIN Mappings[p] : s[Mappings[p][i].key] = o.values[Mappings[p][i].from]
      BY <1>2, <1>5
    <2> HIDE DEF s, new
    <2>2. applied'[e][p][1] = o
      BY <1>2
    <2>3. \A q \in Producers : applied'[e][q] # applied[e][q] =>
            \A i \in DOMAIN Mappings[q] : s[Mappings[q][i].key] = applied'[e][q][1].values[Mappings[q][i].from]
      BY <1>1, <2>1, <2>2
    <2> QED BY <1>1, <1>3, <2>1, <2>3, StoreCounted
  <1> QED BY <1>4, <1>5

LEMMA ContextStandsStep ==
  ContextInv /\ [ContextNext]_contextVars => NoLostUpdate /\ StateChangesAreCounted
PROOF
  <1> SUFFICES ASSUME ContextInv, [ContextNext]_contextVars PROVE NoLostUpdate /\ StateChangesAreCounted
    OBVIOUS
  <1>1. ASSUME UNCHANGED <<state, version, writer>> PROVE NoLostUpdate /\ StateChangesAreCounted
    BY <1>1, StillCounted DEF NoLostUpdate
  <1>2. ASSUME NEW w \in Writers, ReadState(w) PROVE NoLostUpdate /\ StateChangesAreCounted
    <2>1. UNCHANGED <<state, version>>
      BY <1>2 DEF ReadState
    <2>2. writer[w].at = "new" /\ \A v \in Writers \ {w} : writer'[v] = writer[v]
      BY <1>2 DEF ReadState, ContextInv, ContextTypeOK
    <2>3. NoLostUpdate
      BY <2>2 DEF NoLostUpdate
    <2> QED BY <2>1, <2>3, StillCounted
  <1>3. ASSUME NEW e \in Runs, ClaimWithContext(e) \/ CompleteEvidence(e) \/ EndRunState(e)
        PROVE  UNCHANGED <<state, version, writer>>
    BY <1>3 DEF ClaimWithContext, CompleteEvidence, EndRunState
  <1>4. CASE UNCHANGED contextVars
    BY <1>1, <1>4 DEF contextVars
  <1>5. CASE RestartCache
    BY <1>1, <1>5 DEF RestartCache
  <1> QED BY <1>1, <1>2, <1>3, <1>4, <1>5, MutateStands, ApplyStands DEF ContextNext

\* An applied mutation patched exactly the state its caller read; versions
\* count changes, an ended run's state never changes, and the controlled
\* writes of a result land together or not at all.
THEOREM StateHistoryStands ==
  ContextSpec => [][NoLostUpdate /\ StateChangesAreCounted]_contextVars
  BY ContextInvariance, ContextStandsStep, PTL DEF ContextSpec

-----------------------------------------------------------------------------
(***************************************************************************)
(* Flattening a sequence of sequences.  FlattenSeq is a recursive          *)
(* function; what it computes is shown by the least position at which it   *)
(* would be wrong.                                                         *)
(***************************************************************************)

FlatAt(seqs, g, i) == IF i = 1 THEN seqs[i] ELSE g[i - 1] \o seqs[i]

LEMMA FlattenExists ==
  ASSUME NEW seqs, NEW n \in Nat
  PROVE  \E g : g = [i \in 1 .. n |-> FlatAt(seqs, g, i)]
PROOF
  <1> DEFINE Bad == {k \in Nat : ~ \E g : g = [i \in 1 .. k |-> FlatAt(seqs, g, i)]}
  <1> SUFFICES ASSUME Bad # {} PROVE FALSE
    OBVIOUS
  <1>1. PICK m \in Bad : \A y \in Bad : m <= y
    BY LeastNatural
  <1>2. m # 0
    <2> DEFINE g == [i \in 1 .. 0 |-> <<>>]
    <2>1. g = [i \in 1 .. 0 |-> FlatAt(seqs, g, i)]
      OBVIOUS
    <2> QED BY <2>1
  <1>3. m - 1 \in Nat /\ m - 1 \notin Bad
    BY <1>1, <1>2
  <1>4. PICK g : g = [i \in 1 .. m - 1 |-> FlatAt(seqs, g, i)]
    BY <1>3
  <1> DEFINE h == [i \in 1 .. m |-> IF i < m THEN g[i] ELSE FlatAt(seqs, g, m)]
  <1>5. \A i \in 1 .. m : h[i] = FlatAt(seqs, h, i)
    <2> SUFFICES ASSUME NEW i \in 1 .. m PROVE h[i] = FlatAt(seqs, h, i)
      OBVIOUS
    <2>1. i # 1 => h[i - 1] = g[i - 1]
      OBVIOUS
    <2>2. FlatAt(seqs, h, i) = FlatAt(seqs, g, i)
      BY <2>1 DEF FlatAt
    <2>3. i < m => g[i] = FlatAt(seqs, g, i)
      BY <1>3, <1>4
    <2> QED BY <2>2, <2>3
  <1>6. h = [i \in 1 .. m |-> FlatAt(seqs, h, i)]
    BY <1>5
  <1> QED BY <1>1, <1>6

\* The prefixes FlattenSeq goes through.
LEMMA FlattenIsIts ==
  ASSUME NEW S, NEW seqs \in Seq(Seq(S)), Len(seqs) # 0
  PROVE  \E g : /\ DOMAIN g = 1 .. Len(seqs) /\ FlattenSeq(seqs) = g[Len(seqs)]
                /\ \A i \in 1 .. Len(seqs) : g[i] = FlatAt(seqs, g, i)
PROOF
  <1> DEFINE n == Len(seqs)
             flatten[i \in 1 .. n] == IF i = 1 THEN seqs[i] ELSE flatten[i - 1] \o seqs[i]
  <1>1. n \in Nat
    BY LenProperties
  <1>2. FlattenSeq(seqs) = flatten[n]
    BY DEF FlattenSeq
  <1>3. \E g : g = [i \in 1 .. n |-> IF i = 1 THEN seqs[i] ELSE g[i - 1] \o seqs[i]]
    BY <1>1, FlattenExists DEF FlatAt
  <1>4. flatten = [i \in 1 .. n |-> IF i = 1 THEN seqs[i] ELSE flatten[i - 1] \o seqs[i]]
    BY <1>3
  <1> HIDE DEF flatten, n
  <1>5. DOMAIN flatten = 1 .. n /\ \A i \in 1 .. n : flatten[i] = FlatAt(seqs, flatten, i)
    BY <1>4 DEF FlatAt
  <1> QED BY <1>2, <1>5 DEF n

\* The members of a concatenation.
LEMMA ConcatMembers ==
  ASSUME NEW S, NEW s \in Seq(S), NEW t \in Seq(S)
  PROVE  s \o t \in Seq(S) /\ ToSet(s \o t) = ToSet(s) \cup ToSet(t) /\ Len(s \o t) = Len(s) + Len(t)
PROOF
  <1>1. /\ s \o t \in Seq(S) /\ Len(s \o t) = Len(s) + Len(t)
        /\ \A i \in 1 .. Len(s) + Len(t) : (s \o t)[i] = IF i <= Len(s) THEN s[i] ELSE t[i - Len(s)]
    BY ConcatProperties
  <1>2. DOMAIN s = 1 .. Len(s) /\ DOMAIN t = 1 .. Len(t) /\ Len(s) \in Nat /\ Len(t) \in Nat
    BY LenProperties
  <1>3. DOMAIN (s \o t) = 1 .. Len(s) + Len(t)
    BY <1>1, LenProperties
  <1> DEFINE u == s \o t
  <1>4. \A x \in ToSet(u) : x \in ToSet(s) \cup ToSet(t)
    <2> SUFFICES ASSUME NEW i \in DOMAIN u PROVE u[i] \in ToSet(s) \cup ToSet(t)
      BY DEF ToSet
    <2>1. CASE i <= Len(s)
      BY <1>1, <1>2, <1>3, <2>1 DEF ToSet
    <2>2. CASE ~(i <= Len(s))
      <3>1. i - Len(s) \in DOMAIN t /\ u[i] = t[i - Len(s)]
        BY <1>1, <1>2, <1>3, <2>2
      <3> QED BY <3>1 DEF ToSet
    <2> QED BY <2>1, <2>2
  <1>5. \A x \in ToSet(s) : x \in ToSet(u)
    <2> SUFFICES ASSUME NEW i \in DOMAIN s PROVE s[i] \in ToSet(u)
      BY DEF ToSet
    <2>1. i \in DOMAIN u /\ u[i] = s[i]
      BY <1>1, <1>2, <1>3
    <2> QED BY <2>1 DEF ToSet
  <1>6. \A x \in ToSet(t) : x \in ToSet(u)
    <2> SUFFICES ASSUME NEW i \in DOMAIN t PROVE t[i] \in ToSet(u)
      BY DEF ToSet
    <2>1. i + Len(s) \in DOMAIN u /\ u[i + Len(s)] = t[i]
      BY <1>1, <1>2, <1>3
    <2> QED BY <2>1 DEF ToSet
  <1> QED BY <1>1, <1>4, <1>5, <1>6

\* What is flattened is what its parts hold.
MembersOf(seqs, k) == UNION {ToSet(seqs[i]) : i \in 1 .. k}

LEMMA FlattenMembers ==
  ASSUME NEW S, NEW seqs \in Seq(Seq(S))
  PROVE  FlattenSeq(seqs) \in Seq(S) /\ ToSet(FlattenSeq(seqs)) = MembersOf(seqs, Len(seqs))
PROOF
  <1>0. Len(seqs) \in Nat /\ DOMAIN seqs = 1 .. Len(seqs) /\ \A i \in 1 .. Len(seqs) : seqs[i] \in Seq(S)
    BY LenProperties, ElementOfSeq
  <1>1. CASE Len(seqs) = 0
    <2>1. seqs = <<>>
      BY <1>1, EmptySeq
    <2>2. FlattenSeq(seqs) = seqs
      BY <1>1 DEF FlattenSeq
    <2>3. ToSet(seqs) = {} /\ MembersOf(seqs, Len(seqs)) = {}
      BY <1>0, <1>1 DEF ToSet, MembersOf
    <2>4. FlattenSeq(seqs) \in Seq(S)
      BY <2>1, <2>2, EmptySeq
    <2>5. ToSet(FlattenSeq(seqs)) = MembersOf(seqs, Len(seqs))
      BY <2>2, <2>3
    <2> QED BY <2>4, <2>5
  <1>2. CASE Len(seqs) # 0
    <2>1. PICK g : /\ FlattenSeq(seqs) = g[Len(seqs)]
                   /\ \A i \in 1 .. Len(seqs) : g[i] = FlatAt(seqs, g, i)
      BY <1>2, FlattenIsIts
    <2> DEFINE Right(k) == g[k] \in Seq(S) /\ ToSet(g[k]) = MembersOf(seqs, k)
               Bad == {k \in 1 .. Len(seqs) : ~Right(k)}
    <2>2. Bad = {}
      <3> SUFFICES ASSUME Bad # {} PROVE FALSE
        OBVIOUS
      <3>0. Bad \subseteq Nat
        BY <1>0
      <3>1. PICK m \in Bad : \A y \in Bad : m <= y
        <4> HIDE DEF Bad
        <4> QED BY <3>0, LeastNatural
      <3>2. m \in 1 .. Len(seqs) /\ ~Right(m) /\ \A y \in 1 .. Len(seqs) : ~Right(y) => m <= y
        BY <3>1
      <3> HIDE DEF Right, Bad
      <3>3. g[m] = FlatAt(seqs, g, m) /\ seqs[m] \in Seq(S)
        BY <1>0, <2>1, <3>2
      <3>4. CASE m = 1
        <4>1. g[m] = seqs[m]
          BY <3>3, <3>4 DEF FlatAt
        <4>2. MembersOf(seqs, 1) = ToSet(seqs[1])
          BY DEF MembersOf
        <4>3. Right(m)
          BY <3>3, <3>4, <4>1, <4>2 DEF Right
        <4> QED BY <3>2, <4>3
      <3>5. CASE m # 1
        <4>1. m - 1 \in 1 .. Len(seqs) /\ ~(m <= m - 1)
          BY <1>0, <3>2, <3>5
        <4>2. Right(m - 1)
          BY <3>2, <4>1
        <4>3. g[m] = g[m - 1] \o seqs[m]
          BY <3>3, <3>5 DEF FlatAt
        <4>4. g[m] \in Seq(S) /\ ToSet(g[m]) = ToSet(g[m - 1]) \cup ToSet(seqs[m])
          BY <3>3, <4>2, <4>3, ConcatMembers DEF Right
        <4>5. 1 .. m = (1 .. m - 1) \cup {m}
          BY <1>0, <3>2
        <4>6. MembersOf(seqs, m) = MembersOf(seqs, m - 1) \cup ToSet(seqs[m])
          BY <4>5 DEF MembersOf
        <4>7. Right(m)
          BY <4>2, <4>4, <4>6 DEF Right
        <4> QED BY <3>2, <4>7
      <3> QED BY <3>4, <3>5
    <2>3. Len(seqs) \in 1 .. Len(seqs)
      BY <1>0, <1>2
    <2>4. Right(Len(seqs))
      BY <2>2, <2>3
    <2> QED BY <2>1, <2>4
  <1> QED BY <1>1, <1>2

\* How long what is flattened gets.
LEMMA FlattenLength ==
  ASSUME NEW S, NEW seqs \in Seq(Seq(S)), \A i \in DOMAIN seqs : Len(seqs[i]) <= 2
  PROVE  Len(FlattenSeq(seqs)) <= 2 * Len(seqs)
PROOF
  <1>0. Len(seqs) \in Nat /\ DOMAIN seqs = 1 .. Len(seqs) /\ \A i \in 1 .. Len(seqs) : seqs[i] \in Seq(S)
    BY LenProperties, ElementOfSeq
  <1>1. CASE Len(seqs) = 0
    <2>1. FlattenSeq(seqs) = seqs
      BY <1>1 DEF FlattenSeq
    <2> QED BY <1>1, <2>1
  <1>2. CASE Len(seqs) # 0
    <2>1. PICK g : /\ FlattenSeq(seqs) = g[Len(seqs)]
                   /\ \A i \in 1 .. Len(seqs) : g[i] = FlatAt(seqs, g, i)
      BY <1>2, FlattenIsIts
    <2> DEFINE Right(k) == g[k] \in Seq(S) /\ Len(g[k]) <= 2 * k
               Bad == {k \in 1 .. Len(seqs) : ~Right(k)}
    <2>2. Bad = {}
      <3> SUFFICES ASSUME Bad # {} PROVE FALSE
        OBVIOUS
      <3>0. Bad \subseteq Nat
        BY <1>0
      <3>1. PICK m \in Bad : \A y \in Bad : m <= y
        <4> HIDE DEF Bad
        <4> QED BY <3>0, LeastNatural
      <3>2. m \in 1 .. Len(seqs) /\ ~Right(m) /\ \A y \in 1 .. Len(seqs) : ~Right(y) => m <= y
        BY <3>1
      <3> HIDE DEF Right, Bad
      <3>3. g[m] = FlatAt(seqs, g, m) /\ seqs[m] \in Seq(S) /\ Len(seqs[m]) <= 2 /\ Len(seqs[m]) \in Nat
        BY <1>0, <2>1, <3>2, LenProperties
      <3>4. CASE m = 1
        <4>1. g[m] = seqs[m]
          BY <3>3, <3>4 DEF FlatAt
        <4>2. Right(m)
          BY <3>3, <3>4, <4>1 DEF Right
        <4> QED BY <3>2, <4>2
      <3>5. CASE m # 1
        <4>1. m - 1 \in 1 .. Len(seqs) /\ ~(m <= m - 1)
          BY <1>0, <3>2, <3>5
        <4>2. g[m - 1] \in Seq(S) /\ Len(g[m - 1]) <= 2 * (m - 1)
          BY <3>2, <4>1 DEF Right
        <4>3. g[m] = g[m - 1] \o seqs[m]
          BY <3>3, <3>5 DEF FlatAt
        <4>4. g[m] \in Seq(S) /\ Len(g[m]) = Len(g[m - 1]) + Len(seqs[m]) /\ Len(g[m - 1]) \in Nat
          BY <3>3, <4>2, <4>3, ConcatProperties, LenProperties
        <4>5. Len(g[m]) <= 2 * m
          BY <1>0, <3>2, <3>3, <4>2, <4>4
        <4>6. Right(m)
          BY <4>4, <4>5 DEF Right
        <4> QED BY <3>2, <4>6
      <3> QED BY <3>4, <3>5
    <2>3. Len(seqs) \in 1 .. Len(seqs)
      BY <1>0, <1>2
    <2>4. Right(Len(seqs))
      BY <2>2, <2>3
    <2> QED BY <2>1, <2>4
  <1> QED BY <1>1, <1>2

\* Parts that are a member or nothing: as many members as such parts.
LEMMA FlattenCounts ==
  ASSUME NEW S, NEW seqs \in Seq(Seq(S)), \A i \in DOMAIN seqs : Len(seqs[i]) \in 0 .. 1
  PROVE  Len(FlattenSeq(seqs)) = Cardinality({i \in DOMAIN seqs : Len(seqs[i]) = 1})
PROOF
  <1>0. Len(seqs) \in Nat /\ DOMAIN seqs = 1 .. Len(seqs) /\ \A i \in 1 .. Len(seqs) : seqs[i] \in Seq(S)
    BY LenProperties, ElementOfSeq
  <1> DEFINE Full(k) == {i \in 1 .. k : Len(seqs[i]) = 1}
  <1>1. CASE Len(seqs) = 0
    <2>1. FlattenSeq(seqs) = seqs
      BY <1>1 DEF FlattenSeq
    <2>2. {i \in DOMAIN seqs : Len(seqs[i]) = 1} = {}
      BY <1>0, <1>1
    <2> QED BY <1>1, <2>1, <2>2, FS_EmptySet
  <1>2. CASE Len(seqs) # 0
    <2>1. PICK g : /\ FlattenSeq(seqs) = g[Len(seqs)]
                   /\ \A i \in 1 .. Len(seqs) : g[i] = FlatAt(seqs, g, i)
      BY <1>2, FlattenIsIts
    <2> DEFINE Right(k) == g[k] \in Seq(S) /\ IsFiniteSet(Full(k)) /\ Len(g[k]) = Cardinality(Full(k))
               Bad == {k \in 1 .. Len(seqs) : ~Right(k)}
    <2>2. Bad = {}
      <3> SUFFICES ASSUME Bad # {} PROVE FALSE
        OBVIOUS
      <3>0. Bad \subseteq Nat
        BY <1>0
      <3>1. PICK m \in Bad : \A y \in Bad : m <= y
        <4> HIDE DEF Bad
        <4> QED BY <3>0, LeastNatural
      <3>2. m \in 1 .. Len(seqs) /\ ~Right(m) /\ \A y \in 1 .. Len(seqs) : ~Right(y) => m <= y
        BY <3>1
      <3> HIDE DEF Right, Bad
      <3>3. g[m] = FlatAt(seqs, g, m) /\ seqs[m] \in Seq(S) /\ Len(seqs[m]) \in 0 .. 1
        BY <1>0, <2>1, <3>2
      <3>4. \A F : IsFiniteSet(F) => /\ m \notin F => Cardinality(F \cup {m}) = Cardinality(F) + 1
                                     /\ IsFiniteSet(F \cup {m}) /\ Cardinality(F) \in Nat
        BY FS_AddElement, FS_CardinalityType
      <3>5. CASE m = 1
        <4>1. g[m] = seqs[m]
          BY <3>3, <3>5 DEF FlatAt
        <4>2. Full(m) = IF Len(seqs[m]) = 1 THEN {m} ELSE {}
          BY <3>5
        <4> HIDE DEF Full
        <4>3. IsFiniteSet(Full(m)) /\ Len(seqs[m]) = Cardinality(Full(m))
          <5>1. CASE Len(seqs[m]) = 1
            <6>1. Full(m) = {m}
              BY <4>2, <5>1
            <6> QED BY <5>1, <6>1, FS_Singleton
          <5>2. CASE Len(seqs[m]) = 0
            <6>1. Full(m) = {}
              BY <4>2, <5>2
            <6> QED BY <5>2, <6>1, FS_EmptySet
          <5> QED BY <3>3, <5>1, <5>2
        <4>4. Right(m)
          BY <3>3, <4>1, <4>3 DEF Right
        <4> QED BY <3>2, <4>4
      <3>6. CASE m # 1
        <4>1. m - 1 \in 1 .. Len(seqs) /\ ~(m <= m - 1)
          BY <1>0, <3>2, <3>6
        <4>2. Right(m - 1)
          BY <3>2, <4>1
        <4>3. g[m] = g[m - 1] \o seqs[m]
          BY <3>3, <3>6 DEF FlatAt
        <4>4. g[m] \in Seq(S) /\ Len(g[m]) = Len(g[m - 1]) + Len(seqs[m])
          BY <3>3, <4>2, <4>3, ConcatProperties DEF Right
        <4>5. Full(m) = (IF Len(seqs[m]) = 1 THEN Full(m - 1) \cup {m} ELSE Full(m - 1)) /\ m \notin Full(m - 1)
          <5>1. 1 .. m = (1 .. m - 1) \cup {m} /\ m \notin 1 .. m - 1
            BY <1>0, <3>2
          <5> QED BY <5>1
        <4> HIDE DEF Full
        <4>6. IsFiniteSet(Full(m)) /\ Cardinality(Full(m)) = Cardinality(Full(m - 1)) + Len(seqs[m])
          <5>1. IsFiniteSet(Full(m - 1))
            BY <4>2 DEF Right
          <5>2. Cardinality(Full(m - 1)) \in Nat
            BY <3>4, <5>1
          <5>3. CASE Len(seqs[m]) = 1
            <6>1. Full(m) = Full(m - 1) \cup {m} /\ m \notin Full(m - 1)
              BY <4>5, <5>3
            <6> QED BY <3>4, <5>1, <5>3, <6>1
          <5>4. CASE Len(seqs[m]) = 0
            <6>1. Full(m) = Full(m - 1)
              BY <4>5, <5>4
            <6> QED BY <5>1, <5>2, <5>4, <6>1
          <5> QED BY <3>3, <5>3, <5>4
        <4>7. Right(m)
          BY <4>2, <4>4, <4>6 DEF Right
        <4> QED BY <3>2, <4>7
      <3> QED BY <3>5, <3>6
    <2>3. Len(seqs) \in 1 .. Len(seqs)
      BY <1>0, <1>2
    <2>4. Right(Len(seqs))
      BY <2>2, <2>3
    <2> QED BY <1>0, <2>1, <2>4
  <1> QED BY <1>1, <1>2

-----------------------------------------------------------------------------
(***************************************************************************)
(* The aggregation a Verifier is given (TaskBatch)                         *)
(***************************************************************************)

Workers == ToSet(Manifest)
ResultTypes == [status : {"FAILED"} \cup STRING, fields : Seq(Nat), refs : Nat]

\* What an aggregate says of the fields of one entry, given the attempts.
EntryOK(c, e) ==
  \A i \in DOMAIN e.fields :
    LET named == <<e.worker, i>> \in ToSet(c.omitted)
        own == \E n \in DOMAIN ended[e.worker] :
                 i \in DOMAIN ended[e.worker][n].fields /\ ended[e.worker][n].fields[i] <= MaxFieldBytes
    IN /\ named => e.fields[i] = MarkBytes
       /\ ~named => own \/ Len(c.omitted) = MaxOmitted

VerifierInv ==
  /\ ended \in [Workers -> Seq(ResultTypes)]
  /\ \A k \in DOMAIN context.workers : context.workers[k].worker \in Workers
  /\ FieldOmissionsAreRecorded

LEMMA EntriesAreOK ==
  FieldOmissionsAreRecorded <=> (verified = "claimed" => \A k \in DOMAIN context.workers : EntryOK(context, context.workers[k]))
  BY DEF FieldOmissionsAreRecorded, EntryOK

\* The result an entry is made of.
LEMMA ResultTyped ==
  ASSUME ended \in [Workers -> Seq(ResultTypes)], NEW w \in Workers
  PROVE  /\ ResultOf(w) \in ResultTypes
         /\ ended[w] # <<>> => \E n \in DOMAIN ended[w] : ended[w][n] = ResultOf(w)
PROOF
  <1>1. ended[w] \in Seq(ResultTypes)
    OBVIOUS
  <1>2. NoResult \in ResultTypes
    <2>1. <<>> \in Seq(Nat) /\ 0 \in Nat
      OBVIOUS
    <2> QED BY <2>1 DEF NoResult, ResultTypes
  <1>3. ASSUME ended[w] # <<>>
        PROVE  Len(ended[w]) \in DOMAIN ended[w] /\ ended[w][Len(ended[w])] \in ResultTypes
    <2>1. Len(ended[w]) \in Nat \ {0} /\ DOMAIN ended[w] = 1 .. Len(ended[w])
      BY <1>1, <1>3, EmptySeq, LenProperties
    <2> QED BY <1>1, <2>1, ElementOfSeq
  <1> QED BY <1>2, <1>3 DEF ResultOf, Last

\* The omissions of a worker: one for every oversized field.
LEMMA OmissionsTyped ==
  ASSUME ended \in [Workers -> Seq(ResultTypes)], NEW w \in Workers
  PROVE  /\ OmissionsOf(w) \in Seq(Workers \X Nat)
         /\ \A o : o \in ToSet(OmissionsOf(w)) <=>
              \E i \in DOMAIN ResultOf(w).fields : o = <<w, i>> /\ Oversized(ResultOf(w).fields[i])
PROOF
  <1> DEFINE f == ResultOf(w).fields
             part(i) == IF Oversized(f[i]) THEN <<<<w, i>>>> ELSE <<>>
             seqs == [i \in DOMAIN f |-> part(i)]
             P == Workers \X Nat
  <1>1. f \in Seq(Nat)
    BY ResultTyped DEF ResultTypes
  <1>2. DOMAIN f = 1 .. Len(f) /\ Len(f) \in Nat
    BY <1>1, LenProperties
  <1>3. OmissionsOf(w) = FlattenSeq(seqs)
    BY DEF OmissionsOf
  <1> HIDE DEF f
  <1>4. \A i \in DOMAIN f : part(i) \in Seq(P)
    <2> SUFFICES ASSUME NEW i \in DOMAIN f PROVE part(i) \in Seq(P)
      OBVIOUS
    <2>1. <<w, i>> \in P
      BY <1>2
    <2> HIDE DEF P
    <2> QED BY <2>1
  <1>5. \A i \in DOMAIN f : \A o : o \in ToSet(part(i)) <=> o = <<w, i>> /\ Oversized(f[i])
    <2> SUFFICES ASSUME NEW i \in DOMAIN f PROVE \A o : o \in ToSet(part(i)) <=> o = <<w, i>> /\ Oversized(f[i])
      OBVIOUS
    <2> DEFINE x == <<w, i>>
    <2>1. ToSet(<<x>>) = {x} /\ ToSet(<<>>) = {}
      <3> HIDE DEF x
      <3> QED BY DEF ToSet
    <2> HIDE DEF x
    <2>2. part(i) = IF Oversized(f[i]) THEN <<x>> ELSE <<>>
      BY DEF x
    <2>3. \A o : o \in ToSet(part(i)) <=> o = x /\ Oversized(f[i])
      <3> HIDE DEF part
      <3>1. CASE Oversized(f[i])
        BY <2>1, <2>2, <3>1
      <3>2. CASE ~Oversized(f[i])
        BY <2>1, <2>2, <3>2
      <3> QED BY <3>1, <3>2
    <2> QED BY <2>3 DEF x
  <1> HIDE DEF part, P
  <1>6. seqs \in Seq(Seq(P)) /\ Len(seqs) = Len(f)
    <2>1. seqs \in [1 .. Len(f) -> Seq(P)]
      BY <1>2, <1>4
    <2> HIDE DEF seqs
    <2> QED BY <1>2, <2>1, SeqDef, LenProperties
  <1>7. FlattenSeq(seqs) \in Seq(P) /\ ToSet(FlattenSeq(seqs)) = MembersOf(seqs, Len(f))
    <2> HIDE DEF seqs
    <2> QED BY <1>6, FlattenMembers
  <1>8. \A o : o \in MembersOf(seqs, Len(f)) <=> \E i \in DOMAIN f : o \in ToSet(part(i))
    BY <1>2 DEF MembersOf
  <1> QED BY <1>3, <1>5, <1>7, <1>8 DEF f, P

\* All the omissions, before the list is cut.
AllOmissions == FlattenSeq([i \in DOMAIN Manifest |-> OmissionsOf(Manifest[i])])

LEMMA AllOmissionsTyped ==
  ASSUME ended \in [Workers -> Seq(ResultTypes)]
  PROVE  /\ AllOmissions \in Seq(Workers \X Nat)
         /\ \A o : o \in ToSet(AllOmissions) <=> \E w \in Workers : o \in ToSet(OmissionsOf(w))
PROOF
  <1> DEFINE P == Workers \X Nat
             seqs == [i \in DOMAIN Manifest |-> OmissionsOf(Manifest[i])]
  <1>1. Len(Manifest) \in Nat /\ DOMAIN Manifest = 1 .. Len(Manifest) /\ \A i \in DOMAIN Manifest : Manifest[i] \in Workers
    BY ContextBoundsAssumption, LenProperties DEF Workers, ToSet
  <1>2. \A w \in Workers : OmissionsOf(w) \in Seq(P)
    BY OmissionsTyped
  <1> HIDE DEF P
  <1>3. seqs \in [1 .. Len(Manifest) -> Seq(P)]
    BY <1>1, <1>2
  <1>4. seqs \in Seq(Seq(P)) /\ Len(seqs) = Len(Manifest)
    <2> HIDE DEF seqs
    <2> QED BY <1>1, <1>3, SeqDef, LenProperties
  <1>5. FlattenSeq(seqs) \in Seq(P) /\ ToSet(FlattenSeq(seqs)) = MembersOf(seqs, Len(Manifest))
    <2> HIDE DEF seqs
    <2> QED BY <1>4, FlattenMembers
  <1>6. \A o : o \in MembersOf(seqs, Len(Manifest)) <=> \E i \in DOMAIN Manifest : o \in ToSet(OmissionsOf(Manifest[i]))
    BY <1>1 DEF MembersOf
  <1>7. Workers = {Manifest[i] : i \in DOMAIN Manifest}
    BY DEF Workers, ToSet
  <1>8. \A o : (\E i \in DOMAIN Manifest : o \in ToSet(OmissionsOf(Manifest[i]))) <=> \E w \in Workers : o \in ToSet(OmissionsOf(w))
    BY <1>7
  <1> QED BY <1>5, <1>6, <1>8 DEF AllOmissions, P

\* The omissions that are kept.
LEMMA FirstOfKeeps ==
  ASSUME NEW S, NEW s \in Seq(S), NEW n \in Nat
  PROVE  /\ FirstOf(s, n) \in Seq(S) /\ ToSet(FirstOf(s, n)) \subseteq ToSet(s)
         /\ FirstOf(s, n) = s \/ Len(FirstOf(s, n)) = n
PROOF
  <1>1. Len(s) \in Nat /\ DOMAIN s = 1 .. Len(s) /\ \A i \in 1 .. Len(s) : s[i] \in S
    BY LenProperties, ElementOfSeq
  <1>2. CASE Len(s) < n
    <2>1. FirstOf(s, n) = SubSeq(s, 1, Len(s))
      BY <1>2 DEF FirstOf
    <2>2. FirstOf(s, n) = s
      BY <1>1, <2>1
    <2> QED BY <2>2
  <1>3. CASE ~(Len(s) < n)
    <2>1. FirstOf(s, n) = SubSeq(s, 1, n) /\ n <= Len(s)
      BY <1>1, <1>3 DEF FirstOf
    <2>2. \A i \in 1 .. n : s[i] \in S
      BY <1>1, <2>1
    <2>3. /\ FirstOf(s, n) \in Seq(S) /\ Len(FirstOf(s, n)) = n
          /\ \A i \in 1 .. n : FirstOf(s, n)[i] = s[i]
      BY <1>1, <2>1, <2>2, SubSeqProperties
    <2>4. DOMAIN FirstOf(s, n) = 1 .. n
      BY <2>3, LenProperties
    <2>5. ToSet(FirstOf(s, n)) \subseteq ToSet(s)
      BY <1>1, <2>1, <2>3, <2>4 DEF ToSet
    <2> QED BY <2>3, <2>5
  <1> QED BY <1>2, <1>3

\* The aggregate made of the attempts as they are.
LEMMA AggregateIsOK ==
  ASSUME ended \in [Workers -> Seq(ResultTypes)], \A w \in Workers : ended[w] # <<>>, NEW w \in Workers
  PROVE  EntryOK(BuildVerifierContext, WorkerEntry(w))
PROOF
  <1> DEFINE f == ResultOf(w).fields
             e == WorkerEntry(w)
             cut == FirstOf(AllOmissions, MaxOmitted)
  <1>1. ResultOf(w) \in ResultTypes /\ f \in Seq(Nat)
    BY ResultTyped DEF ResultTypes
  <1>2. DOMAIN f = 1 .. Len(f) /\ \A i \in DOMAIN f : f[i] \in Nat
    BY <1>1, LenProperties, ElementOfSeq
  <1>3. /\ e.worker = w /\ DOMAIN e.fields = DOMAIN f
        /\ \A i \in DOMAIN f : e.fields[i] = IF Oversized(f[i]) THEN MarkBytes ELSE f[i]
    BY DEF WorkerEntry
  <1>4. BuildVerifierContext.omitted = cut
    BY DEF BuildVerifierContext, AllOmissions
  <1>5. PICK n \in DOMAIN ended[w] : ended[w][n] = ResultOf(w)
    BY ResultTyped
  <1>6. MaxOmitted \in Nat /\ MaxFieldBytes \in Nat
    BY ContextBoundsAssumption
  <1> HIDE DEF f, e
  <1> SUFFICES ASSUME NEW i \in DOMAIN f
               PROVE  /\ <<w, i>> \in ToSet(cut) => e.fields[i] = MarkBytes
                      /\ <<w, i>> \notin ToSet(cut) =>
                           \/ \E k \in DOMAIN ended[w] : i \in DOMAIN ended[w][k].fields /\ ended[w][k].fields[i] <= MaxFieldBytes
                           \/ Len(cut) = MaxOmitted
    BY <1>3, <1>4 DEF EntryOK, e
  <1>7. ToSet(cut) \subseteq ToSet(AllOmissions) /\ (cut = AllOmissions \/ Len(cut) = MaxOmitted)
    BY <1>6, AllOmissionsTyped, FirstOfKeeps
  <1>8. <<w, i>> \in ToSet(AllOmissions) <=> Oversized(f[i])
    <2>1. <<w, i>> \in ToSet(AllOmissions) <=> \E v \in Workers : <<w, i>> \in ToSet(OmissionsOf(v))
      BY AllOmissionsTyped
    <2>2. \A v \in Workers : <<w, i>> \in ToSet(OmissionsOf(v)) <=>
            \E j \in DOMAIN ResultOf(v).fields : <<w, i>> = <<v, j>> /\ Oversized(ResultOf(v).fields[j])
      BY OmissionsTyped
    <2>3. \A v, j : <<w, i>> = <<v, j>> <=> v = w /\ j = i
      OBVIOUS
    <2> QED BY <2>1, <2>2, <2>3 DEF f
  <1> HIDE DEF cut
  <1>9. CASE Oversized(f[i])
    BY <1>3, <1>7, <1>8, <1>9
  <1>10. CASE ~Oversized(f[i])
    <2>1. f[i] <= MaxFieldBytes
      BY <1>2, <1>6, <1>10 DEF Oversized
    <2>2. i \in DOMAIN ended[w][n].fields /\ ended[w][n].fields[i] <= MaxFieldBytes
      BY <1>5, <2>1 DEF f
    <2> QED BY <1>7, <1>8, <1>10, <2>2
  <1> QED BY <1>9, <1>10

\* Attempts that end later take nothing from an aggregate.
LEMMA WorkerEndsKeeps ==
  ASSUME VerifierInv, NEW w \in Workers, WorkerEnds(w)
  PROVE  VerifierInv'
PROOF
  <1>1. PICK r \in WorkerResults : ended' = [ended EXCEPT ![w] = Append(@, r)]
    BY DEF WorkerEnds
  <1>2. UNCHANGED <<context, verified>>
    BY DEF WorkerEnds
  <1>3. ended \in [Workers -> Seq(ResultTypes)] /\ r \in ResultTypes
    BY ContextBoundsAssumption DEF VerifierInv, ResultTypes
  <1>4. ended' \in [Workers -> Seq(ResultTypes)]
    BY <1>1, <1>3
  <1>5. \A v \in Workers : \A n \in DOMAIN ended[v] : n \in DOMAIN ended'[v] /\ ended'[v][n] = ended[v][n]
    <2> SUFFICES ASSUME NEW v \in Workers, NEW n \in DOMAIN ended[v]
                 PROVE  n \in DOMAIN ended'[v] /\ ended'[v][n] = ended[v][n]
      OBVIOUS
    <2>1. CASE v # w
      BY <1>1, <1>3, <2>1
    <2>2. CASE v = w
      <3>1. ended'[w] = Append(ended[w], r) /\ ended[w] \in Seq(ResultTypes)
        BY <1>1, <1>3
      <3> QED BY <1>3, <2>2, <3>1
    <2> QED BY <2>1, <2>2
  <1>6. FieldOmissionsAreRecorded'
    <2> SUFFICES ASSUME verified' = "claimed", NEW k \in DOMAIN context'.workers
                 PROVE  EntryOK(context, context.workers[k])'
      BY DEF FieldOmissionsAreRecorded, EntryOK
    <2>1. EntryOK(context, context.workers[k]) /\ context.workers[k].worker \in Workers
      BY <1>2, EntriesAreOK DEF VerifierInv
    <2> DEFINE e == context.workers[k]
    <2>2. e' = e /\ context' = context
      BY <1>2
    <2>3. \A i : (\E n \in DOMAIN ended[e.worker] : i \in DOMAIN ended[e.worker][n].fields /\ ended[e.worker][n].fields[i] <= MaxFieldBytes)
              => \E n \in DOMAIN ended'[e.worker] : i \in DOMAIN ended'[e.worker][n].fields /\ ended'[e.worker][n].fields[i] <= MaxFieldBytes
      BY <1>5, <2>1
    <2> QED BY <2>1, <2>2, <2>3 DEF EntryOK
  <1> QED BY <1>2, <1>4, <1>6 DEF VerifierInv, Workers

LEMMA FreezeKeeps ==
  ASSUME VerifierInv, FreezeVerifierInput
  PROVE  VerifierInv'
PROOF
  <1>1. /\ \A w \in Workers : ended[w] # <<>>
        /\ UNCHANGED ended /\ ended \in [Workers -> Seq(ResultTypes)]
    BY DEF FreezeVerifierInput, Workers, VerifierInv
  <1>2. CASE verified' = "refused" /\ UNCHANGED context
    BY <1>1, <1>2 DEF VerifierInv, FieldOmissionsAreRecorded
  <1>3. CASE verified' = "claimed" /\ context' = BuildVerifierContext
    <2> DEFINE c == BuildVerifierContext
    <2>1. /\ DOMAIN c.workers = DOMAIN Manifest
          /\ \A k \in DOMAIN Manifest : c.workers[k] = WorkerEntry(Manifest[k]) /\ Manifest[k] \in Workers
      BY DEF BuildVerifierContext, Workers, ToSet
    <2>2. \A w \in Workers : WorkerEntry(w).worker = w
      BY DEF WorkerEntry
    <2>3. \A k \in DOMAIN c.workers : c.workers[k].worker \in Workers /\ EntryOK(c, c.workers[k])
      BY <1>1, <2>1, <2>2, AggregateIsOK
    <2> HIDE DEF c
    <2>4. context' = c
      BY <1>3 DEF c
    <2>5. FieldOmissionsAreRecorded'
      BY <1>1, <2>3, <2>4 DEF FieldOmissionsAreRecorded, EntryOK
    <2>6. \A k \in DOMAIN context'.workers : context'.workers[k].worker \in Workers
      BY <2>3, <2>4
    <2> QED BY <1>1, <2>5, <2>6 DEF VerifierInv, Workers
  <1> QED BY <1>2, <1>3 DEF FreezeVerifierInput

LEMMA VerifierInitially == VerifierInit => VerifierInv
PROOF
  <1> SUFFICES ASSUME VerifierInit PROVE VerifierInv
    OBVIOUS
  <1>1. ended \in [Workers -> Seq(ResultTypes)]
    BY DEF VerifierInit, Workers
  <1>2. context.workers = <<>> /\ verified = "no"
    BY DEF VerifierInit, NoContext
  <1> QED BY <1>1, <1>2 DEF VerifierInv, FieldOmissionsAreRecorded

LEMMA VerifierInvStep == VerifierInv /\ [VerifierNext]_verifierVars => VerifierInv'
PROOF
  <1> SUFFICES ASSUME VerifierInv, [VerifierNext]_verifierVars PROVE VerifierInv'
    OBVIOUS
  <1>1. CASE UNCHANGED verifierVars
    BY <1>1 DEF verifierVars, VerifierInv, FieldOmissionsAreRecorded, Workers
  <1>2. CASE VerifierNext
    BY <1>2, WorkerEndsKeeps, FreezeKeeps DEF VerifierNext, Workers
  <1> QED BY <1>1, <1>2

\* Everything in the Verifier's aggregate that is not a worker's own content
\* is named among the omissions, unless that list is full.
THEOREM VerifierInvariance == VerifierSpec => []VerifierInv
  BY VerifierInitially, VerifierInvStep, PTL DEF VerifierSpec

-----------------------------------------------------------------------------
(***************************************************************************)
(* Plans and their patches (PlanRules)                                     *)
(***************************************************************************)

Operations == [op : {"addStep", "replaceUnfrozenStep"}, step : Drafts, stepId : STRING]

UniqueIds(steps) == \A i, j \in DOMAIN steps : steps[i].id = steps[j].id => i = j

\* A plan's ids are unique; the claimed steps are in it, and so are the steps
\* they depend on, claimed before them.
PlanInv ==
  /\ currentPlan \in Seq(Drafts) /\ UniqueIds(currentPlan)
  /\ claimed \subseteq Ids(currentPlan)
  /\ \A id \in claimed : ToSet(StepOf(currentPlan, id).deps) \subseteq claimed

\* As many ids as steps: no id is used twice.
LEMMA DuplicateFreeIsUnique ==
  ASSUME NEW steps \in Seq(Drafts), DuplicateFree(steps)
  PROVE  UniqueIds(steps)
PROOF
  <1>1. Len(steps) \in Nat /\ DOMAIN steps = 1 .. Len(steps) /\ Cardinality(Ids(steps)) = Len(steps)
    BY LenProperties DEF DuplicateFree
  <1> SUFFICES ASSUME NEW i \in DOMAIN steps, NEW j \in DOMAIN steps, steps[i].id = steps[j].id, i # j PROVE FALSE
    BY DEF UniqueIds
  <1> DEFINE D == (1 .. Len(steps)) \ {j}
             f == [k \in D |-> steps[k].id]
  <1>2. IsFiniteSet(D) /\ Cardinality(D) = Len(steps) - 1
    <2> DEFINE n == Len(steps)
               I == 1 .. n
    <2>1. n \in Nat /\ 1 \in Int /\ n \in Int /\ j \in I
      BY <1>1
    <2> HIDE DEF n
    <2>2. IsFiniteSet(I) /\ Cardinality(I) = IF 1 > n THEN 0 ELSE n - 1 + 1
      BY <2>1, FS_Interval
    <2>3. Cardinality(I) = n
      BY <2>1, <2>2
    <2> HIDE DEF I
    <2>4. IsFiniteSet(I \ {j}) /\ Cardinality(I \ {j}) = n - 1
      BY <2>1, <2>2, <2>3, FS_RemoveElement
    <2> QED BY <2>4 DEF I, n
  <1>3. Ids(steps) = {f[k] : k \in D}
    <2>1. \A l \in D : l \in DOMAIN steps /\ f[l] = steps[l].id
      BY <1>1
    <2>2. \A k \in DOMAIN steps : k \in D \/ k = j
      BY <1>1
    <2>3. i \in D /\ steps[j].id = steps[i].id
      BY <1>1
    <2> HIDE DEF f, D
    <2>4. \A k \in DOMAIN steps : \E l \in D : steps[k].id = f[l]
      BY <2>1, <2>2, <2>3
    <2>5. \A x \in Ids(steps) : \E l \in D : x = f[l]
      BY <2>4, Zenon DEF Ids
    <2>6. \A l \in D : f[l] \in Ids(steps)
      BY <2>1 DEF Ids
    <2> QED BY <2>5, <2>6, Zenon
  <1>4. f \in Surjection(D, Ids(steps))
    <2>1. f \in [D -> Ids(steps)] /\ \A x \in Ids(steps) : \E k \in D : f[k] = x
      BY <1>3
    <2> HIDE DEF f, D
    <2> QED BY <2>1 DEF Surjection
  <1> HIDE DEF f, D
  <1>5. Cardinality(Ids(steps)) <= Cardinality(D)
    BY <1>2, <1>4, FS_Surjection
  <1> QED BY <1>1, <1>2, <1>5

\* A step is found by its id.
LEMMA StepOfUnique ==
  ASSUME NEW steps, UniqueIds(steps), NEW i \in DOMAIN steps
  PROVE  StepOf(steps, steps[i].id) = steps[i]
  BY DEF UniqueIds, StepOf

LEMMA FirstNamedIs ==
  ASSUME NEW steps \in Seq(Drafts), NEW id \in Ids(steps)
  PROVE  FirstNamed(steps, id) \in DOMAIN steps /\ steps[FirstNamed(steps, id)].id = id
PROOF
  <1> DEFINE at == {i \in DOMAIN steps : steps[i].id = id}
  <1>1. Len(steps) \in Nat /\ DOMAIN steps = 1 .. Len(steps)
    BY LenProperties
  <1>2. at \subseteq Nat /\ at # {}
    BY <1>1 DEF Ids
  <1>3. PICK m \in at : \A y \in at : m <= y
    BY <1>2, LeastNatural
  <1>4. m \in DOMAIN steps /\ steps[m].id = id /\ \A j \in 1 .. m - 1 : steps[j].id # id
    BY <1>1, <1>3
  <1> QED BY <1>4 DEF FirstNamed

\* What the operations of a patch leave of the plan it was made for: nothing,
\* or a plan in which every frozen step is where and what it was.
Leaves(steps, frozenIds, new) ==
  new # <<>> => /\ Len(steps) <= Len(new)
                /\ \A i \in DOMAIN steps : steps[i].id \in frozenIds => new[i] = steps[i]

LEMMA OperationLeaves ==
  ASSUME NEW steps \in Seq(Drafts), NEW frozenIds, NEW old \in Seq(Drafts), NEW o \in Operations,
         Leaves(steps, frozenIds, old)
  PROVE  ApplyOperation(old, frozenIds, o) \in Seq(Drafts) /\ Leaves(steps, frozenIds, ApplyOperation(old, frozenIds, o))
PROOF
  <1> DEFINE new == ApplyOperation(old, frozenIds, o)
  <1>1. /\ Len(steps) \in Nat /\ DOMAIN steps = 1 .. Len(steps)
        /\ Len(old) \in Nat /\ DOMAIN old = 1 .. Len(old) /\ o.step \in Drafts
    BY LenProperties DEF Operations
  <1>2. CASE old = <<>> \/ new = <<>>
    <2>1. new = <<>>
      BY <1>2 DEF ApplyOperation
    <2> HIDE DEF new
    <2>2. new \in Seq(Drafts)
      BY <2>1, EmptySeq
    <2>3. Leaves(steps, frozenIds, new)
      BY <2>1 DEF Leaves
    <2> QED BY <2>2, <2>3 DEF new
  <1>3. CASE old # <<>> /\ new # <<>> /\ o.op = "addStep"
    <2>1. new = Append(old, o.step)
      BY <1>3 DEF ApplyOperation
    <2>2. new \in Seq(Drafts) /\ Len(new) = Len(old) + 1 /\ \A i \in 1 .. Len(old) : new[i] = old[i]
      BY <1>1, <2>1, AppendProperties
    <2> HIDE DEF new
    <2>3. Leaves(steps, frozenIds, new)
      BY <1>1, <1>3, <2>2 DEF Leaves
    <2> QED BY <2>2, <2>3 DEF new
  <1>4. CASE old # <<>> /\ new # <<>> /\ o.op # "addStep"
    <2> DEFINE p == FirstNamed(old, o.stepId)
    <2>1. o.stepId \in Ids(old) /\ o.stepId \notin frozenIds /\ new = [old EXCEPT ![p] = o.step]
      BY <1>4 DEF ApplyOperation
    <2>2. p \in DOMAIN old /\ old[p].id = o.stepId
      BY <2>1, FirstNamedIs
    <2> HIDE DEF p, new
    <2>3. new \in Seq(Drafts) /\ Len(new) = Len(old) /\ \A i \in 1 .. Len(old) : i # p => new[i] = old[i]
      BY <1>1, <2>1, <2>2
    <2>4. Len(steps) <= Len(old) /\ \A i \in DOMAIN steps : steps[i].id \in frozenIds => old[i] = steps[i]
      BY <1>4 DEF Leaves
    <2>5. \A i \in DOMAIN steps : steps[i].id \in frozenIds => i # p /\ i \in 1 .. Len(old)
      BY <1>1, <2>1, <2>2, <2>4
    <2>6. Leaves(steps, frozenIds, new)
      BY <1>1, <2>3, <2>4, <2>5 DEF Leaves
    <2> QED BY <2>3, <2>6 DEF new
  <1> QED BY <1>2, <1>3, <1>4

PatchedAt(steps, frozenIds, ops, g, n) ==
  IF n = 0 THEN steps ELSE ApplyOperation(g[n - 1], frozenIds, ops[n])

Patching(steps, frozenIds, ops, top, g) == g = [n \in 0 .. top |-> PatchedAt(steps, frozenIds, ops, g, n)]

\* The plans a patch goes through, operation by operation.
LEMMA PatchExists ==
  ASSUME NEW steps, NEW frozenIds, NEW ops, NEW top \in Nat
  PROVE  \E g : Patching(steps, frozenIds, ops, top, g)
PROOF
  <1> DEFINE Bad == {k \in Nat : ~ \E g : g = [n \in 0 .. k |-> PatchedAt(steps, frozenIds, ops, g, n)]}
  <1> SUFFICES ASSUME Bad # {} PROVE FALSE
    BY DEF Patching
  <1>1. PICK m \in Bad : \A y \in Bad : m <= y
    BY LeastNatural
  <1>2. m # 0
    <2> DEFINE g == [n \in 0 .. 0 |-> steps]
    <2>1. g = [n \in 0 .. 0 |-> PatchedAt(steps, frozenIds, ops, g, n)]
      BY DEF PatchedAt
    <2> QED BY <2>1
  <1>3. m - 1 \in Nat /\ m - 1 \notin Bad
    BY <1>1, <1>2
  <1>4. PICK g : g = [n \in 0 .. m - 1 |-> PatchedAt(steps, frozenIds, ops, g, n)]
    BY <1>3
  <1> DEFINE h == [n \in 0 .. m |-> IF n < m THEN g[n] ELSE PatchedAt(steps, frozenIds, ops, g, m)]
  <1>5. \A n \in 0 .. m : h[n] = PatchedAt(steps, frozenIds, ops, h, n)
    <2> SUFFICES ASSUME NEW n \in 0 .. m PROVE h[n] = PatchedAt(steps, frozenIds, ops, h, n)
      OBVIOUS
    <2>1. n # 0 => h[n - 1] = g[n - 1]
      OBVIOUS
    <2>2. PatchedAt(steps, frozenIds, ops, h, n) = PatchedAt(steps, frozenIds, ops, g, n)
      BY <2>1 DEF PatchedAt
    <2>3. n < m => g[n] = PatchedAt(steps, frozenIds, ops, g, n)
      BY <1>3, <1>4
    <2> QED BY <2>2, <2>3
  <1>6. h = [n \in 0 .. m |-> PatchedAt(steps, frozenIds, ops, h, n)]
    BY <1>5
  <1> QED BY <1>1, <1>6

\* A whole patch leaves the frozen steps alone.
LEMMA PatchLeaves ==
  ASSUME NEW steps \in Seq(Drafts), NEW frozenIds, NEW ops \in Seq(Operations)
  PROVE  /\ ApplyPlanPatch(steps, frozenIds, ops) \in Seq(Drafts)
         /\ Leaves(steps, frozenIds, ApplyPlanPatch(steps, frozenIds, ops))
PROOF
  <1> DEFINE after[n \in 0 .. Len(ops)] == IF n = 0 THEN steps ELSE ApplyOperation(after[n - 1], frozenIds, ops[n])
  <1>1. Len(ops) \in Nat /\ \A n \in 1 .. Len(ops) : ops[n] \in Operations
    BY LenProperties, ElementOfSeq
  <1>2. ApplyPlanPatch(steps, frozenIds, ops) = after[Len(ops)]
    BY DEF ApplyPlanPatch
  <1>3. \E g : g = [n \in 0 .. Len(ops) |-> IF n = 0 THEN steps ELSE ApplyOperation(g[n - 1], frozenIds, ops[n])]
    <2> DEFINE top == Len(ops)
    <2>1. top \in Nat
      BY <1>1
    <2> HIDE DEF top
    <2>2. PICK g : Patching(steps, frozenIds, ops, top, g)
      BY <2>1, PatchExists
    <2>3. g = [n \in 0 .. top |-> IF n = 0 THEN steps ELSE ApplyOperation(g[n - 1], frozenIds, ops[n])]
      BY <2>2 DEF Patching, PatchedAt
    <2> QED BY <2>3 DEF top
  <1>4. after = [n \in 0 .. Len(ops) |-> IF n = 0 THEN steps ELSE ApplyOperation(after[n - 1], frozenIds, ops[n])]
    BY <1>3
  <1> HIDE DEF after
  <1>5. \A n \in 0 .. Len(ops) : after[n] = IF n = 0 THEN steps ELSE ApplyOperation(after[n - 1], frozenIds, ops[n])
    BY <1>4
  <1> DEFINE Right(n) == after[n] \in Seq(Drafts) /\ Leaves(steps, frozenIds, after[n])
             Bad == {n \in 0 .. Len(ops) : ~Right(n)}
  <1>6. Bad = {}
    <2> SUFFICES ASSUME Bad # {} PROVE FALSE
      OBVIOUS
    <2>1. Bad \subseteq Nat
      BY <1>1
    <2>2. PICK m \in Bad : \A y \in Bad : m <= y
      <3> HIDE DEF Bad
      <3> QED BY <2>1, LeastNatural
    <2>3. m \in 0 .. Len(ops) /\ ~Right(m) /\ \A y \in 0 .. Len(ops) : ~Right(y) => m <= y
      BY <2>2
    <2> HIDE DEF Right, Bad
    <2>4. CASE m = 0
      <3>1. after[m] = steps
        BY <1>5, <2>3, <2>4
      <3>2. Leaves(steps, frozenIds, steps)
        <4>1. Len(steps) \in Nat
          BY LenProperties
        <4> QED BY <4>1 DEF Leaves
      <3>3. Right(m)
        BY <3>1, <3>2 DEF Right
      <3> QED BY <2>3, <3>3
    <2>5. CASE m # 0
      <3>1. m - 1 \in 0 .. Len(ops) /\ ~(m <= m - 1) /\ ops[m] \in Operations
        BY <1>1, <2>3, <2>5
      <3>2. Right(m - 1)
        BY <2>3, <3>1
      <3>3. after[m] = ApplyOperation(after[m - 1], frozenIds, ops[m])
        BY <1>5, <2>3, <2>5
      <3>4. Right(m)
        BY <3>1, <3>2, <3>3, OperationLeaves DEF Right
      <3> QED BY <2>3, <3>4
    <2> QED BY <2>4, <2>5
  <1>7. Len(ops) \in 0 .. Len(ops)
    BY <1>1
  <1>8. Right(Len(ops))
    BY <1>6, <1>7
  <1> QED BY <1>2, <1>8

\* A plan that takes the place of another, with the frozen steps where they were.
LEMMA ReplacedPlan ==
  ASSUME PlanInv, UNCHANGED claimed, currentPlan' \in Seq(Drafts), UniqueIds(currentPlan'), currentPlan' # <<>>,
         Leaves(currentPlan, claimed, currentPlan')
  PROVE  PlanInv' /\ ClaimedStepsAreFixed
PROOF
  <1>1. /\ Len(currentPlan) \in Nat /\ DOMAIN currentPlan = 1 .. Len(currentPlan)
        /\ Len(currentPlan') \in Nat /\ DOMAIN currentPlan' = 1 .. Len(currentPlan')
    BY LenProperties DEF PlanInv
  <1>2. \A id \in claimed : /\ id \in Ids(currentPlan') /\ StepOf(currentPlan', id) = StepOf(currentPlan, id)
                            /\ ToSet(StepOf(currentPlan, id).deps) \subseteq claimed
    <2> SUFFICES ASSUME NEW id \in claimed
                 PROVE  /\ id \in Ids(currentPlan') /\ StepOf(currentPlan', id) = StepOf(currentPlan, id)
                        /\ ToSet(StepOf(currentPlan, id).deps) \subseteq claimed
      OBVIOUS
    <2>1. PICK i \in DOMAIN currentPlan : currentPlan[i].id = id
      BY DEF PlanInv, Ids
    <2>2. i \in DOMAIN currentPlan' /\ currentPlan'[i] = currentPlan[i]
      BY <1>1, <2>1 DEF Leaves
    <2>3. StepOf(currentPlan, id) = currentPlan[i]
      BY <2>1, StepOfUnique DEF PlanInv
    <2>4. StepOf(currentPlan', id) = currentPlan'[i]
      BY <2>1, <2>2, StepOfUnique
    <2>5. id \in Ids(currentPlan')
      BY <2>1, <2>2 DEF Ids
    <2> QED BY <2>2, <2>3, <2>4, <2>5 DEF PlanInv
  <1>3. ClaimedStepsAreFixed
    BY <1>2 DEF ClaimedStepsAreFixed
  <1>4. PlanInv'
    BY <1>2 DEF PlanInv, UniqueIds, Ids, StepOf
  <1> QED BY <1>3, <1>4

\* A step that leaves the plan and its claims alone.
LEMMA PlanRests ==
  ASSUME PlanInv, UNCHANGED <<currentPlan, claimed>>
  PROVE  PlanInv' /\ ClaimedStepsAreFixed
PROOF
  <1>1. PlanInv'
    BY DEF PlanInv, UniqueIds, Ids, StepOf
  <1>2. ClaimedStepsAreFixed
    BY DEF PlanInv, ClaimedStepsAreFixed
  <1> QED BY <1>1, <1>2

LEMMA JudgeKeeps ==
  ASSUME PlanInv, UNCHANGED claimed, NEW c \in Seq(Drafts), Judge(c), Leaves(currentPlan, claimed, c)
  PROVE  PlanInv' /\ ClaimedStepsAreFixed
PROOF
  <1>1. CASE ~ValidateSteps(c)
    BY <1>1, PlanRests DEF Judge
  <1>2. CASE ValidateSteps(c)
    <2>1. currentPlan' = c
      BY <1>2 DEF Judge
    <2>2. UniqueIds(c)
      BY <1>2, DuplicateFreeIsUnique DEF ValidateSteps
    <2>3. c # <<>>
      <3>1. Len(c) \in 1 .. MaxSteps /\ MaxSteps \in Nat
        BY <1>2, PlanRulesAssumption DEF ValidateSteps
      <3>2. Len(<<>>) = 0
        BY EmptySeq
      <3> QED BY <3>1, <3>2
    <2> QED BY <2>1, <2>2, <2>3, ReplacedPlan
  <1> QED BY <1>1, <1>2

LEMMA PlanStepKeeps ==
  ASSUME PlanInv, [PlanNext]_planVars
  PROVE  PlanInv' /\ ClaimedStepsAreFixed
PROOF
  <1>1. CASE UNCHANGED planVars
    BY <1>1, PlanRests DEF planVars
  <1>2. CASE PublishPlan
    <2>1. PICK c \in Candidates : Judge(c)
      BY <1>2 DEF PublishPlan
    <2>2. currentPlan = <<>> /\ UNCHANGED claimed
      BY <1>2 DEF PublishPlan
    <2>3. DOMAIN currentPlan = {} /\ Len(currentPlan) = 0
      BY <2>2, EmptySeq
    <2>4. c \in Seq(Drafts)
      BY PlanRulesAssumption
    <2>5. Len(c) \in Nat
      BY <2>4, LenProperties
    <2>6. Leaves(currentPlan, claimed, c)
      BY <2>3, <2>5 DEF Leaves
    <2> QED BY <2>1, <2>2, <2>4, <2>6, JudgeKeeps
  <1>3. CASE PatchPlan
    <2>1. PICK ops \in Patches :
            IF ~ParsePlanPatch(ops) \/ ApplyPlanPatch(currentPlan, claimed, ops) = <<>>
              THEN verdict' = "unparsed" /\ offer' = <<>> /\ UNCHANGED currentPlan
              ELSE Judge(ApplyPlanPatch(currentPlan, claimed, ops))
      BY <1>3 DEF PatchPlan
    <2>2. UNCHANGED claimed
      BY <1>3 DEF PatchPlan
    <2>3. currentPlan \in Seq(Drafts) /\ ops \in Seq(Operations)
      BY PlanRulesAssumption DEF PlanInv, Operations
    <2> DEFINE c == ApplyPlanPatch(currentPlan, claimed, ops)
    <2>4. c \in Seq(Drafts) /\ Leaves(currentPlan, claimed, c)
      BY <2>3, PatchLeaves
    <2>5. CASE UNCHANGED currentPlan
      BY <2>2, <2>5, PlanRests
    <2>6. CASE Judge(c)
      <3> HIDE DEF c
      <3> QED BY <2>2, <2>4, <2>6, JudgeKeeps
    <2> QED BY <2>1, <2>5, <2>6
  <1>4. CASE ClaimPlanned
    <2>1. PICK i \in DOMAIN currentPlan :
            /\ ToSet(currentPlan[i].deps) \subseteq claimed
            /\ claimed' = claimed \cup {currentPlan[i].id}
      BY <1>4 DEF ClaimPlanned
    <2>2. UNCHANGED currentPlan
      BY <1>4 DEF ClaimPlanned
    <2>3. StepOf(currentPlan, currentPlan[i].id) = currentPlan[i] /\ currentPlan[i].id \in Ids(currentPlan)
      BY StepOfUnique DEF PlanInv, Ids
    <2>4. \A id \in claimed' : id \in Ids(currentPlan) /\ ToSet(StepOf(currentPlan, id).deps) \subseteq claimed'
      BY <2>1, <2>3 DEF PlanInv
    <2>5. PlanInv'
      BY <2>2, <2>4 DEF PlanInv, UniqueIds, Ids, StepOf
    <2>6. ClaimedStepsAreFixed
      BY <2>1, <2>2, <2>4 DEF ClaimedStepsAreFixed
    <2> QED BY <2>5, <2>6
  <1> QED BY <1>1, <1>2, <1>3, <1>4 DEF PlanNext

LEMMA PlanInitially == PlanInit => PlanInv
PROOF
  <1> SUFFICES ASSUME PlanInit PROVE PlanInv
    OBVIOUS
  <1>1. currentPlan = <<>> /\ claimed = {}
    BY DEF PlanInit
  <1>2. DOMAIN currentPlan = {} /\ currentPlan \in Seq(Drafts)
    BY <1>1, EmptySeq
  <1> QED BY <1>1, <1>2 DEF PlanInv, UniqueIds

\* An accepted plan has no id twice, a claimed step is in it, and so, claimed
\* before, is every step it depends on (validateSteps, applyPlanPatch).
THEOREM PlanInvariance == PlanSpec => []PlanInv
  BY PlanInitially, PlanStepKeeps, PTL DEF PlanSpec

\* Whatever patches are accepted, a claimed step stays in the plan with the
\* configuration it was claimed under, and so do the steps it depends on.
THEOREM ClaimedStepsStay == PlanSpec => [][ClaimedStepsAreFixed]_planVars
  BY PlanInvariance, PlanStepKeeps, PTL DEF PlanSpec

-----------------------------------------------------------------------------
(***************************************************************************)
(* Capsules, replays and comparisons (Capsules)                            *)
(***************************************************************************)

PlanTypes == [StepNames -> Nat]
AttemptTypes == [step : StepNames, status : {"RUNNING"} \cup EndedAttempt, revision : Nat]
RunStatuses == {"RUNNING"} \cup EndedRun

\* A bounded section: the newest members, newest first.
LEMMA NewestIs ==
  ASSUME NEW S, NEW s \in Seq(S), NEW n \in Nat \ {0}
  PROVE  /\ Newest(s, n) \in Seq(S)
         /\ Len(Newest(s, n)) = IF Len(s) > n THEN n ELSE Len(s)
         /\ Len(Newest(s, n)) <= n
         /\ \A i \in 1 .. Len(Newest(s, n)) : Len(s) + 1 - i \in 1 .. Len(s) /\ Newest(s, n)[i] = s[Len(s) + 1 - i]
PROOF
  <1> DEFINE low == (IF Len(s) > n THEN Len(s) - n ELSE 0) + 1
             sub == SubSeq(s, low, Len(s))
  <1>1. Len(s) \in Nat /\ DOMAIN s = 1 .. Len(s) /\ \A i \in 1 .. Len(s) : s[i] \in S
    BY LenProperties, ElementOfSeq
  <1>2. low \in Nat \ {0} /\ (low <= Len(s) \/ Len(s) = 0) /\ Len(s) - low + 1 = IF Len(s) > n THEN n ELSE Len(s)
    BY <1>1
  <1>3. Newest(s, n) = [i \in 1 .. Len(sub) |-> sub[(Len(sub) - i) + 1]]
    BY DEF Newest, Reverse
  <1> HIDE DEF low
  <1>4. /\ sub \in Seq(S) /\ Len(sub) = IF low <= Len(s) THEN Len(s) - low + 1 ELSE 0
        /\ \A i \in 1 .. Len(s) - low + 1 : sub[i] = s[low + i - 1]
    <2>1. \A i \in low .. Len(s) : s[i] \in S
      BY <1>1, <1>2
    <2>2. low \in Int /\ Len(s) \in Int
      BY <1>1, <1>2
    <2> QED BY <2>1, <2>2, SubSeqProperties
  <1>5. Len(sub) = Len(s) - low + 1 /\ Len(sub) \in Nat /\ Len(sub) <= Len(s)
    BY <1>1, <1>2, <1>4
  <1> HIDE DEF sub
  <1>6. \A i \in 1 .. Len(sub) : sub[(Len(sub) - i) + 1] = s[Len(s) + 1 - i]
    <2> SUFFICES ASSUME NEW i \in 1 .. Len(sub) PROVE sub[(Len(sub) - i) + 1] = s[Len(s) + 1 - i]
      OBVIOUS
    <2>1. (Len(sub) - i) + 1 \in 1 .. Len(s) - low + 1
      BY <1>1, <1>2, <1>5
    <2>2. low + ((Len(sub) - i) + 1) - 1 = Len(s) + 1 - i
      BY <1>1, <1>2, <1>5
    <2> QED BY <1>4, <2>1, <2>2
  <1>7. \A i \in 1 .. Len(sub) : Len(s) + 1 - i \in 1 .. Len(s)
    BY <1>1, <1>5
  <1>8. Newest(s, n) \in [1 .. Len(sub) -> S] /\ \A i \in 1 .. Len(sub) : Newest(s, n)[i] = s[Len(s) + 1 - i]
    BY <1>1, <1>3, <1>6, <1>7
  <1>9. Newest(s, n) \in Seq(S) /\ Len(Newest(s, n)) = Len(sub)
    <2> DEFINE t == Newest(s, n)
    <2>1. t \in [1 .. Len(sub) -> S]
      BY <1>8
    <2> HIDE DEF t
    <2>2. t \in Seq(S) /\ Len(t) = Len(sub)
      BY <1>5, <2>1, SeqDef, LenProperties
    <2> QED BY <2>2 DEF t
  <1>10. (IF Len(s) > n THEN n ELSE Len(s)) <= n
    BY <1>1
  <1> QED BY <1>2, <1>5, <1>7, <1>8, <1>9, <1>10

\* The rows a capsule is built from.
RowsTyped ==
  /\ runStatus \in [CapsuleRuns -> RunStatuses]
  /\ plans \in [CapsuleRuns -> Seq(PlanTypes)] /\ \A e \in CapsuleRuns : plans[e] # <<>>
  /\ attempts \in [CapsuleRuns -> Seq(AttemptTypes)]
  /\ late \in [CapsuleRuns -> Nat] /\ policy \in Nat

\* A capsule is within its bounds, and has a current plan.
Bounded(c) ==
  /\ c \in ExecutionCapsuleV1 /\ c.revisions # <<>>
  /\ Len(c.revisions) <= MaxRevisions /\ Len(c.attempts) <= MaxAttempts

\* What the capsule of an ended run says.
FinalOf(c) ==
  /\ runStatus[c.run] = c.status
  /\ c.revisions = Newest(plans[c.run], MaxRevisions) /\ c.revisionCount = Len(plans[c.run])
  /\ c.attempts = Newest(attempts[c.run], MaxAttempts) /\ c.attemptCount = Len(attempts[c.run])

LEMMA BuildIs ==
  ASSUME RowsTyped, NEW e \in CapsuleRuns
  PROVE  /\ Bounded(BuildCapsule(e)) /\ FinalOf(BuildCapsule(e)) /\ BuildCapsule(e).run = e
         /\ Head(BuildCapsule(e).revisions) = Last(plans[e])
PROOF
  <1> DEFINE r == Newest(plans[e], MaxRevisions)
             a == Newest(attempts[e], MaxAttempts)
  <1>1. /\ plans[e] \in Seq(PlanTypes) /\ plans[e] # <<>> /\ attempts[e] \in Seq(AttemptTypes)
        /\ MaxRevisions \in Nat \ {0} /\ MaxAttempts \in Nat \ {0}
        /\ runStatus[e] \in RunStatuses /\ late[e] \in Nat /\ policy \in Nat
    BY CapsuleAssumption DEF RowsTyped
  <1>2. Len(plans[e]) \in Nat \ {0} /\ Len(attempts[e]) \in Nat
    BY <1>1, EmptySeq, LenProperties
  <1>3. /\ r \in Seq(PlanTypes) /\ Len(r) <= MaxRevisions
        /\ Len(r) = IF Len(plans[e]) > MaxRevisions THEN MaxRevisions ELSE Len(plans[e])
        /\ \A i \in 1 .. Len(r) : r[i] = plans[e][Len(plans[e]) + 1 - i]
    BY <1>1, NewestIs
  <1>4. a \in Seq(AttemptTypes) /\ Len(a) <= MaxAttempts
    BY <1>1, NewestIs
  <1> HIDE DEF r, a
  <1>5. Len(r) \in Nat \ {0} /\ r # <<>> /\ r[1] = plans[e][Len(plans[e])]
    <2>1. Len(r) \in Nat \ {0}
      BY <1>1, <1>2, <1>3
    <2>2. r # <<>>
      BY <2>1, EmptySeq
    <2>3. 1 \in 1 .. Len(r) /\ Len(plans[e]) + 1 - 1 = Len(plans[e])
      BY <1>2, <2>1
    <2> QED BY <1>3, <2>1, <2>2, <2>3
  <1>6. BuildCapsule(e) = [run |-> e, status |-> runStatus[e], revisions |-> r, revisionCount |-> Len(plans[e]),
          attempts |-> a, attemptCount |-> Len(attempts[e]), evidence |-> late[e], policy |-> policy]
    BY DEF BuildCapsule, r, a
  <1>7. BuildCapsule(e) \in ExecutionCapsuleV1
    BY <1>1, <1>2, <1>3, <1>4, <1>6 DEF ExecutionCapsuleV1, PlanTypes, AttemptTypes, RunStatuses
  <1>8. Bounded(BuildCapsule(e))
    BY <1>3, <1>4, <1>5, <1>6, <1>7 DEF Bounded
  <1>9. FinalOf(BuildCapsule(e)) /\ BuildCapsule(e).run = e
    BY <1>6 DEF FinalOf, r, a
  <1>10. Head(r) = Last(plans[e])
    BY <1>3, <1>5 DEF Last
  <1> QED BY <1>6, <1>8, <1>9, <1>10

Nodes == {"execution", "revision", "attempt", "policy"} \X Int
Edges == Nodes \X Nodes

\* A sequence given by its length and members.
LEMMA SeqFromFcn ==
  ASSUME NEW S, NEW n \in Nat, NEW f \in [1 .. n -> S]
  PROVE  f \in Seq(S) /\ Len(f) = n
  BY SeqDef, LenProperties

\* The nodes that are admitted: the first MaxNodes, each a kind and a number.
LEMMA NodesTyped ==
  ASSUME NEW c, Bounded(c)
  PROVE  AdmittedNodes(c) \in Seq(Nodes) /\ Len(AdmittedNodes(c)) <= MaxNodes
PROOF
  <1> DEFINE revs == [i \in DOMAIN c.revisions |-> <<"revision", c.revisionCount + 1 - i>>]
             atts == [i \in DOMAIN c.attempts |-> <<"attempt", c.attemptCount + 1 - i>>]
             pols == [i \in 1 .. c.policy |-> <<"policy", i>>]
             all == <<Root>> \o revs \o atts \o pols
  <1>1. /\ c.revisionCount \in Nat /\ c.attemptCount \in Nat /\ c.policy \in Nat
        /\ c.revisions \in Seq(PlanTypes) /\ c.attempts \in Seq(AttemptTypes)
    BY DEF Bounded, ExecutionCapsuleV1, PlanTypes, AttemptTypes
  <1>2. /\ DOMAIN c.revisions = 1 .. Len(c.revisions) /\ Len(c.revisions) \in Nat
        /\ DOMAIN c.attempts = 1 .. Len(c.attempts) /\ Len(c.attempts) \in Nat
    BY <1>1, LenProperties
  <1>3. \A x \in Int : <<"revision", x>> \in Nodes /\ <<"attempt", x>> \in Nodes /\ <<"policy", x>> \in Nodes
    BY DEF Nodes
  <1>4. Root \in Nodes
    BY DEF Root, Nodes
  <1>5. revs \in [1 .. Len(c.revisions) -> Nodes] /\ atts \in [1 .. Len(c.attempts) -> Nodes] /\ pols \in [1 .. c.policy -> Nodes]
    <2> DEFINE rev(i) == <<"revision", c.revisionCount + 1 - i>>
               att(i) == <<"attempt", c.attemptCount + 1 - i>>
               pol(i) == <<"policy", i>>
    <2>1. /\ \A i \in 1 .. Len(c.revisions) : rev(i) \in Nodes
          /\ \A i \in 1 .. Len(c.attempts) : att(i) \in Nodes
          /\ \A i \in 1 .. c.policy : pol(i) \in Nodes
      <3>1. /\ \A i \in 1 .. Len(c.revisions) : c.revisionCount + 1 - i \in Int
            /\ \A i \in 1 .. Len(c.attempts) : c.attemptCount + 1 - i \in Int
            /\ \A i \in 1 .. c.policy : i \in Int
        BY <1>1
      <3> QED BY <1>3, <3>1
    <2>2. /\ revs = [i \in 1 .. Len(c.revisions) |-> rev(i)] /\ atts = [i \in 1 .. Len(c.attempts) |-> att(i)]
          /\ pols = [i \in 1 .. c.policy |-> pol(i)]
      BY <1>2
    <2> HIDE DEF rev, att, pol, revs, atts, pols
    <2> QED BY <2>1, <2>2
  <1>6. AdmittedNodes(c) = SubSeq(all, 1, IF Len(all) < MaxNodes THEN Len(all) ELSE MaxNodes)
    BY DEF AdmittedNodes
  <1> HIDE DEF revs, atts, pols
  <1>7. revs \in Seq(Nodes) /\ atts \in Seq(Nodes) /\ pols \in Seq(Nodes) /\ <<Root>> \in Seq(Nodes)
    <2>1. revs \in Seq(Nodes) /\ atts \in Seq(Nodes)
      BY <1>2, <1>5, SeqFromFcn
    <2>2. pols \in Seq(Nodes)
      BY <1>1, <1>5, SeqFromFcn
    <2>3. <<Root>> \in Seq(Nodes)
      BY <1>4
    <2> QED BY <2>1, <2>2, <2>3
  <1>8. all \in Seq(Nodes)
    BY <1>7, ConcatProperties
  <1> HIDE DEF all
  <1>9. Len(all) \in Nat /\ \A i \in 1 .. Len(all) : all[i] \in Nodes
    BY <1>8, LenProperties, ElementOfSeq
  <1>10. MaxNodes \in Nat
    BY CapsuleAssumption
  <1> DEFINE top == IF Len(all) < MaxNodes THEN Len(all) ELSE MaxNodes
  <1>11. top \in Nat /\ top <= Len(all) /\ top <= MaxNodes
    BY <1>9, <1>10
  <1>12. AdmittedNodes(c) = SubSeq(all, 1, top)
    BY <1>6
  <1> HIDE DEF top
  <1>13. SubSeq(all, 1, top) \in Seq(Nodes) /\ Len(SubSeq(all, 1, top)) = IF 1 <= top THEN top - 1 + 1 ELSE 0
    <2>1. \A i \in 1 .. top : all[i] \in Nodes
      BY <1>9, <1>11
    <2>2. 1 \in Int /\ top \in Int
      BY <1>11
    <2> QED BY <2>1, <2>2, SubSeqProperties
  <1> QED BY <1>10, <1>11, <1>12, <1>13

LEMMA EdgesTyped ==
  ASSUME NEW c, Bounded(c), NEW n \in Nodes
  PROVE  EdgesOf(c, n) \in Seq(Edges) /\ Len(EdgesOf(c, n)) <= 2
PROOF
  <1> DEFINE r == <<"revision", c.attempts[c.attemptCount + 1 - n[2]].revision>>
             x == <<n, Root>>
             y == <<n, r>>
  <1>1. Root \in Nodes
    BY DEF Root, Nodes
  <1>2. ProvenanceNodes(c) \subseteq Nodes
    <2>1. AdmittedNodes(c) \in Seq(Nodes)
      BY NodesTyped
    <2> DEFINE s == AdmittedNodes(c)
    <2> HIDE DEF s
    <2>2. s \in Seq(Nodes) => ToSet(s) \subseteq Nodes
      BY LenProperties, ElementOfSeq DEF ToSet
    <2> QED BY <2>1, <2>2 DEF s, ProvenanceNodes
  <1>3. x \in Edges /\ (r \in ProvenanceNodes(c) => y \in Edges)
    <2> HIDE DEF r
    <2> QED BY <1>1, <1>2 DEF Edges
  <1>4. EdgesOf(c, n) = <<>> \/ EdgesOf(c, n) = <<x>> \/ (r \in ProvenanceNodes(c) /\ EdgesOf(c, n) = <<x, y>>)
    BY DEF EdgesOf
  <1> HIDE DEF x, y, r
  <1>5. <<>> \in Seq(Edges) /\ Len(<<>>) <= 2
    OBVIOUS
  <1>6. <<x>> \in Seq(Edges) /\ Len(<<x>>) <= 2
    BY <1>3
  <1>7. r \in ProvenanceNodes(c) => <<x, y>> \in Seq(Edges) /\ Len(<<x, y>>) <= 2
    BY <1>3
  <1> QED BY <1>4, <1>5, <1>6, <1>7

\* Twice as many edges as nodes fit: no edge of an admitted node is lost.
LEMMA EdgesAreKept ==
  ASSUME NEW c, Bounded(c), NEW n \in ProvenanceNodes(c)
  PROVE  ToSet(EdgesOf(c, n)) \subseteq ProvenanceEdges(c)
PROOF
  <1> DEFINE adm == AdmittedNodes(c)
             seqs == [k \in DOMAIN adm |-> EdgesOf(c, adm[k])]
             flat == FlattenSeq(seqs)
  <1>1. adm \in Seq(Nodes) /\ Len(adm) <= MaxNodes
    BY NodesTyped
  <1>2. Len(adm) \in Nat /\ DOMAIN adm = 1 .. Len(adm) /\ \A k \in 1 .. Len(adm) : adm[k] \in Nodes
    <2> HIDE DEF adm
    <2> QED BY <1>1, LenProperties, ElementOfSeq
  <1>3. PICK k \in DOMAIN adm : n = adm[k]
    BY DEF ProvenanceNodes, ToSet
  <1>4. ProvenanceEdges(c) = ToSet(BoundedEdges(flat))
    BY DEF ProvenanceEdges
  <1> HIDE DEF adm
  <1>5. seqs \in [1 .. Len(adm) -> Seq(Edges)] /\ \A i \in 1 .. Len(adm) : seqs[i] = EdgesOf(c, adm[i]) /\ Len(seqs[i]) <= 2
    BY <1>2, EdgesTyped
  <1> HIDE DEF seqs
  <1>6. seqs \in Seq(Seq(Edges)) /\ Len(seqs) = Len(adm) /\ DOMAIN seqs = 1 .. Len(adm)
    BY <1>2, <1>5, SeqFromFcn
  <1>7. flat \in Seq(Edges) /\ ToSet(flat) = MembersOf(seqs, Len(adm)) /\ Len(flat) <= 2 * Len(adm)
    BY <1>5, <1>6, FlattenMembers, FlattenLength
  <1> HIDE DEF flat
  <1>8. Len(flat) \in Nat /\ Len(flat) <= MaxEdges
    <2>1. MaxEdges \in Nat /\ MaxNodes \in Nat /\ 2 * MaxNodes <= MaxEdges
      BY CapsuleAssumption
    <2>2. Len(flat) \in Nat
      BY <1>7, LenProperties
    <2> QED BY <1>1, <1>2, <1>7, <2>1, <2>2
  <1>9. BoundedEdges(flat) = flat
    <2>1. BoundedEdges(flat) = SubSeq(flat, 1, Len(flat))
      <3>1. MaxEdges \in Nat
        BY CapsuleAssumption
      <3>2. (IF Len(flat) < MaxEdges THEN Len(flat) ELSE MaxEdges) = Len(flat)
        BY <1>8, <3>1
      <3> QED BY <3>2 DEF BoundedEdges
    <2>2. SubSeq(flat, 1, Len(flat)) = flat
      BY <1>7
    <2> QED BY <2>1, <2>2
  <1>10. ToSet(seqs[k]) \subseteq MembersOf(seqs, Len(adm))
    BY <1>2, <1>3 DEF MembersOf
  <1>11. seqs[k] = EdgesOf(c, n)
    BY <1>2, <1>3, <1>5
  <1> QED BY <1>4, <1>7, <1>9, <1>10, <1>11

\* Whatever the bound on nodes cuts off, the graph of the rest is whole.
LEMMA ProvenanceIsComplete ==
  ASSUME NEW c, Bounded(c)
  PROVE  /\ \A n \in ProvenanceNodes(c) \ {Root} : <<n, Root>> \in ProvenanceEdges(c)
         /\ \A i \in DOMAIN c.attempts :
              LET a == <<"attempt", c.attemptCount + 1 - i>>  r == <<"revision", c.attempts[i].revision>> IN
              {a, r} \subseteq ProvenanceNodes(c) => <<a, r>> \in ProvenanceEdges(c)
PROOF
  <1>0. \A x, y : x \in ToSet(<<x>>) /\ x \in ToSet(<<x, y>>) /\ y \in ToSet(<<x, y>>)
    BY DEF ToSet
  <1>1. ASSUME NEW n \in ProvenanceNodes(c), n # Root
        PROVE  <<n, Root>> \in ProvenanceEdges(c)
    <2> DEFINE r == <<"revision", c.attempts[c.attemptCount + 1 - n[2]].revision>>
               x == <<n, Root>>
               y == <<n, r>>
    <2>1. EdgesOf(c, n) = <<x>> \/ EdgesOf(c, n) = <<x, y>>
      BY <1>1 DEF EdgesOf
    <2> HIDE DEF x, y, r
    <2>2. x \in ToSet(EdgesOf(c, n))
      BY <1>0, <2>1
    <2> QED BY <2>2, EdgesAreKept DEF x
  <1>2. ASSUME NEW i \in DOMAIN c.attempts, <<"attempt", c.attemptCount + 1 - i>> \in ProvenanceNodes(c),
               <<"revision", c.attempts[i].revision>> \in ProvenanceNodes(c)
        PROVE  <<<<"attempt", c.attemptCount + 1 - i>>, <<"revision", c.attempts[i].revision>>>> \in ProvenanceEdges(c)
    <2> DEFINE a == <<"attempt", c.attemptCount + 1 - i>>
               r == <<"revision", c.attempts[i].revision>>
    <2>1. c.attemptCount \in Nat /\ i \in Nat
      <3>1. c.attemptCount \in Nat /\ c.attempts \in Seq(AttemptTypes)
        BY DEF Bounded, ExecutionCapsuleV1, AttemptTypes
      <3> QED BY <3>1, LenProperties
    <2>2. c.attemptCount + 1 - (c.attemptCount + 1 - i) = i
      BY <2>1
    <2>3. a # Root /\ a[1] = "attempt" /\ a[2] = c.attemptCount + 1 - i
      BY DEF Root
    <2>4. c.attempts[c.attemptCount + 1 - a[2]] = c.attempts[i]
      BY <2>2, <2>3
    <2>5. EdgesOf(c, a) = IF r \in ProvenanceNodes(c) THEN <<<<a, Root>>, <<a, r>>>> ELSE <<<<a, Root>>>>
      <3> HIDE DEF a
      <3> QED BY <2>3, <2>4 DEF EdgesOf
    <2> DEFINE x == <<a, Root>>
               y == <<a, r>>
    <2>6. EdgesOf(c, a) = <<x, y>>
      BY <1>2, <2>5
    <2> HIDE DEF x, y
    <2>7. y \in ToSet(EdgesOf(c, a))
      BY <1>0, <2>6
    <2>8. y \in ProvenanceEdges(c)
      BY <1>2, <2>7, EdgesAreKept
    <2> QED BY <2>8 DEF y
  <1> QED BY <1>1, <1>2

\* A span for every ended attempt that the capsule shows.
LEMMA TelemetryIsComplete ==
  ASSUME NEW c, Bounded(c)
  PROVE  Len(TelemetrySpans(c)) = 1 + Cardinality({i \in DOMAIN c.attempts : c.attempts[i].status \in EndedAttempt})
PROOF
  <1> DEFINE part(i) == IF c.attempts[i].status \in EndedAttempt THEN <<c.attempts[i]>> ELSE <<>>
             seqs == [i \in DOMAIN c.attempts |-> part(i)]
             ends == {i \in DOMAIN c.attempts : c.attempts[i].status \in EndedAttempt}
             n == Len(c.attempts)
  <1>1. c.attempts \in Seq(AttemptTypes)
    BY DEF Bounded, ExecutionCapsuleV1, AttemptTypes
  <1>2. n \in Nat /\ DOMAIN c.attempts = 1 .. n /\ \A i \in 1 .. n : c.attempts[i] \in AttemptTypes
    BY <1>1, LenProperties, ElementOfSeq
  <1>3. \A i \in 1 .. n : /\ part(i) \in Seq(AttemptTypes) /\ Len(part(i)) \in 0 .. 1
                          /\ Len(part(i)) = 1 <=> c.attempts[i].status \in EndedAttempt
    <2> SUFFICES ASSUME NEW i \in 1 .. n
                 PROVE  /\ part(i) \in Seq(AttemptTypes) /\ Len(part(i)) \in 0 .. 1
                        /\ Len(part(i)) = 1 <=> c.attempts[i].status \in EndedAttempt
      OBVIOUS
    <2>1. c.attempts[i] \in AttemptTypes
      BY <1>2
    <2>2. <<c.attempts[i]>> \in Seq(AttemptTypes) /\ Len(<<c.attempts[i]>>) = 1
      BY <2>1
    <2>3. <<>> \in Seq(AttemptTypes) /\ Len(<<>>) = 0
      OBVIOUS
    <2> QED BY <2>2, <2>3
  <1>4. EndedAttempts(c) = FlattenSeq(seqs)
    BY DEF EndedAttempts
  <1> HIDE DEF part
  <1>5. seqs \in [1 .. n -> Seq(AttemptTypes)] /\ \A i \in 1 .. n : seqs[i] = part(i)
    BY <1>2, <1>3
  <1> HIDE DEF seqs, n
  <1>6. seqs \in Seq(Seq(AttemptTypes)) /\ Len(seqs) = n /\ DOMAIN seqs = 1 .. n
    BY <1>2, <1>5, SeqFromFcn
  <1>7. \A i \in DOMAIN seqs : Len(seqs[i]) \in 0 .. 1
    BY <1>3, <1>5, <1>6
  <1>8. {i \in DOMAIN seqs : Len(seqs[i]) = 1} = ends
    BY <1>2, <1>3, <1>5, <1>6
  <1>9. EndedAttempts(c) \in Seq(AttemptTypes) /\ Len(EndedAttempts(c)) = Cardinality(ends)
    BY <1>4, <1>6, <1>7, <1>8, FlattenMembers, FlattenCounts
  <1>10. Cardinality(ends) \in Nat /\ Cardinality(ends) <= MaxAttempts
    <2>1. IsFiniteSet(1 .. n) /\ Cardinality(1 .. n) = n
      BY <1>2, FS_Interval
    <2>2. ends \subseteq 1 .. n
      BY <1>2
    <2> HIDE DEF ends
    <2>3. IsFiniteSet(ends) /\ Cardinality(ends) <= Cardinality(1 .. n)
      BY <2>1, <2>2, FS_Subset
    <2>4. n <= MaxAttempts /\ MaxAttempts \in Nat
      BY CapsuleAssumption DEF Bounded, n
    <2>5. Cardinality(ends) \in Nat
      BY <2>3, FS_CardinalityType
    <2> QED BY <1>2, <2>1, <2>3, <2>4, <2>5
  <1> DEFINE e == EndedAttempts(c)
             root == [name |-> "pipeline.execute", failed |-> c.status = "FAILED"]
             spans == [i \in DOMAIN e |-> [name |-> "step.execute", failed |-> e[i].status # "SUCCESS"]]
             all == <<root>> \o spans
             Spans == {root} \cup {spans[i] : i \in DOMAIN e}
  <1>11. TelemetrySpans(c) = SubSeq(all, 1, IF Len(all) < MaxSpans THEN Len(all) ELSE MaxSpans)
    BY DEF TelemetrySpans
  <1>12. Len(e) \in Nat /\ DOMAIN e = 1 .. Len(e)
    BY <1>9, LenProperties
  <1>13. spans \in [1 .. Len(e) -> Spans]
    BY <1>12
  <1>14. root \in Spans
    OBVIOUS
  <1> HIDE DEF e, root, spans, Spans
  <1>15. all \in Seq(Spans) /\ Len(all) = 1 + Len(e)
    <2>1. spans \in Seq(Spans) /\ Len(spans) = Len(e)
      BY <1>12, <1>13, SeqFromFcn
    <2>2. <<root>> \in Seq(Spans) /\ Len(<<root>>) = 1
      BY <1>14
    <2> QED BY <2>1, <2>2, ConcatProperties
  <1> HIDE DEF all
  <1>16. Len(all) <= MaxSpans /\ Len(all) \in Nat
    <2>1. MaxSpans \in Nat /\ MaxAttempts \in Nat /\ MaxAttempts < MaxSpans
      BY CapsuleAssumption
    <2>2. Len(e) <= MaxAttempts
      BY <1>9, <1>10 DEF e
    <2> QED BY <1>12, <1>15, <2>1, <2>2
  <1>17. TelemetrySpans(c) = SubSeq(all, 1, Len(all))
    <2>1. MaxSpans \in Nat
      BY CapsuleAssumption
    <2>2. (IF Len(all) < MaxSpans THEN Len(all) ELSE MaxSpans) = Len(all)
      BY <1>16, <2>1
    <2> QED BY <1>11, <2>2
  <1>18. SubSeq(all, 1, Len(all)) = all
    BY <1>15
  <1>19. Len(TelemetrySpans(c)) = 1 + Len(e)
    BY <1>15, <1>17, <1>18
  <1> QED BY <1>9, <1>19 DEF e

LEMMA ProjectionsHold == RowsTyped => ProjectionsAreComplete
PROOF
  <1> SUFFICES ASSUME RowsTyped, NEW e \in CapsuleRuns
               PROVE LET c == BuildCapsule(e)  nodes == ProvenanceNodes(c)  edges == ProvenanceEdges(c) IN
                     /\ \A n \in nodes \ {Root} : <<n, Root>> \in edges
                     /\ \A i \in DOMAIN c.attempts :
                          LET a == <<"attempt", c.attemptCount + 1 - i>>  r == <<"revision", c.attempts[i].revision>> IN
                          {a, r} \subseteq nodes => <<a, r>> \in edges
                     /\ Len(TelemetrySpans(c)) = 1 + Cardinality({i \in DOMAIN c.attempts : c.attempts[i].status \in EndedAttempt})
    BY DEF ProjectionsAreComplete
  <1> DEFINE c == BuildCapsule(e)
  <1>1. Bounded(c)
    BY BuildIs
  <1> HIDE DEF c
  <1>2. /\ \A n \in ProvenanceNodes(c) \ {Root} : <<n, Root>> \in ProvenanceEdges(c)
        /\ \A i \in DOMAIN c.attempts :
             LET a == <<"attempt", c.attemptCount + 1 - i>>  r == <<"revision", c.attempts[i].revision>> IN
             {a, r} \subseteq ProvenanceNodes(c) => <<a, r>> \in ProvenanceEdges(c)
    BY <1>1, ProvenanceIsComplete
  <1>3. Len(TelemetrySpans(c)) = 1 + Cardinality({i \in DOMAIN c.attempts : c.attempts[i].status \in EndedAttempt})
    BY <1>1, TelemetryIsComplete
  <1> QED BY <1>2, <1>3 DEF c

\* The last terminal attempt of a step, over a run's whole history.
LastOutcome(e, s) ==
  LET ends == {i \in DOMAIN attempts[e] : attempts[e][i].step = s /\ attempts[e][i].status \in EndedAttempt}
  IN IF ends = {} THEN "null" ELSE attempts[e][CHOOSE i \in ends : \A j \in ends : j <= i].status

PlannedSteps(e, f) == {s \in StepNames : Last(plans[e])[s] # 0 \/ Last(plans[f])[s] # 0}

ReplayTypes == [hash : ExecutionCapsuleV1, run : CapsuleRuns, plan : PlanTypes,
                loop : {"planning", "none", "limit", "planner"}, iterations : Nat, passed : BOOLEAN]

\* A call between its capture and its commit holds a capsule; that of an
\* ended run tells its end.
CallIsOK(x) ==
  x.at = "captured" => Bounded(x.capsule) /\ (x.capsule.status \in EndedRun => FinalOf(x.capsule))

\* A replay's hash is that of an ended run.
ReplayIsOK(r) ==
  /\ r.hash.run = r.run /\ r.hash.status \in EndedRun /\ r.hash.policy = 0 /\ r.hash.revisions # <<>>
  /\ FinalOf(r.hash) /\ r.plan = Head(r.hash.revisions)

ComparisonIsOK ==
  ~comparison.outcomeUnavailable =>
    /\ comparison.left \in CapsuleRuns /\ comparison.right \in CapsuleRuns
    /\ runStatus[comparison.left] \in EndedRun /\ runStatus[comparison.right] \in EndedRun
    /\ comparison.outcome <=> \A s \in PlannedSteps(comparison.left, comparison.right) :
                                LastOutcome(comparison.left, s) = LastOutcome(comparison.right, s)

CapsuleInv ==
  /\ RowsTyped
  /\ \A e \in CapsuleRuns : runStatus[e] \in EndedRun => \A i \in DOMAIN attempts[e] : attempts[e][i].status # "RUNNING"
  /\ DOMAIN capture = CapsuleRequests /\ \A q \in CapsuleRequests : CallIsOK(capture[q])
  /\ replays \in Seq(ReplayTypes) /\ \A i \in DOMAIN replays : ReplayIsOK(replays[i])
  /\ \A i, j \in DOMAIN replays : i # j => replays[i].hash # replays[j].hash
  /\ exports \subseteq {x \in ExecutionCapsuleV1 : x.policy = 0}
  /\ ComparisonIsOK

\* What the invariant says of the capsules.
LEMMA CapsuleInvGives ==
  CapsuleInv => CapsuleTypeOK /\ ProjectionsAreComplete /\ ReplayRunsTheFinalPlan /\ EvidenceIdentifiesCapsules /\ ComparisonIsHonest
PROOF
  <1> SUFFICES ASSUME CapsuleInv
               PROVE  CapsuleTypeOK /\ ProjectionsAreComplete /\ ReplayRunsTheFinalPlan /\ EvidenceIdentifiesCapsules /\ ComparisonIsHonest
    OBVIOUS
  <1>1. CapsuleTypeOK
    BY DEF CapsuleInv, CapsuleTypeOK, CallIsOK, Bounded
  <1>2. ProjectionsAreComplete
    BY ProjectionsHold DEF CapsuleInv
  <1>3. \A i \in DOMAIN replays : replays[i] \in ReplayTypes /\ ReplayIsOK(replays[i])
    BY LenProperties, ElementOfSeq DEF CapsuleInv
  <1>4. ReplayRunsTheFinalPlan
    <2> SUFFICES ASSUME NEW i \in DOMAIN replays
                 PROVE  runStatus[replays[i].run] \in EndedRun /\ replays[i].plan = Last(plans[replays[i].run])
      BY DEF ReplayRunsTheFinalPlan
    <2> DEFINE e == replays[i].run
    <2>1. e \in CapsuleRuns /\ ReplayIsOK(replays[i])
      BY <1>3 DEF ReplayTypes
    <2>2. replays[i].plan = Head(Newest(plans[e], MaxRevisions)) /\ runStatus[e] \in EndedRun
      BY <2>1 DEF ReplayIsOK, FinalOf
    <2>3. Head(Newest(plans[e], MaxRevisions)) = Last(plans[e])
      <3>1. BuildCapsule(e).revisions = Newest(plans[e], MaxRevisions)
        BY DEF BuildCapsule
      <3> HIDE DEF e
      <3>2. Head(BuildCapsule(e).revisions) = Last(plans[e])
        BY <2>1, BuildIs DEF CapsuleInv
      <3> QED BY <3>1, <3>2 DEF e
    <2> QED BY <2>2, <2>3
  <1>5. EvidenceIdentifiesCapsules
    <2>1. ASSUME NEW i \in DOMAIN replays, NEW j \in DOMAIN replays, i # j, replays[i].run = replays[j].run,
                 replays[i].hash.evidence = replays[j].hash.evidence
          PROVE  FALSE
      <3> DEFINE x == replays[i].hash
                 y == replays[j].hash
      <3>1. x \in ExecutionCapsuleV1 /\ y \in ExecutionCapsuleV1
        BY <1>3 DEF ReplayTypes
      <3>2. /\ x.run = y.run /\ x.status = y.status /\ x.revisions = y.revisions /\ x.revisionCount = y.revisionCount
            /\ x.attempts = y.attempts /\ x.attemptCount = y.attemptCount /\ x.evidence = y.evidence /\ x.policy = y.policy
        BY <1>3, <2>1 DEF ReplayIsOK, FinalOf
      <3>3. x # y
        BY <2>1 DEF CapsuleInv
      <3>4. \A z \in ExecutionCapsuleV1 :
              z = [run |-> z.run, status |-> z.status, revisions |-> z.revisions, revisionCount |-> z.revisionCount,
                   attempts |-> z.attempts, attemptCount |-> z.attemptCount, evidence |-> z.evidence, policy |-> z.policy]
        BY DEF ExecutionCapsuleV1
      <3> HIDE DEF x, y
      <3> QED BY <3>1, <3>2, <3>3, <3>4
    <2>2. ASSUME NEW x \in exports, NEW y \in exports, x # y
          PROVE  [x EXCEPT !.policy = 0] # [y EXCEPT !.policy = 0]
      <3>1. \A z \in ExecutionCapsuleV1 : z.policy = 0 => [z EXCEPT !.policy = 0] = z
        BY DEF ExecutionCapsuleV1
      <3>2. x \in ExecutionCapsuleV1 /\ y \in ExecutionCapsuleV1 /\ x.policy = 0 /\ y.policy = 0
        BY <2>2 DEF CapsuleInv
      <3> QED BY <2>2, <3>1, <3>2
    <2> QED BY <2>1, <2>2 DEF EvidenceIdentifiesCapsules
  <1>6. ComparisonIsHonest
    BY DEF CapsuleInv, ComparisonIsOK, ComparisonIsHonest, LastOutcome, PlannedSteps
  <1> QED BY <1>1, <1>2, <1>4, <1>5, <1>6

\* An ended run's rows stay as they are, whatever evidence comes late.
RowsMove ==
  /\ RowsTyped'
  /\ \A e \in CapsuleRuns : runStatus'[e] \in EndedRun => \A i \in DOMAIN attempts'[e] : attempts'[e][i].status # "RUNNING"
  /\ \A e \in CapsuleRuns : runStatus[e] \in EndedRun =>
       runStatus'[e] = runStatus[e] /\ plans'[e] = plans[e] /\ attempts'[e] = attempts[e]

LEMMA FinalStays ==
  ASSUME RowsMove, NEW c, c.run \in CapsuleRuns, c.status \in EndedRun, FinalOf(c)
  PROVE  FinalOf(c)'
PROOF
  <1>1. runStatus[c.run] \in EndedRun
    BY DEF FinalOf
  <1>2. runStatus'[c.run] = runStatus[c.run] /\ plans'[c.run] = plans[c.run] /\ attempts'[c.run] = attempts[c.run]
    BY <1>1 DEF RowsMove
  <1> QED BY <1>2 DEF FinalOf

LEMMA RestOfCapsules ==
  ASSUME CapsuleInv, RowsMove, UNCHANGED <<capture, exports, replays, comparison>>
  PROVE  CapsuleInv'
PROOF
  <1>1. \A q \in CapsuleRequests : CallIsOK(capture[q])'
    <2> SUFFICES ASSUME NEW q \in CapsuleRequests, capture[q].at = "captured"
                 PROVE  Bounded(capture[q].capsule) /\ (capture[q].capsule.status \in EndedRun => FinalOf(capture[q].capsule)')
      BY DEF CallIsOK, Bounded
    <2> DEFINE c == capture[q].capsule
    <2>1. Bounded(c) /\ (c.status \in EndedRun => FinalOf(c))
      BY DEF CapsuleInv, CallIsOK
    <2>2. c.run \in CapsuleRuns
      BY <2>1 DEF Bounded, ExecutionCapsuleV1
    <2>3. c.status \in EndedRun => FinalOf(c)'
      <3>1. c' = c
        OBVIOUS
      <3> QED BY <2>1, <2>2, <3>1, FinalStays DEF FinalOf
    <2> QED BY <2>1, <2>3
  <1>2. \A i \in DOMAIN replays : ReplayIsOK(replays[i])'
    <2> SUFFICES ASSUME NEW i \in DOMAIN replays PROVE ReplayIsOK(replays[i])'
      OBVIOUS
    <2> DEFINE r == replays[i]
    <2>1. r \in ReplayTypes /\ ReplayIsOK(r)
      BY LenProperties, ElementOfSeq DEF CapsuleInv
    <2>2. r.hash.run \in CapsuleRuns /\ r.hash.status \in EndedRun /\ FinalOf(r.hash)
      BY <2>1 DEF ReplayIsOK, ReplayTypes, ExecutionCapsuleV1
    <2>3. r' = r
      OBVIOUS
    <2> QED BY <2>1, <2>2, <2>3, FinalStays DEF ReplayIsOK, FinalOf
  <1>3. ComparisonIsOK'
    <2> SUFFICES ASSUME ~comparison'.outcomeUnavailable
                 PROVE  /\ comparison.left \in CapsuleRuns /\ comparison.right \in CapsuleRuns
                        /\ runStatus'[comparison.left] \in EndedRun /\ runStatus'[comparison.right] \in EndedRun
                        /\ comparison.outcome <=> \A s \in PlannedSteps(comparison.left, comparison.right)' :
                              LastOutcome(comparison.left, s)' = LastOutcome(comparison.right, s)'
      BY DEF ComparisonIsOK
    <2> DEFINE e == comparison.left
               f == comparison.right
    <2>1. /\ e \in CapsuleRuns /\ f \in CapsuleRuns /\ runStatus[e] \in EndedRun /\ runStatus[f] \in EndedRun
          /\ comparison.outcome <=> \A s \in PlannedSteps(e, f) : LastOutcome(e, s) = LastOutcome(f, s)
      BY DEF CapsuleInv, ComparisonIsOK
    <2>2. /\ runStatus'[e] = runStatus[e] /\ plans'[e] = plans[e] /\ attempts'[e] = attempts[e]
          /\ runStatus'[f] = runStatus[f] /\ plans'[f] = plans[f] /\ attempts'[f] = attempts[f]
      BY <2>1 DEF RowsMove
    <2>3. e' = e /\ f' = f
      OBVIOUS
    <2>4. PlannedSteps(e, f)' = PlannedSteps(e, f)
      BY <2>2, <2>3 DEF PlannedSteps
    <2>5. \A s : LastOutcome(e, s)' = LastOutcome(e, s) /\ LastOutcome(f, s)' = LastOutcome(f, s)
      BY <2>2, <2>3 DEF LastOutcome
    <2> QED BY <2>1, <2>2, <2>4, <2>5
  <1> QED BY <1>1, <1>2, <1>3 DEF CapsuleInv, RowsMove

LEMMA AddAttemptKeeps ==
  ASSUME CapsuleInv, NEW e \in CapsuleRuns, AddAttempt(e)
  PROVE  CapsuleInv'
PROOF
  <1>1. PICK s \in StepNames :
          attempts' = [attempts EXCEPT ![e] = Append(@, [step |-> s, status |-> "RUNNING", revision |-> Len(plans[e])])]
    BY DEF AddAttempt
  <1>2. /\ runStatus[e] = "RUNNING"
        /\ UNCHANGED <<runStatus, plans, late, policy>> /\ UNCHANGED <<capture, exports, replays, comparison>>
    BY DEF AddAttempt
  <1>3. RowsTyped /\ plans[e] \in Seq(PlanTypes) /\ attempts \in [CapsuleRuns -> Seq(AttemptTypes)]
    BY DEF CapsuleInv, RowsTyped
  <1> DEFINE a == [step |-> s, status |-> "RUNNING", revision |-> Len(plans[e])]
  <1>4. a \in AttemptTypes
    <2>1. Len(plans[e]) \in Nat
      BY <1>3, LenProperties
    <2> QED BY <2>1 DEF AttemptTypes
  <1> HIDE DEF a
  <1>5. attempts' = [attempts EXCEPT ![e] = Append(@, a)]
    BY <1>1 DEF a
  <1>6. attempts' \in [CapsuleRuns -> Seq(AttemptTypes)] /\ \A f \in CapsuleRuns \ {e} : attempts'[f] = attempts[f]
    BY <1>3, <1>4, <1>5
  <1>7. RowsTyped'
    BY <1>2, <1>3, <1>6 DEF RowsTyped
  <1>8. RowsMove
    BY <1>2, <1>6, <1>7 DEF RowsMove, EndedRun, CapsuleInv
  <1> QED BY <1>2, <1>8, RestOfCapsules

LEMMA EndAttemptKeeps ==
  ASSUME CapsuleInv, NEW e \in CapsuleRuns, EndAttempt(e)
  PROVE  CapsuleInv'
PROOF
  <1>1. PICK i \in DOMAIN attempts[e], s \in {"SUCCESS", "FAILED"} :
          attempts[e][i].status = "RUNNING" /\ attempts' = [attempts EXCEPT ![e][i].status = s]
    BY DEF EndAttempt
  <1>2. UNCHANGED <<runStatus, plans, late, policy>> /\ UNCHANGED <<capture, exports, replays, comparison>>
    BY DEF EndAttempt
  <1>3. RowsTyped /\ attempts \in [CapsuleRuns -> Seq(AttemptTypes)] /\ attempts[e] \in Seq(AttemptTypes)
    BY DEF CapsuleInv, RowsTyped
  <1>4. runStatus[e] \notin EndedRun
    BY <1>1 DEF CapsuleInv
  <1> DEFINE a == [attempts[e][i] EXCEPT !.status = s]
             row == [attempts[e] EXCEPT ![i] = a]
  <1>5. a \in AttemptTypes
    <2>1. attempts[e][i] \in AttemptTypes
      BY <1>3, LenProperties, ElementOfSeq
    <2> QED BY <2>1 DEF AttemptTypes, EndedAttempt
  <1>6. attempts' = [attempts EXCEPT ![e] = row]
    BY <1>1, <1>3
  <1> HIDE DEF a
  <1>7. row \in Seq(AttemptTypes)
    BY <1>3, <1>5
  <1> HIDE DEF row
  <1>8. attempts' \in [CapsuleRuns -> Seq(AttemptTypes)] /\ \A f \in CapsuleRuns \ {e} : attempts'[f] = attempts[f]
    BY <1>3, <1>6, <1>7
  <1>9. RowsTyped'
    BY <1>2, <1>3, <1>8 DEF RowsTyped
  <1>10. RowsMove
    BY <1>2, <1>4, <1>8, <1>9 DEF RowsMove, CapsuleInv
  <1> QED BY <1>2, <1>10, RestOfCapsules

LEMMA AddRevisionKeeps ==
  ASSUME CapsuleInv, NEW e \in CapsuleRuns, AddRevision(e)
  PROVE  CapsuleInv'
PROOF
  <1>1. /\ runStatus[e] = "RUNNING" /\ Len(plans[e]) < Len(PlansOf[e])
        /\ plans' = [plans EXCEPT ![e] = SubSeq(PlansOf[e], 1, Len(plans[e]) + 1)]
        /\ UNCHANGED <<runStatus, attempts, late, policy>> /\ UNCHANGED <<capture, exports, replays, comparison>>
    BY DEF AddRevision
  <1>2. /\ RowsTyped /\ plans \in [CapsuleRuns -> Seq(PlanTypes)] /\ \A f \in CapsuleRuns : plans[f] # <<>>
        /\ PlansOf[e] \in Seq(PlanTypes)
    BY CapsuleAssumption DEF CapsuleInv, RowsTyped, PlanTypes
  <1> DEFINE n == Len(plans[e]) + 1
             new == SubSeq(PlansOf[e], 1, n)
  <1>3. /\ n \in Nat \ {0} /\ n <= Len(PlansOf[e]) /\ Len(PlansOf[e]) \in Nat
        /\ \A i \in 1 .. Len(PlansOf[e]) : PlansOf[e][i] \in PlanTypes
    <2>1. Len(plans[e]) \in Nat /\ Len(PlansOf[e]) \in Nat
      BY <1>2, LenProperties
    <2> QED BY <1>1, <1>2, <2>1, ElementOfSeq
  <1> HIDE DEF n
  <1>4. new \in Seq(PlanTypes) /\ Len(new) = n
    <2>1. \A i \in 1 .. n : PlansOf[e][i] \in PlanTypes
      BY <1>3
    <2>2. 1 \in Int /\ n \in Int /\ (IF 1 <= n THEN n - 1 + 1 ELSE 0) = n
      BY <1>3
    <2> QED BY <2>1, <2>2, SubSeqProperties
  <1>5. new # <<>>
    <2> HIDE DEF new
    <2> QED BY <1>3, <1>4, EmptySeq
  <1>6. plans' = [plans EXCEPT ![e] = new]
    BY <1>1 DEF n
  <1> HIDE DEF new
  <1>7. plans' \in [CapsuleRuns -> Seq(PlanTypes)] /\ plans'[e] = new /\ \A f \in CapsuleRuns \ {e} : plans'[f] = plans[f]
    BY <1>2, <1>4, <1>6
  <1>8. RowsTyped'
    BY <1>1, <1>2, <1>5, <1>7 DEF RowsTyped
  <1>9. RowsMove
    BY <1>1, <1>7, <1>8 DEF RowsMove, EndedRun, CapsuleInv
  <1> QED BY <1>1, <1>9, RestOfCapsules

LEMMA RunMovesKeep ==
  ASSUME CapsuleInv, PublishPolicy \/ \E e \in CapsuleRuns : FinishRun(e) \/ LateEvidence(e)
  PROVE  CapsuleInv'
PROOF
  <1>0. RowsTyped /\ \A e \in CapsuleRuns : runStatus[e] \in EndedRun => \A i \in DOMAIN attempts[e] : attempts[e][i].status # "RUNNING"
    BY DEF CapsuleInv
  <1>1. CASE PublishPolicy
    <2>1. /\ UNCHANGED <<runStatus, plans, attempts, late>> /\ UNCHANGED <<capture, exports, replays, comparison>>
          /\ policy' = policy + 1
      BY <1>1 DEF PublishPolicy
    <2>2. RowsTyped'
      BY <1>0, <2>1 DEF RowsTyped
    <2> QED BY <1>0, <2>1, <2>2, RestOfCapsules DEF RowsMove
  <1>2. ASSUME NEW e \in CapsuleRuns, LateEvidence(e) PROVE CapsuleInv'
    <2>1. /\ UNCHANGED <<runStatus, plans, attempts, policy>> /\ UNCHANGED <<capture, exports, replays, comparison>>
          /\ late' = [late EXCEPT ![e] = @ + 1]
      BY <1>2 DEF LateEvidence
    <2>2. RowsTyped'
      BY <1>0, <2>1 DEF RowsTyped
    <2> QED BY <1>0, <2>1, <2>2, RestOfCapsules DEF RowsMove
  <1>3. ASSUME NEW e \in CapsuleRuns, FinishRun(e) PROVE CapsuleInv'
    <2>1. PICK s \in EndedRun : runStatus' = [runStatus EXCEPT ![e] = s]
      BY <1>3 DEF FinishRun
    <2>2. /\ UNCHANGED <<plans, attempts, late, policy>> /\ UNCHANGED <<capture, exports, replays, comparison>>
          /\ runStatus[e] = "RUNNING" /\ \A i \in DOMAIN attempts[e] : attempts[e][i].status # "RUNNING"
      BY <1>3 DEF FinishRun
    <2>3. runStatus' \in [CapsuleRuns -> RunStatuses] /\ \A f \in CapsuleRuns \ {e} : runStatus'[f] = runStatus[f]
      BY <1>0, <2>1 DEF RowsTyped, RunStatuses
    <2>4. RowsTyped'
      BY <1>0, <2>2, <2>3 DEF RowsTyped
    <2>5. RowsMove
      BY <1>0, <2>2, <2>3, <2>4 DEF RowsMove, EndedRun
    <2> QED BY <2>2, <2>5, RestOfCapsules
  <1> QED BY <1>1, <1>2, <1>3

\* A step of a call leaves the runs alone.
LEMMA RunsRest == CapsuleInv /\ UNCHANGED <<runStatus, plans, attempts, late, policy>> => RowsMove
  BY DEF CapsuleInv, RowsMove, RowsTyped

RowsStill == UNCHANGED <<runStatus, plans, attempts, late, policy>>

LEMMA StillFinal == RowsStill => \A c : FinalOf(c)' <=> FinalOf(c)
  BY DEF RowsStill, FinalOf

\* A step of a call: one request moves on, and what it wrote is in order.
LEMMA CallKeeps ==
  ASSUME CapsuleInv, RowsStill, NEW q \in CapsuleRequests, NEW x, CallIsOK(x),
         capture' = [capture EXCEPT ![q] = x],
         replays' \in Seq(ReplayTypes), \A i \in DOMAIN replays' : ReplayIsOK(replays'[i]),
         \A i, j \in DOMAIN replays' : i # j => replays'[i].hash # replays'[j].hash,
         exports' \subseteq {y \in ExecutionCapsuleV1 : y.policy = 0},
         ComparisonIsOK'
  PROVE  CapsuleInv'
PROOF
  <1>1. RowsMove
    BY RunsRest DEF RowsStill
  <1>2. RowsTyped' /\ \A e \in CapsuleRuns : runStatus'[e] \in EndedRun => \A i \in DOMAIN attempts'[e] : attempts'[e][i].status # "RUNNING"
    BY <1>1 DEF RowsMove
  <1>3. DOMAIN capture' = CapsuleRequests /\ \A p \in CapsuleRequests : CallIsOK(capture'[p])
    BY DEF CapsuleInv
  <1>4. \A c : FinalOf(c)' <=> FinalOf(c)
    BY StillFinal
  <1>5. \A p \in CapsuleRequests : CallIsOK(capture[p])'
    <2> SUFFICES ASSUME NEW p \in CapsuleRequests PROVE CallIsOK(capture[p])'
      OBVIOUS
    <2>1. CallIsOK(capture'[p])
      BY <1>3
    <2> DEFINE c == capture[p].capsule
    <2>2. FinalOf(c') => FinalOf(c)'
      BY DEF FinalOf, RowsStill
    <2>3. Bounded(c') => Bounded(c)'
      BY DEF Bounded
    <2> QED BY <2>1, <2>2, <2>3 DEF CallIsOK
  <1>6. \A i \in DOMAIN replays' : ReplayIsOK(replays[i])'
    <2> SUFFICES ASSUME NEW i \in DOMAIN replays' PROVE ReplayIsOK(replays[i])'
      OBVIOUS
    <2>1. ReplayIsOK(replays'[i])
      OBVIOUS
    <2> DEFINE c == replays[i].hash
    <2>2. FinalOf(c') => FinalOf(c)'
      BY DEF FinalOf, RowsStill
    <2> QED BY <2>1, <2>2 DEF ReplayIsOK
  <1> QED BY <1>2, <1>3, <1>5, <1>6 DEF CapsuleInv

LEMMA ComparisonStays ==
  ASSUME RowsStill, comparison' = comparison, ComparisonIsOK
  PROVE  ComparisonIsOK'
PROOF
  <1> DEFINE e == comparison.left
             f == comparison.right
  <1>1. e' = e /\ f' = f /\ runStatus' = runStatus /\ plans' = plans /\ attempts' = attempts
    BY DEF RowsStill
  <1>2. PlannedSteps(e, f)' = PlannedSteps(e, f)
    BY <1>1 DEF PlannedSteps
  <1>3. \A s : LastOutcome(e, s)' = LastOutcome(e, s) /\ LastOutcome(f, s)' = LastOutcome(f, s)
    BY <1>1 DEF LastOutcome
  <1>4. ~comparison.outcomeUnavailable =>
          /\ e \in CapsuleRuns /\ f \in CapsuleRuns /\ runStatus[e] \in EndedRun /\ runStatus[f] \in EndedRun
          /\ comparison.outcome <=> \A s \in PlannedSteps(e, f) : LastOutcome(e, s) = LastOutcome(f, s)
    BY DEF ComparisonIsOK
  <1>5. ~comparison'.outcomeUnavailable =>
          /\ e' \in CapsuleRuns /\ f' \in CapsuleRuns /\ runStatus'[e'] \in EndedRun /\ runStatus'[f'] \in EndedRun
          /\ comparison'.outcome <=> \A s \in PlannedSteps(e, f)' : LastOutcome(e, s)' = LastOutcome(f, s)'
    <2> HIDE DEF e, f
    <2> QED BY <1>1, <1>2, <1>3, <1>4
  <1> QED BY <1>5 DEF ComparisonIsOK

LEMMA CaptureKeeps ==
  ASSUME CapsuleInv, NEW q \in CapsuleRequests, Capture(q)
  PROVE  CapsuleInv'
PROOF
  <1>1. PICK e \in CapsuleRuns : capture' = [capture EXCEPT ![q] = [at |-> "captured", capsule |-> BuildCapsule(e)]]
    BY DEF Capture
  <1>2. RowsStill /\ UNCHANGED <<exports, replays, comparison>>
    BY DEF Capture, RowsStill
  <1>3. RowsTyped
    BY DEF CapsuleInv
  <1> DEFINE x == [at |-> "captured", capsule |-> BuildCapsule(e)]
  <1>4. CallIsOK(x)
    <2>1. Bounded(BuildCapsule(e)) /\ FinalOf(BuildCapsule(e))
      BY <1>3, BuildIs
    <2> QED BY <2>1 DEF CallIsOK
  <1>5. capture' = [capture EXCEPT ![q] = x]
    BY <1>1
  <1> HIDE DEF x
  <1>6. ComparisonIsOK'
    BY <1>2, ComparisonStays DEF CapsuleInv
  <1>7. /\ replays' \in Seq(ReplayTypes) /\ \A i \in DOMAIN replays' : ReplayIsOK(replays'[i])
        /\ \A i, j \in DOMAIN replays' : i # j => replays'[i].hash # replays'[j].hash
        /\ exports' \subseteq {y \in ExecutionCapsuleV1 : y.policy = 0}
    BY <1>2 DEF CapsuleInv
  <1> QED BY <1>2, <1>4, <1>5, <1>6, <1>7, CallKeeps

\* The request a commit ends.
ClosedCall == [at |-> "done", capsule |-> NoCapsule]

LEMMA ClosedIsOK == CallIsOK(ClosedCall)
  BY DEF ClosedCall, CallIsOK

\* The hash of a capsule says what the capsule says.
LEMMA HashIs ==
  ASSUME NEW c \in ExecutionCapsuleV1
  PROVE  /\ ContentHash(c) \in ExecutionCapsuleV1 /\ ContentHash(c).policy = 0
         /\ ContentHash(c).run = c.run /\ ContentHash(c).status = c.status
         /\ ContentHash(c).revisions = c.revisions /\ ContentHash(c).revisionCount = c.revisionCount
         /\ ContentHash(c).attempts = c.attempts /\ ContentHash(c).attemptCount = c.attemptCount
  BY DEF ContentHash, ExecutionCapsuleV1

LEMMA CommitExportKeeps ==
  ASSUME CapsuleInv, NEW q \in CapsuleRequests, CommitExport(q)
  PROVE  CapsuleInv'
PROOF
  <1> DEFINE c == capture[q].capsule
  <1>1. /\ capture[q].at = "captured" /\ capture' = [capture EXCEPT ![q] = ClosedCall]
        /\ exports' = exports \cup {ContentHash(c)}
        /\ RowsStill /\ UNCHANGED <<replays, comparison>>
    BY DEF CommitExport, CloseRequest, ClosedCall, RowsStill
  <1>2. c \in ExecutionCapsuleV1
    BY <1>1 DEF CapsuleInv, CallIsOK, Bounded
  <1>3. ContentHash(c) \in ExecutionCapsuleV1 /\ ContentHash(c).policy = 0
    BY <1>2, HashIs
  <1>4. exports' \subseteq {y \in ExecutionCapsuleV1 : y.policy = 0}
    BY <1>1, <1>3 DEF CapsuleInv
  <1>5. ComparisonIsOK'
    BY <1>1, ComparisonStays DEF CapsuleInv
  <1>6. /\ replays' \in Seq(ReplayTypes) /\ \A i \in DOMAIN replays' : ReplayIsOK(replays'[i])
        /\ \A i, j \in DOMAIN replays' : i # j => replays'[i].hash # replays'[j].hash
    BY <1>1 DEF CapsuleInv
  <1> QED BY <1>1, <1>4, <1>5, <1>6, ClosedIsOK, CallKeeps

\* A replay is made only of an ended run, whose plan can no longer change, and
\* once for each hash.
LEMMA CommitReplayKeeps ==
  ASSUME CapsuleInv, NEW q \in CapsuleRequests, CommitReplay(q)
  PROVE  CapsuleInv'
PROOF
  <1> DEFINE c == capture[q].capsule
             h == ContentHash(c)
             r == [hash |-> h, run |-> c.run, plan |-> Head(c.revisions),
                   loop |-> IF c.run \in Looping THEN "planning" ELSE "none",
                   iterations |-> 0, passed |-> FALSE]
  <1>1. /\ capture[q].at = "captured" /\ capture' = [capture EXCEPT ![q] = ClosedCall]
        /\ replays' = IF ~Replayable(c) \/ \E i \in DOMAIN replays : replays[i].hash = h THEN replays ELSE Append(replays, r)
        /\ RowsStill /\ UNCHANGED <<exports, comparison>>
    BY DEF CommitReplay, CloseRequest, ClosedCall, RowsStill
  <1>2. Bounded(c) /\ (c.status \in EndedRun => FinalOf(c))
    BY <1>1 DEF CapsuleInv, CallIsOK
  <1>3. exports' \subseteq {y \in ExecutionCapsuleV1 : y.policy = 0} /\ ComparisonIsOK'
    BY <1>1, ComparisonStays DEF CapsuleInv
  <1>4. /\ replays \in Seq(ReplayTypes) /\ \A i \in DOMAIN replays : ReplayIsOK(replays[i])
        /\ \A i, j \in DOMAIN replays : i # j => replays[i].hash # replays[j].hash
    BY DEF CapsuleInv
  <1>5. CASE replays' = replays
    <2>1. /\ replays' \in Seq(ReplayTypes) /\ \A i \in DOMAIN replays' : ReplayIsOK(replays'[i])
          /\ \A i, j \in DOMAIN replays' : i # j => replays'[i].hash # replays'[j].hash
      BY <1>4, <1>5
    <2> QED BY <1>1, <1>3, <2>1, ClosedIsOK, CallKeeps
  <1>6. CASE replays' = Append(replays, r) /\ Replayable(c) /\ ~\E i \in DOMAIN replays : replays[i].hash = h
    <2>1. c \in ExecutionCapsuleV1 /\ c.revisions # <<>> /\ c.status \in EndedRun /\ FinalOf(c)
      BY <1>2, <1>6 DEF Bounded, Replayable
    <2>2. /\ h \in ExecutionCapsuleV1 /\ h.policy = 0 /\ h.run = c.run /\ h.status = c.status
          /\ h.revisions = c.revisions /\ h.revisionCount = c.revisionCount
          /\ h.attempts = c.attempts /\ h.attemptCount = c.attemptCount
      BY <2>1, HashIs
    <2> HIDE DEF h
    <2>3. FinalOf(h)
      BY <2>1, <2>2 DEF FinalOf
    <2>4. c.run \in CapsuleRuns /\ c.revisions \in Seq(PlanTypes)
      BY <2>1 DEF ExecutionCapsuleV1, PlanTypes
    <2>5. Head(c.revisions) \in PlanTypes
      BY <2>1, <2>4, HeadTailProperties
    <2>6. r \in ReplayTypes
      BY <2>2, <2>4, <2>5 DEF ReplayTypes
    <2>7. ReplayIsOK(r)
      BY <2>1, <2>2, <2>3 DEF ReplayIsOK
    <2>8. r.hash = h
      OBVIOUS
    <2> HIDE DEF r
    <2>9. /\ Append(replays, r) \in Seq(ReplayTypes) /\ DOMAIN Append(replays, r) = 1 .. Len(replays) + 1
          /\ Append(replays, r)[Len(replays) + 1] = r /\ \A i \in 1 .. Len(replays) : Append(replays, r)[i] = replays[i]
          /\ DOMAIN replays = 1 .. Len(replays) /\ Len(replays) \in Nat
      BY <1>4, <2>6, AppendProperties, LenProperties
    <2>10. \A i \in DOMAIN replays' : (i \in DOMAIN replays /\ replays'[i] = replays[i]) \/ (i = Len(replays) + 1 /\ replays'[i] = r)
      BY <1>6, <2>9
    <2>11. \A i \in DOMAIN replays' : ReplayIsOK(replays'[i])
      BY <1>4, <2>7, <2>10
    <2>12. \A i, j \in DOMAIN replays' : i # j => replays'[i].hash # replays'[j].hash
      BY <1>4, <1>6, <2>8, <2>10
    <2>13. replays' \in Seq(ReplayTypes)
      BY <1>6, <2>9
    <2> QED BY <1>1, <1>3, <2>11, <2>12, <2>13, ClosedIsOK, CallKeeps
  <1>7. \/ replays' = replays
        \/ replays' = Append(replays, r) /\ Replayable(c) /\ ~\E i \in DOMAIN replays : replays[i].hash = h
    <2> HIDE DEF r, h, c
    <2> QED BY <1>1
  <1> QED BY <1>5, <1>6, <1>7

LEMMA ReconcileReplayKeeps ==
  ASSUME CapsuleInv, ReconcileReplay
  PROVE  CapsuleInv'
PROOF
  <1>1. PICK i \in DOMAIN replays, expired \in BOOLEAN :
          /\ replays[i].loop = "planning"
          /\ replays' = [replays EXCEPT ![i].passed = @ \/ ~expired,
                                     ![i].loop = IF expired THEN "limit"
                                               ELSE IF replays[i].iterations > 0 THEN "planner" ELSE @]
    BY Zenon DEF ReconcileReplay
  <1>2. RowsStill /\ UNCHANGED <<capture, exports, comparison>>
    BY DEF ReconcileReplay, RowsStill
  <1>3. /\ replays \in Seq(ReplayTypes) /\ \A j \in DOMAIN replays : replays[j] \in ReplayTypes /\ ReplayIsOK(replays[j])
        /\ \A j, k \in DOMAIN replays : j # k => replays[j].hash # replays[k].hash
    BY LenProperties, ElementOfSeq DEF CapsuleInv
  <1> DEFINE r == [replays[i] EXCEPT !.passed = @ \/ ~expired,
                                     !.loop = IF expired THEN "limit"
                                               ELSE IF replays[i].iterations > 0 THEN "planner" ELSE @]
  <1>4. replays' = [replays EXCEPT ![i] = r]
    BY <1>1, <1>3
  <1>5. r \in ReplayTypes /\ r.hash = replays[i].hash /\ r.run = replays[i].run /\ r.plan = replays[i].plan
    BY <1>3 DEF ReplayTypes
  <1> HIDE DEF r
  <1>6. ReplayIsOK(r)
    BY <1>3, <1>5 DEF ReplayIsOK
  <1>7. /\ replays' \in Seq(ReplayTypes) /\ DOMAIN replays' = DOMAIN replays
        /\ \A j \in DOMAIN replays' : replays'[j] = IF j = i THEN r ELSE replays[j]
    BY <1>3, <1>4, <1>5
  <1>8. \A j \in DOMAIN replays' : ReplayIsOK(replays'[j]) /\ replays'[j].hash = replays[j].hash
    BY <1>3, <1>5, <1>6, <1>7
  <1>9. \A j, k \in DOMAIN replays' : j # k => replays'[j].hash # replays'[k].hash
    BY <1>3, <1>7, <1>8
  <1>10. ComparisonIsOK'
    BY <1>2, ComparisonStays DEF CapsuleInv
  <1>11. RowsMove
    BY <1>2, RunsRest DEF RowsStill
  <1>12. \A p \in CapsuleRequests : CallIsOK(capture[p])'
    BY <1>2 DEF CapsuleInv, CallIsOK, FinalOf, Bounded, RowsStill
  <1>13. \A j \in DOMAIN replays' : ReplayIsOK(replays[j])'
    <2> SUFFICES ASSUME NEW j \in DOMAIN replays' PROVE ReplayIsOK(replays[j])'
      OBVIOUS
    <2>1. ReplayIsOK(replays'[j])
      BY <1>8
    <2> DEFINE c == replays[j].hash
    <2>2. FinalOf(c') => FinalOf(c)'
      BY <1>2 DEF FinalOf, RowsStill
    <2> QED BY <2>1, <2>2 DEF ReplayIsOK
  <1> QED BY <1>2, <1>7, <1>9, <1>10, <1>11, <1>12, <1>13 DEF CapsuleInv, RowsMove

\* The first ended attempt of a newest-first list is the last of the run.
LEMMA OutcomeIsLast ==
  ASSUME RowsTyped, NEW c, Bounded(c), FinalOf(c), ~AttemptsTruncated(c), NEW s
  PROVE  Outcome(c, s) = LastOutcome(c.run, s)
PROOF
  <1> DEFINE e == c.run
             all == attempts[e]
             n == Len(all)
             seen == {i \in DOMAIN c.attempts : c.attempts[i].step = s /\ c.attempts[i].status \in EndedAttempt}
             ends == {i \in DOMAIN all : all[i].step = s /\ all[i].status \in EndedAttempt}
             last == CHOOSE i \in ends : \A j \in ends : j <= i
  <1>1. /\ e \in CapsuleRuns /\ c.attempts = Newest(all, MaxAttempts) /\ c.attemptCount = n
        /\ c.attempts \in Seq(AttemptTypes) /\ MaxAttempts \in Nat \ {0} /\ c.attemptCount \in Nat
    BY CapsuleAssumption DEF Bounded, FinalOf, ExecutionCapsuleV1, AttemptTypes
  <1>2. all \in Seq(AttemptTypes)
    BY <1>1 DEF RowsTyped
  <1>3. n \in Nat /\ DOMAIN all = 1 .. n
    BY <1>2, LenProperties
  <1>4. ~(n > MaxAttempts)
    BY <1>1 DEF AttemptsTruncated
  <1> HIDE DEF all
  <1>5. Len(c.attempts) = n /\ \A i \in 1 .. n : n + 1 - i \in 1 .. n /\ c.attempts[i] = all[n + 1 - i]
    BY <1>1, <1>2, <1>4, NewestIs
  <1>6. DOMAIN c.attempts = 1 .. n
    BY <1>1, <1>5, LenProperties
  <1>7. seen \subseteq 1 .. n /\ ends \subseteq 1 .. n /\ \A i \in 1 .. n : i \in seen <=> n + 1 - i \in ends
    BY <1>3, <1>5, <1>6
  <1>8. Outcome(c, s) = IF seen = {} THEN "null" ELSE c.attempts[Min(seen)].status
    BY DEF Outcome
  <1>9. LastOutcome(e, s) = IF ends = {} THEN "null" ELSE all[last].status
    BY DEF LastOutcome, all
  <1> HIDE DEF seen, ends, e
  <1>10. CASE seen = {}
    <2>1. \A i \in 1 .. n : n + 1 - i \in 1 .. n /\ n + 1 - (n + 1 - i) = i
      BY <1>3
    <2>2. ends = {}
      BY <1>7, <1>10, <2>1
    <2> QED BY <1>8, <1>9, <1>10, <2>2 DEF e
  <1>11. CASE seen # {}
    <2>1. Min(seen) \in seen /\ \A y \in seen : Min(seen) <= y
      <3>1. seen \subseteq Nat
        BY <1>3, <1>7
      <3> QED BY <1>11, <3>1, MinIsLeast
    <2> DEFINE m == Min(seen)
               k == n + 1 - m
    <2> HIDE DEF m, last
    <2>2. m \in 1 .. n /\ k \in ends /\ c.attempts[m] = all[k] /\ k \in 1 .. n
      BY <1>5, <1>7, <2>1 DEF m
    <2>3. \A j \in ends : j <= k
      <3> SUFFICES ASSUME NEW j \in ends PROVE j <= k
        OBVIOUS
      <3>1. j \in 1 .. n /\ n + 1 - j \in 1 .. n /\ n + 1 - (n + 1 - j) = j
        BY <1>3, <1>7
      <3>2. n + 1 - j \in seen
        BY <1>7, <3>1
      <3>3. m <= n + 1 - j
        BY <2>1, <3>2 DEF m
      <3> QED BY <1>3, <2>2, <3>1, <3>3
    <2>4. last \in ends /\ \A j \in ends : j <= last
      <3> HIDE DEF k
      <3> QED BY <2>2, <2>3 DEF last
    <2>5. last = k
      <3>1. last <= k /\ k <= last /\ last \in 1 .. n
        BY <1>7, <2>2, <2>3, <2>4
      <3> QED BY <1>3, <2>2, <3>1
    <2>6. ends # {}
      BY <2>2
    <2> QED BY <1>8, <1>9, <1>11, <2>2, <2>5, <2>6 DEF m, e
  <1> QED BY <1>10, <1>11

LEMMA FinalPlan ==
  ASSUME RowsTyped, NEW c, c.run \in CapsuleRuns, FinalOf(c)
  PROVE  Head(c.revisions) = Last(plans[c.run])
PROOF
  <1>1. BuildCapsule(c.run).revisions = Newest(plans[c.run], MaxRevisions)
    BY DEF BuildCapsule
  <1>2. Head(BuildCapsule(c.run).revisions) = Last(plans[c.run])
    BY BuildIs
  <1> QED BY <1>1, <1>2 DEF FinalOf

\* A conclusion that is not marked unavailable is about two ended runs whose
\* attempts are all in their capsules.
LEMMA ComparedIsHonest ==
  ASSUME RowsTyped, NEW a, NEW b, Bounded(a), Bounded(b),
         a.status \in EndedRun => FinalOf(a), b.status \in EndedRun => FinalOf(b),
         ~Compared(a, b).outcomeUnavailable
  PROVE  /\ Compared(a, b).left = a.run /\ Compared(a, b).right = b.run
         /\ a.run \in CapsuleRuns /\ b.run \in CapsuleRuns
         /\ runStatus[a.run] \in EndedRun /\ runStatus[b.run] \in EndedRun
         /\ Compared(a, b).outcome <=> \A s \in PlannedSteps(a.run, b.run) : LastOutcome(a.run, s) = LastOutcome(b.run, s)
PROOF
  <1> DEFINE ids == {s \in StepNames : Head(a.revisions)[s] # 0 \/ Head(b.revisions)[s] # 0}
             same == \A s \in ids : Outcome(a, s) = Outcome(b, s)
  <1>1. /\ Compared(a, b).left = a.run /\ Compared(a, b).right = b.run
        /\ Compared(a, b).outcome = same
        /\ Compared(a, b).outcomeUnavailable = (AttemptsTruncated(a) \/ AttemptsTruncated(b) \/ CapsuleLive(a) \/ CapsuleLive(b))
    BY DEF Compared
  <1>2. ~AttemptsTruncated(a) /\ ~AttemptsTruncated(b) /\ a.status \in EndedRun /\ b.status \in EndedRun
    BY <1>1 DEF CapsuleLive
  <1>3. FinalOf(a) /\ FinalOf(b) /\ a.run \in CapsuleRuns /\ b.run \in CapsuleRuns
    BY <1>2 DEF Bounded, ExecutionCapsuleV1
  <1>4. ids = PlannedSteps(a.run, b.run)
    <2>1. Head(a.revisions) = Last(plans[a.run])
      BY <1>3, FinalPlan
    <2>2. Head(b.revisions) = Last(plans[b.run])
      BY <1>3, FinalPlan
    <2> QED BY <2>1, <2>2 DEF PlannedSteps
  <1>5. \A s : Outcome(a, s) = LastOutcome(a.run, s) /\ Outcome(b, s) = LastOutcome(b.run, s)
    BY <1>2, <1>3, OutcomeIsLast
  <1>6. runStatus[a.run] \in EndedRun /\ runStatus[b.run] \in EndedRun
    BY <1>2, <1>3 DEF FinalOf
  <1>7. same <=> \A s \in PlannedSteps(a.run, b.run) : LastOutcome(a.run, s) = LastOutcome(b.run, s)
    <2> HIDE DEF ids
    <2> QED BY <1>4, <1>5
  <1> HIDE DEF same
  <1> QED BY <1>1, <1>3, <1>6, <1>7

LEMMA CommitCompareKeeps ==
  ASSUME CapsuleInv, NEW q \in CapsuleRequests, CommitCompare(q)
  PROVE  CapsuleInv'
PROOF
  <1> DEFINE c == capture[q].capsule
  <1>1. PICK e \in CapsuleRuns : comparison' = Compared(c, BuildCapsule(e))
    BY DEF CommitCompare
  <1>2. /\ capture[q].at = "captured" /\ capture' = [capture EXCEPT ![q] = ClosedCall]
        /\ RowsStill /\ UNCHANGED <<exports, replays>>
    BY DEF CommitCompare, CloseRequest, ClosedCall, RowsStill
  <1>3. /\ replays' \in Seq(ReplayTypes) /\ \A i \in DOMAIN replays' : ReplayIsOK(replays'[i])
        /\ \A i, j \in DOMAIN replays' : i # j => replays'[i].hash # replays'[j].hash
        /\ exports' \subseteq {y \in ExecutionCapsuleV1 : y.policy = 0}
    BY <1>2 DEF CapsuleInv
  <1>4. RowsTyped /\ Bounded(c) /\ (c.status \in EndedRun => FinalOf(c))
    BY <1>2 DEF CapsuleInv, CallIsOK
  <1> DEFINE b == BuildCapsule(e)
             x == Compared(c, b)
  <1>5. Bounded(b) /\ FinalOf(b)
    BY <1>4, BuildIs
  <1> HIDE DEF c, b
  <1>6. ~x.outcomeUnavailable =>
          /\ x.left \in CapsuleRuns /\ x.right \in CapsuleRuns
          /\ runStatus[x.left] \in EndedRun /\ runStatus[x.right] \in EndedRun
          /\ x.outcome <=> \A s \in PlannedSteps(x.left, x.right) : LastOutcome(x.left, s) = LastOutcome(x.right, s)
    BY <1>4, <1>5, ComparedIsHonest
  <1>7. comparison' = x
    BY <1>1 DEF b
  <1> HIDE DEF x
  <1>8. ComparisonIsOK'
    <2>1. \A f, g : (PlannedSteps(f, g))' = PlannedSteps(f, g)
      BY <1>2 DEF PlannedSteps, RowsStill
    <2>2. \A f, s : (LastOutcome(f, s))' = LastOutcome(f, s)
      BY <1>2 DEF LastOutcome, RowsStill
    <2> DEFINE l == comparison.left
               r == comparison.right
    <2>3. l' = x.left /\ r' = x.right /\ comparison'.outcome = x.outcome /\ comparison'.outcomeUnavailable = x.outcomeUnavailable
      BY <1>7
    <2>4. PlannedSteps(l, r)' = PlannedSteps(x.left, x.right) /\ \A s : LastOutcome(l, s)' = LastOutcome(x.left, s) /\ LastOutcome(r, s)' = LastOutcome(x.right, s)
      BY <1>2, <2>3 DEF PlannedSteps, LastOutcome, RowsStill
    <2>5. ~comparison'.outcomeUnavailable =>
            /\ l' \in CapsuleRuns /\ r' \in CapsuleRuns /\ runStatus'[l'] \in EndedRun /\ runStatus'[r'] \in EndedRun
            /\ comparison'.outcome <=> \A s \in PlannedSteps(l, r)' : LastOutcome(l, s)' = LastOutcome(r, s)'
      <3>1. runStatus' = runStatus
        BY <1>2 DEF RowsStill
      <3> HIDE DEF l, r
      <3> QED BY <1>6, <2>3, <2>4, <3>1
    <2> QED BY <2>5 DEF ComparisonIsOK
  <1> QED BY <1>2, <1>3, <1>8, ClosedIsOK, CallKeeps

LEMMA CapsuleInitially == CapsuleInit => CapsuleInv
PROOF
  <1> SUFFICES ASSUME CapsuleInit PROVE CapsuleInv
    OBVIOUS
  <1>1. \A e \in CapsuleRuns : Head(PlansOf[e]) \in PlanTypes
    BY CapsuleAssumption, HeadTailProperties DEF PlanTypes
  <1>2. \A x \in PlanTypes : <<x>> \in Seq(PlanTypes) /\ <<x>> # <<>>
    OBVIOUS
  <1>3. <<>> \in Seq(AttemptTypes) /\ <<>> \in Seq(ReplayTypes) /\ DOMAIN <<>> = {}
    OBVIOUS
  <1>4. RowsTyped
    BY <1>1, <1>2, <1>3 DEF CapsuleInit, RowsTyped, RunStatuses
  <1>5. \A e \in CapsuleRuns : runStatus[e] \notin EndedRun
    BY DEF CapsuleInit, EndedRun
  <1>6. DOMAIN capture = CapsuleRequests /\ \A q \in CapsuleRequests : CallIsOK(capture[q])
    BY DEF CapsuleInit, CallIsOK
  <1>7. ComparisonIsOK
    BY DEF CapsuleInit, ComparisonIsOK, NoComparison
  <1>8. replays = <<>> /\ exports = {}
    BY DEF CapsuleInit
  <1> QED BY <1>3, <1>4, <1>5, <1>6, <1>7, <1>8 DEF CapsuleInv

LEMMA CapsuleStep ==
  ASSUME CapsuleInv, [CapsuleNext]_capsuleVars
  PROVE  CapsuleInv'
PROOF
  <1>1. ASSUME NEW e \in CapsuleRuns, AddAttempt(e) \/ EndAttempt(e) \/ AddRevision(e) \/ FinishRun(e) \/ LateEvidence(e)
        PROVE  CapsuleInv'
    BY <1>1, AddAttemptKeeps, EndAttemptKeeps, AddRevisionKeeps, RunMovesKeep
  <1>2. ASSUME NEW q \in CapsuleRequests, Capture(q) \/ CommitExport(q) \/ CommitReplay(q) \/ CommitCompare(q)
        PROVE  CapsuleInv'
    BY <1>2, CaptureKeeps, CommitExportKeeps, CommitReplayKeeps, CommitCompareKeeps
  <1>3. CASE PublishPolicy
    BY <1>3, RunMovesKeep
  <1>4. CASE ReconcileReplay
    BY <1>4, ReconcileReplayKeeps
  <1>5. CASE UNCHANGED capsuleVars
    BY <1>5, RunsRest, RestOfCapsules DEF capsuleVars
  <1> QED BY <1>1, <1>2, <1>3, <1>4, <1>5 DEF CapsuleNext

\* What a capsule is made of, the exports, replays and comparisons pinned to it
\* (ExecutionCapsuleService): whatever the run, its late evidence and the global
\* policy do between a call's capture and its commit, the derived graphs are
\* whole, a replay runs the plan its source ended with, one replay and one
\* manifest are made of the same evidence, and a conclusion of compare that is
\* not marked unavailable is true of the whole histories.
THEOREM CapsuleInvariance == CapsuleSpec => []CapsuleInv
PROOF
  <1>1. CapsuleInit => CapsuleInv
    BY CapsuleInitially
  <1>2. CapsuleInv /\ [CapsuleNext]_capsuleVars => CapsuleInv'
    BY CapsuleStep
  <1> QED BY <1>1, <1>2, PTL DEF CapsuleSpec

-----------------------------------------------------------------------------
(***************************************************************************)
(* The components side by side                                             *)
(***************************************************************************)

\* Each component runs by its own specification, whatever is in focus.
LEMMA ComponentsRun ==
  GovernanceSpec => CoordSpec /\ PlanSpec /\ VerifierSpec /\ PolicySpec /\ ContextSpec /\ ConditionSpec /\ CapsuleSpec
PROOF
  <1>1. GovernanceInit => CoordInit /\ PlanInit /\ VerifierInit /\ PolicyInit /\ ContextInit /\ ConditionInit /\ CapsuleInit
    BY DEF GovernanceInit
  <1>2. ASSUME [GovernanceNext]_governanceVars
        PROVE  /\ [CoordNext]_coordVars /\ [PlanNext]_planVars /\ [VerifierNext]_verifierVars /\ [PolicyNext]_policyVars
               /\ [ContextNext]_contextVars /\ [ConditionNext]_conditionVars /\ [CapsuleNext]_capsuleVars
    <2>1. CASE UNCHANGED governanceVars
      BY <2>1 DEF governanceVars
    <2>2. CASE GovernanceNext
      <3>1. PICK c \in {"coordination", "plan", "batch", "verifier", "policy", "context", "condition", "capsule"} : focus = c
        BY <2>2 DEF GovernanceNext
      <3>2. OthersRest
        BY <2>2 DEF GovernanceNext
      <3>3. [CoordNext]_coordVars /\ [PlanNext]_planVars
        BY <2>2, <3>1, <3>2 DEF GovernanceNext, OthersRest, Frozen
      <3>4. [VerifierNext]_verifierVars /\ [PolicyNext]_policyVars
        BY <2>2, <3>1, <3>2 DEF GovernanceNext, OthersRest, Frozen
      <3>5. [ContextNext]_contextVars /\ [ConditionNext]_conditionVars /\ [CapsuleNext]_capsuleVars
        BY <2>2, <3>1, <3>2 DEF GovernanceNext, OthersRest, Frozen
      <3> QED BY <3>3, <3>4, <3>5
    <2> QED BY <1>2, <2>1, <2>2
  <1> QED BY <1>1, <1>2, PTL DEF GovernanceSpec, CoordSpec, PlanSpec, VerifierSpec, PolicySpec, ContextSpec, ConditionSpec, CapsuleSpec

\* The loop's phases, rows and reconcilers and the capsules of every call keep
\* their types (CoordinationService, ExecutionCapsuleService): no iteration or
\* revision is past its limit.
THEOREM GovernanceTypeOKHolds == GovernanceSpec => []GovernanceTypeOK
PROOF
  <1>1. CapsuleInv => CapsuleTypeOK
    BY CapsuleInvGives
  <1>2. CoordTypeOK /\ CapsuleTypeOK => GovernanceTypeOK
    BY DEF GovernanceTypeOK
  <1> QED BY <1>1, <1>2, ComponentsRun, LoopTypeCorrect, CapsuleInvariance, PTL

\* Every decision can be traced to the records it was taken from: the
\* verifier's omissions, the frozen policy rules, the reader's own state, the
\* rows a condition depends on and the loop's turn.
THEOREM DecisionsFollowRecordsHolds == GovernanceSpec => []DecisionsFollowRecords
PROOF
  <1>1. VerifierInv => FieldOmissionsAreRecorded
    BY DEF VerifierInv
  <1>2. PolicyInv => DecisionsFollowFrozenRules
    BY DEF PolicyInv
  <1>3. ContextInv => EnvelopeIsOwnAndFresh
    BY DEF ContextInv
  <1>4. ConditionInv => DecisionsFollowDependencies
    BY DEF ConditionInv
  <1>5. FieldOmissionsAreRecorded /\ DecisionsFollowFrozenRules /\ EnvelopeIsOwnAndFresh /\ DecisionsFollowDependencies
        /\ LoopIsOrderly => DecisionsFollowRecords
    BY DEF DecisionsFollowRecords
  <1> QED BY <1>1, <1>2, <1>3, <1>4, <1>5, ComponentsRun, VerifierInvariance, PolicyInvariance, ContextInvariance,
             ConditionInvariance, LoopIsOrderlyHolds, PTL

\* A capsule tells what the execution did, for any number of calls that
\* capture and commit while the runs go on (ExecutionCapsuleService).
THEOREM CapsulesAreFaithfulHolds == GovernanceSpec => []CapsulesAreFaithful
PROOF
  <1>1. CapsuleInv => CapsulesAreFaithful
    BY CapsuleInvGives DEF CapsulesAreFaithful
  <1> QED BY <1>1, ComponentsRun, CapsuleInvariance, PTL

\* Nothing that work was already built on is rewritten: claimed steps, frozen
\* policy versions, state another replica wrote and the loop's history.
THEOREM NothingIsRewrittenHolds == GovernanceSpec => NothingIsRewritten
PROOF
  <1> DEFINE Loop == DecisionsAreFinal /\ RunOutcomeIsFinal /\ BatchKeepsItsBase
             State == NoLostUpdate /\ StateChangesAreCounted
             All == /\ ClaimedStepsAreFixed /\ FrozenVersionsStay /\ NoLostUpdate /\ StateChangesAreCounted
                    /\ DecisionsAreFinal /\ RunOutcomeIsFinal /\ BatchKeepsItsBase
  <1>1. PlanInv /\ [PlanNext]_planVars => ClaimedStepsAreFixed
    BY PlanStepKeeps
  <1>2. [FrozenVersionsStay]_policyVars => FrozenVersionsStay
    BY DEF FrozenVersionsStay, policyVars
  <1>3. ContextInv /\ [ContextNext]_contextVars => State
    BY ContextStandsStep
  <1>4. [Loop]_coordVars => Loop
    BY DEF DecisionsAreFinal, RunOutcomeIsFinal, BatchKeepsItsBase, coordVars, runVars
  <1>5. LoopHistoryStands <=> [][Loop]_coordVars
    BY DEF LoopHistoryStands
  <1>6. ClaimedStepsAreFixed /\ FrozenVersionsStay /\ State /\ Loop => All
    OBVIOUS
  <1>7. NothingIsRewritten <=> [][All]_governanceVars
    BY DEF NothingIsRewritten
  <1> HIDE DEF Loop, State, All
  <1>8. GovernanceSpec => []PlanInv /\ [][PlanNext]_planVars /\ []ContextInv /\ [][ContextNext]_contextVars
    BY ComponentsRun, PlanInvariance, ContextInvariance, PTL DEF PlanSpec, ContextSpec
  <1>9. GovernanceSpec => [][FrozenVersionsStay]_policyVars /\ [][Loop]_coordVars
    BY <1>5, ComponentsRun, FrozenVersionsStayHolds, LoopHistoryStandsHolds, PTL
  <1>10. GovernanceSpec => [][All]_governanceVars
    BY <1>1, <1>2, <1>3, <1>4, <1>6, <1>8, <1>9, PTL
  <1> QED BY <1>7, <1>10, PTL

-----------------------------------------------------------------------------
\* Induction, over a set of naturals.
LEMMA NaturalsByStep ==
  ASSUME NEW P, 0 \in P, \A k \in Nat : k \in P => k + 1 \in P
  PROVE  \A k \in Nat : k \in P
PROOF
  <1> DEFINE Bad == {k \in Nat : k \notin P}
  <1> SUFFICES ASSUME Bad # {} PROVE FALSE
    OBVIOUS
  <1>1. PICK m \in Bad : \A y \in Bad : m <= y
    BY LeastNatural
  <1>2. m - 1 \in Nat /\ m - 1 \notin Bad
    BY <1>1
  <1>3. (m - 1) + 1 \in P
    BY <1>2
  <1> QED BY <1>1, <1>3

\* Induction from all smaller naturals.
LEMMA NaturalsByCourse ==
  ASSUME NEW P, \A k \in Nat : (\A j \in Nat : j < k => j \in P) => k \in P
  PROVE  \A k \in Nat : k \in P
PROOF
  <1> DEFINE Bad == {k \in Nat : k \notin P}
  <1> SUFFICES ASSUME Bad # {} PROVE FALSE
    OBVIOUS
  <1>1. PICK m \in Bad : \A y \in Bad : m <= y
    BY LeastNatural
  <1>2. \A j \in Nat : j < m => j \in P
    BY <1>1
  <1> QED BY <1>1, <1>2

-----------------------------------------------------------------------------
(***************************************************************************)
(* Recursive functions.  A function that is defined from its own values at *)
(* arguments of smaller rank exists; what it computes is then read off its *)
(* equation.                                                               *)
(***************************************************************************)

\* A step can be iterated.
Iterates(A, a0, step, T) == T \in [Nat -> A] /\ T[0] = a0 /\ \A k \in Nat : T[k + 1] = step[T[k]]

\* Iterating a function gives a sequence: the recursion on naturals.
LEMMA IteratesExist ==
  ASSUME NEW A, NEW a0, NEW step, a0 \in A, step \in [A -> A]
  PROVE  \E T : Iterates(A, a0, step, T)
PROOF
  <1> DEFINE Upto(n, g) == g \in [0 .. n -> A] /\ g[0] = a0 /\ \A k \in 0 .. n - 1 : g[k + 1] = step[g[k]]
             Bad == {n \in Nat : ~ \E g : Upto(n, g)}
  <1>1. Bad = {}
    <2> SUFFICES ASSUME Bad # {} PROVE FALSE
      OBVIOUS
    <2>1. PICK m \in Bad : \A y \in Bad : m <= y
      BY LeastNatural
    <2>2. m # 0
      <3> DEFINE g == [n \in 0 .. 0 |-> a0]
      <3>1. Upto(0, g)
        OBVIOUS
      <3> QED BY <3>1
    <2>3. m - 1 \in Nat /\ m - 1 \notin Bad
      BY <2>1, <2>2
    <2>4. PICK g : Upto(m - 1, g)
      BY <2>3
    <2> DEFINE h == [n \in 0 .. m |-> IF n < m THEN g[n] ELSE step[g[m - 1]]]
    <2>5. g[m - 1] \in A /\ \A n \in 0 .. m - 1 : g[n] \in A
      BY <2>3, <2>4
    <2>6. h \in [0 .. m -> A] /\ h[0] = a0
      BY <2>2, <2>3, <2>4, <2>5
    <2>7. ASSUME NEW k \in 0 .. m - 1 PROVE h[k + 1] = step[h[k]]
      <3>1. CASE k = m - 1
        BY <2>3, <3>1
      <3>2. CASE k # m - 1
        BY <2>3, <2>4, <3>2
      <3> QED BY <3>1, <3>2
    <2>8. Upto(m, h)
      BY <2>6, <2>7
    <2> QED BY <2>1, <2>8
  <1>2. \A n \in Nat : \E g : Upto(n, g)
    BY <1>1
  <1> DEFINE G == [n \in Nat |-> CHOOSE g : Upto(n, g)]
  <1>3. \A n \in Nat : Upto(n, G[n])
    BY <1>2
  <1> HIDE DEF G
  <1> DEFINE Agrees(n, k) == k <= n => G[n][k] = G[k][k]
             Off == {k \in Nat : ~ \A n \in Nat : Agrees(n, k)}
  <1>4. Off = {}
    <2> SUFFICES ASSUME Off # {} PROVE FALSE
      OBVIOUS
    <2>1. PICK m \in Off : \A y \in Off : m <= y
      BY LeastNatural
    <2>2. PICK n \in Nat : ~Agrees(n, m)
      BY <2>1
    <2>3. m <= n /\ G[n][m] # G[m][m] /\ m \in Nat
      BY <2>1, <2>2
    <2>4. m # 0
      BY <1>3, <2>3
    <2>5. m - 1 \in Nat /\ m - 1 \notin Off
      BY <2>1, <2>4
    <2>6. Agrees(n, m - 1) /\ Agrees(m, m - 1)
      BY <2>3, <2>5
    <2>7. G[n][m] = step[G[n][m - 1]] /\ G[m][m] = step[G[m][m - 1]]
      BY <1>3, <2>3, <2>4, <2>5
    <2> QED BY <2>3, <2>6, <2>7
  <1> DEFINE T == [n \in Nat |-> G[n][n]]
  <1>5. T \in [Nat -> A] /\ T[0] = a0
    BY <1>3
  <1>6. ASSUME NEW k \in Nat PROVE T[k + 1] = step[T[k]]
    <2>1. G[k + 1][k + 1] = step[G[k + 1][k]]
      BY <1>3
    <2>2. Agrees(k + 1, k)
      BY <1>4
    <2> QED BY <2>1, <2>2
  <1> QED BY <1>5, <1>6 DEF Iterates

\* The functions on D whose values are among those W allows.
Within(D, V, W) == {f \in [D -> V] : \A x \in D : f[x] \in W[x]}

\* A value depends on the values at smaller ranks only.
Ranked(F, D, rank, E) ==
  \A f, g \in F : \A x \in D : (\A y \in D : rank[y] < rank[x] => f[y] = g[y]) => E[f][x] = E[g][x]

\* A function is determined by an equation that asks only for values of smaller
\* rank: iterating the equation settles each value after as many rounds as its
\* rank.  This is what makes the recursive walks of the rules functions.
LEMMA FixpointExists ==
  ASSUME NEW D, NEW V, NEW W, NEW F, F = Within(D, V, W), NEW rank, rank \in [D -> Nat], NEW f0, f0 \in F,
         NEW E, E \in [F -> F], Ranked(F, D, rank, E)
  PROVE  \E f : f \in F /\ E[f] = f
PROOF
  <1>0. f0 \in F /\ E \in [F -> F]
    OBVIOUS
  <1>1. PICK T : Iterates(F, f0, E, T)
    <2> QED BY <1>0, IteratesExist, Zenon
  <1>2. \A f \in F : f \in [D -> V] /\ \A x \in D : f[x] \in V /\ f[x] \in W[x]
    BY DEF Within
  <1>3. \A f \in [D -> V] : (\A x \in D : f[x] \in W[x]) => f \in F
    BY DEF Within
  <1>4. \A f, g \in F : \A x \in D : (\A y \in D : rank[y] < rank[x] => f[y] = g[y]) => E[f][x] = E[g][x]
    BY DEF Ranked
  <1>5. E \in [F -> F]
    OBVIOUS
  <1>11. T \in [Nat -> F] /\ \A k \in Nat : T[k] \in F /\ T[k + 1] = E[T[k]]
    BY <1>1 DEF Iterates
  <1> DEFINE Settled(k) == \A x \in D : rank[x] < k => T[k][x] = T[k + 1][x]
             Bad == {k \in Nat : ~Settled(k)}
  <1>6. Bad = {}
    <2> SUFFICES ASSUME Bad # {} PROVE FALSE
      OBVIOUS
    <2>1. PICK m \in Bad : \A y \in Bad : m <= y
      BY LeastNatural
    <2>2. PICK x \in D : rank[x] < m /\ T[m][x] # T[m + 1][x]
      BY <2>1
    <2>3. m - 1 \in Nat /\ m - 1 \notin Bad /\ (m - 1) + 1 = m /\ m \in Nat
      BY <2>1, <2>2
    <2>4. \A y \in D : rank[y] < rank[x] => T[m - 1][y] = T[m][y]
      <3>1. Settled(m - 1)
        BY <2>3
      <3> QED BY <2>2, <2>3, <3>1
    <2>5. T[m] = E[T[m - 1]] /\ T[m + 1] = E[T[m]] /\ T[m - 1] \in F /\ T[m] \in F
      BY <1>11, <2>3
    <2>6. E[T[m - 1]][x] = E[T[m]][x]
      BY <1>4, <2>4, <2>5
    <2> QED BY <2>2, <2>5, <2>6
  <1> DEFINE Stays(k) == \A x \in D : rank[x] < k => T[k][x] = T[rank[x] + 1][x]
             Moved == {k \in Nat : ~Stays(k)}
  <1>7. Moved = {}
    <2> SUFFICES ASSUME Moved # {} PROVE FALSE
      OBVIOUS
    <2>1. PICK m \in Moved : \A y \in Moved : m <= y
      BY LeastNatural
    <2>2. PICK x \in D : rank[x] < m /\ T[m][x] # T[rank[x] + 1][x]
      BY <2>1
    <2>6. m \in Nat /\ rank[x] \in Nat /\ m # rank[x] + 1
      BY <2>1, <2>2
    <2>3. m - 1 \in Nat /\ m - 1 \notin Moved /\ (m - 1) + 1 = m /\ rank[x] < m - 1
      BY <2>1, <2>2, <2>6
    <2>4. T[m - 1][x] = T[rank[x] + 1][x]
      <3>1. Stays(m - 1)
        BY <2>3
      <3> QED BY <2>3, <3>1
    <2>5. T[m - 1][x] = T[m][x]
      <3>1. Settled(m - 1)
        BY <1>6, <2>3
      <3> QED BY <2>3, <3>1
    <2> QED BY <2>2, <2>4, <2>5
  <1> DEFINE f == [x \in D |-> T[rank[x] + 1][x]]
  <1>8. f \in F
    <2>1. \A x \in D : T[rank[x] + 1] \in F
      BY <1>11
    <2>2. \A x \in D : f[x] \in V /\ f[x] \in W[x]
      BY <1>2, <2>1
    <2> QED BY <1>3, <2>2
  <1>9. ASSUME NEW x \in D PROVE E[f][x] = f[x]
    <2>1. rank[x] \in Nat /\ T[rank[x]] \in F
      BY <1>11
    <2>2. \A y \in D : rank[y] < rank[x] => f[y] = T[rank[x]][y]
      <3>1. Stays(rank[x])
        BY <1>7, <2>1
      <3> QED BY <3>1
    <2>3. E[f][x] = E[T[rank[x]]][x]
      <3> HIDE DEF f
      <3> QED BY <1>4, <1>8, <2>1, <2>2
    <2> QED BY <1>11, <2>1, <2>3
  <1>10. E[f] = f
    <2>1. E[f] \in [D -> V] /\ f \in [D -> V]
      BY <1>2, <1>5, <1>8
    <2> HIDE DEF f
    <2> QED BY <1>9, <2>1
  <1> QED BY <1>8, <1>10

-----------------------------------------------------------------------------
(***************************************************************************)
(* Walks in a finite graph: N the nodes, S the successors of each, and     *)
(* T[k][a] the ends of the walks of k edges from a.                        *)
(***************************************************************************)
WalkSets(N, S, T) ==
  /\ S \in [N -> SUBSET N]
  /\ T \in [Nat -> [N -> SUBSET N]]
  /\ \A a \in N : T[0][a] = {a}
  /\ \A k \in Nat : \A a, x \in N : x \in T[k + 1][a] <=> \E c \in T[k][a] : x \in S[c]

\* The ends of walks, by iteration.
LEMMA WalksExist ==
  ASSUME NEW N, NEW S \in [N -> SUBSET N]
  PROVE  \E T : WalkSets(N, S, T)
PROOF
  <1> DEFINE A == [N -> SUBSET N]
             a0 == [a \in N |-> {a}]
             next(t) == [a \in N |-> {x \in N : \E c \in t[a] : x \in S[c]}]
             step == [t \in A |-> next(t)]
  <1>1. a0 \in A /\ step \in [A -> A]
    OBVIOUS
  <1>2. \A t \in A : step[t] = next(t)
    OBVIOUS
  <1> HIDE DEF step
  <1>3. PICK T : Iterates(A, a0, step, T)
    <2> HIDE DEF A, a0
    <2> QED BY <1>1, IteratesExist, Zenon
  <1>4. T \in [Nat -> A] /\ T[0] = a0 /\ \A k \in Nat : T[k] \in A /\ T[k + 1] = next(T[k])
    <2> HIDE DEF A, next, a0
    <2> QED BY <1>2, <1>3 DEF Iterates
  <1>5. ASSUME NEW k \in Nat, NEW a \in N, NEW x \in N
        PROVE  x \in T[k + 1][a] <=> \E c \in T[k][a] : x \in S[c]
    <2>1. T[k + 1] = next(T[k])
      BY <1>4
    <2>2. T[k + 1][a] = {y \in N : \E c \in T[k][a] : y \in S[c]}
      BY <2>1
    <2> QED BY <2>2
  <1>6. \A a \in N : T[0][a] = {a}
    BY <1>4
  <1> QED BY <1>4, <1>5, <1>6 DEF WalkSets

\* A walk begins with an edge.
FirstEdges(N, S, T) == \A k \in Nat : \A a, x \in N : x \in T[k + 1][a] <=> \E d \in S[a] : x \in T[k][d]

\* The first edge of a walk, by induction on its length.
LEMMA WalkFirst ==
  ASSUME NEW N, NEW S, NEW T, WalkSets(N, S, T)
  PROVE  FirstEdges(N, S, T)
PROOF
  <1> DEFINE P == {k \in Nat : \A a, x \in N : x \in T[k + 1][a] <=> \E d \in S[a] : x \in T[k][d]}
  <1>1. \A a \in N : S[a] \subseteq N /\ T[0][a] = {a} /\ \A k \in Nat : T[k][a] \subseteq N
    BY DEF WalkSets
  <1>2. \A k \in Nat : \A a, x \in N : x \in T[k + 1][a] <=> \E c \in T[k][a] : x \in S[c]
    BY DEF WalkSets
  <1>3. 0 \in P
    <2> SUFFICES ASSUME NEW a \in N, NEW x \in N PROVE x \in T[0 + 1][a] <=> \E d \in S[a] : x \in T[0][d]
      OBVIOUS
    <2>1. x \in T[0 + 1][a] <=> \E c \in T[0][a] : x \in S[c]
      BY <1>2
    <2>2. x \in T[0 + 1][a] <=> x \in S[a]
      BY <1>1, <2>1
    <2>3. (\E d \in S[a] : x \in T[0][d]) <=> x \in S[a]
      BY <1>1
    <2> QED BY <2>2, <2>3
  <1>4. ASSUME NEW k \in Nat, k \in P PROVE k + 1 \in P
    <2> SUFFICES ASSUME NEW a \in N, NEW x \in N
                 PROVE  x \in T[k + 1 + 1][a] <=> \E d \in S[a] : x \in T[k + 1][d]
      OBVIOUS
    <2>1. x \in T[k + 1 + 1][a] <=> \E c \in T[k + 1][a] : x \in S[c]
      BY <1>2
    <2>2. \A c \in N : c \in T[k + 1][a] <=> \E d \in S[a] : c \in T[k][d]
      BY <1>4
    <2>3. \A d \in S[a] : x \in T[k + 1][d] <=> \E c \in T[k][d] : x \in S[c]
      BY <1>1, <1>2
    <2>4. T[k + 1][a] \subseteq N /\ \A d \in S[a] : T[k][d] \subseteq N
      BY <1>1
    <2> QED BY <2>1, <2>2, <2>3, <2>4
  <1> HIDE DEF P
  <1>5. \A k \in Nat : k \in P
    BY <1>3, <1>4, NaturalsByStep
  <1> QED BY <1>5 DEF P, FirstEdges

\* Where walks have stopped, longer ones have.
LEMMA WalksStop ==
  ASSUME NEW N, NEW S, NEW T, WalkSets(N, S, T), NEW a \in N, NEW m \in Nat, T[m][a] = {}, NEW n \in Nat, m <= n
  PROVE  T[n][a] = {}
PROOF
  <1> DEFINE P == {k \in Nat : T[m + k][a] = {}}
  <1>1. ASSUME NEW k \in Nat, T[k][a] = {} PROVE T[k + 1][a] = {}
    <2>1. T[k + 1] \in [N -> SUBSET N]
      BY DEF WalkSets
    <2>2. T[k + 1][a] \subseteq N
      BY <2>1
    <2>3. \A x \in N : x \in T[k + 1][a] <=> \E c \in T[k][a] : x \in S[c]
      BY DEF WalkSets
    <2> QED BY <1>1, <2>2, <2>3
  <1>2. 0 \in P
    OBVIOUS
  <1>3. ASSUME NEW k \in Nat, k \in P PROVE k + 1 \in P
    <2>1. m + k \in Nat /\ T[m + k][a] = {} /\ m + (k + 1) = (m + k) + 1
      BY <1>3
    <2> QED BY <1>1, <2>1
  <1> HIDE DEF P
  <1>4. \A k \in Nat : k \in P
    BY <1>2, <1>3, NaturalsByStep
  <1>5. n - m \in Nat /\ m + (n - m) = n
    OBVIOUS
  <1> QED BY <1>4, <1>5 DEF P

\* A set that is closed under edges keeps the walks.
LEMMA WalksStayInside ==
  ASSUME NEW N, NEW S, NEW T, WalkSets(N, S, T), NEW a \in N, NEW C, S[a] \subseteq C, \A c \in C \cap N : S[c] \subseteq C
  PROVE  \A k \in Nat : T[k + 1][a] \subseteq C
PROOF
  <1> DEFINE P == {k \in Nat : T[k + 1][a] \subseteq C}
  <1>1. \A k \in Nat : T[k][a] \subseteq N
    BY DEF WalkSets
  <1>2. \A k \in Nat : \A x \in N : x \in T[k + 1][a] <=> \E c \in T[k][a] : x \in S[c]
    BY DEF WalkSets
  <1>3. T[0][a] = {a}
    BY DEF WalkSets
  <1>4. 0 \in P
    <2>1. T[0 + 1][a] \subseteq N
      BY <1>1
    <2>2. \A x \in N : x \in T[0 + 1][a] <=> \E c \in T[0][a] : x \in S[c]
      BY <1>2
    <2> QED BY <1>3, <2>1, <2>2
  <1>5. ASSUME NEW k \in Nat, k \in P PROVE k + 1 \in P
    <2>1. T[k + 1 + 1][a] \subseteq N /\ T[k + 1][a] \subseteq C \cap N
      BY <1>1, <1>5
    <2>2. \A x \in N : x \in T[k + 1 + 1][a] <=> \E c \in T[k + 1][a] : x \in S[c]
      BY <1>2
    <2> QED BY <2>1, <2>2
  <1> HIDE DEF P
  <1>6. \A k \in Nat : k \in P
    BY <1>4, <1>5, NaturalsByStep
  <1> QED BY <1>6 DEF P

\* As many edges as there are nodes reach everything.
LEMMA WalksAreShort ==
  ASSUME NEW N, NEW S, NEW T, WalkSets(N, S, T), IsFiniteSet(N), NEW a \in N
  PROVE  \A k \in Nat : \A x \in T[k + 1][a] : \E n \in 1 .. Cardinality(N) : x \in T[n][a]
PROOF
  <1> DEFINE c == Cardinality(N)
             U(j) == UNION {T[n][a] : n \in 1 .. j}
  <1>1. c \in Nat /\ c # 0
    BY FS_CardinalityType, FS_EmptySet
  <1>2. \A k \in Nat : T[k][a] \subseteq N
    BY DEF WalkSets
  <1>3. \A k \in Nat : \A x \in N : x \in T[k + 1][a] <=> \E d \in T[k][a] : x \in S[d]
    BY DEF WalkSets
  <1>4. \A d \in N : S[d] \subseteq N
    BY DEF WalkSets
  <1> HIDE DEF c
  <1>5. \A j \in Nat : U(j) \subseteq N /\ IsFiniteSet(U(j)) /\ Cardinality(U(j)) \in Nat /\ Cardinality(U(j)) <= c
    <2> TAKE j \in Nat
    <2>1. U(j) \subseteq N
      BY <1>2
    <2> HIDE DEF U
    <2> QED BY <2>1, FS_Subset, FS_CardinalityType DEF c
  <1>6. \A j \in Nat : U(j + 1) = U(j) \cup T[j + 1][a]
    <2> TAKE j \in Nat
    <2>1. \A n : n \in 1 .. j + 1 <=> n \in 1 .. j \/ n = j + 1
      OBVIOUS
    <2> QED BY <2>1
  <1>7. \E j \in 1 .. c : T[j + 1][a] \subseteq U(j)
    <2> SUFFICES ASSUME \A j \in 1 .. c : ~(T[j + 1][a] \subseteq U(j)) PROVE FALSE
      OBVIOUS
    <2> HIDE DEF U
    <2> DEFINE P == {j \in Nat : j <= c => Cardinality(U(j + 1)) > j}
    <2>1. \A j \in 1 .. c : Cardinality(U(j + 1)) > Cardinality(U(j))
      <3> TAKE j \in 1 .. c
      <3>1. U(j) \subseteq U(j + 1) /\ U(j) # U(j + 1)
        BY <1>1, <1>6
      <3>2. IsFiniteSet(U(j + 1)) /\ Cardinality(U(j + 1)) \in Nat /\ Cardinality(U(j)) \in Nat
        BY <1>1, <1>5
      <3>3. Cardinality(U(j)) <= Cardinality(U(j + 1)) /\ (Cardinality(U(j + 1)) = Cardinality(U(j)) => U(j + 1) = U(j))
        BY <3>1, <3>2, FS_Subset
      <3> QED BY <3>1, <3>2, <3>3
    <2>2. 0 \in P
      <3>1. U(0 + 1) # {}
        <4>1. 1 \in 1 .. c /\ ~(T[1 + 1][a] \subseteq U(1))
          BY <1>1
        <4>2. PICK x \in T[1 + 1][a] : x \notin U(1)
          BY <4>1
        <4>3. x \in N
          BY <1>2, <4>2
        <4>4. PICK d \in T[1][a] : x \in S[d]
          BY <1>3, <4>2, <4>3
        <4>5. U(0 + 1) = U(0) \cup T[0 + 1][a]
          BY <1>6
        <4> QED BY <4>4, <4>5
      <3>2. IsFiniteSet(U(0 + 1)) /\ Cardinality(U(0 + 1)) \in Nat
        BY <1>5
      <3>3. Cardinality(U(0 + 1)) # 0
        BY <3>1, <3>2, FS_EmptySet
      <3> QED BY <3>2, <3>3
    <2>3. ASSUME NEW j \in Nat, j \in P PROVE j + 1 \in P
      <3> SUFFICES ASSUME j + 1 <= c PROVE Cardinality(U(j + 1 + 1)) > j + 1
        OBVIOUS
      <3>1. Cardinality(U(j + 1)) > j /\ j + 1 \in 1 .. c
        BY <1>1, <2>3
      <3>2. Cardinality(U(j + 1 + 1)) > Cardinality(U(j + 1))
        BY <2>1, <3>1
      <3>3. Cardinality(U(j + 1 + 1)) \in Nat /\ Cardinality(U(j + 1)) \in Nat
        BY <1>5
      <3> QED BY <3>1, <3>2, <3>3
    <2> HIDE DEF P
    <2>4. c \in P
      BY <1>1, <2>2, <2>3, NaturalsByStep
    <2>5. Cardinality(U(c + 1)) > c /\ Cardinality(U(c + 1)) \in Nat /\ Cardinality(U(c + 1)) <= c
      BY <1>1, <1>5, <2>4 DEF P
    <2> QED BY <1>1, <2>5
  <1>8. PICK j \in 1 .. c : T[j + 1][a] \subseteq U(j)
    BY <1>7
  <1>9. S[a] \subseteq U(j)
    <2>1. \A x \in N : x \in T[0 + 1][a] <=> \E d \in T[0][a] : x \in S[d]
      BY <1>3
    <2>2. T[0][a] = {a}
      BY DEF WalkSets
    <2>3. 1 \in 1 .. j
      BY <1>1, <1>8
    <2>4. S[a] \subseteq T[1][a]
      BY <1>4, <2>1, <2>2
    <2> QED BY <2>3, <2>4
  <1>10. \A d \in U(j) \cap N : S[d] \subseteq U(j)
    <2> TAKE d \in U(j) \cap N
    <2>1. PICK n \in 1 .. j : d \in T[n][a]
      OBVIOUS
    <2>2. S[d] \subseteq T[n + 1][a]
      BY <1>1, <1>3, <1>4, <2>1
    <2>3. n + 1 \in 1 .. j \/ n = j
      BY <1>1, <2>1
    <2> QED BY <1>8, <2>2, <2>3
  <1> HIDE DEF U
  <1>11. \A k \in Nat : T[k + 1][a] \subseteq U(j)
    BY <1>9, <1>10, WalksStayInside
  <1>12. 1 .. j \subseteq 1 .. c
    BY <1>1
  <1> QED BY <1>11, <1>12 DEF U, c

\* Finitely many naturals have a bound, and then a greatest one.
LEMMA BoundExists ==
  ASSUME NEW n \in Nat, NEW h \in [1 .. n -> Nat]
  PROVE  \E K \in Nat : \A i \in 1 .. n : h[i] < K
PROOF
  <1> DEFINE P == {m \in Nat : m <= n => \E K \in Nat : \A i \in 1 .. m : h[i] < K}
  <1>1. 0 \in P
    OBVIOUS
  <1>2. ASSUME NEW m \in Nat, m \in P PROVE m + 1 \in P
    <2> SUFFICES ASSUME m + 1 <= n PROVE \E K \in Nat : \A i \in 1 .. m + 1 : h[i] < K
      OBVIOUS
    <2>1. PICK K \in Nat : \A i \in 1 .. m : h[i] < K
      BY <1>2
    <2>2. h[m + 1] \in Nat /\ \A i \in 1 .. m + 1 : h[i] \in Nat /\ (i \in 1 .. m \/ i = m + 1)
      OBVIOUS
    <2>3. K + h[m + 1] + 1 \in Nat /\ \A i \in 1 .. m + 1 : h[i] < K + h[m + 1] + 1
      BY <2>1, <2>2
    <2> QED BY <2>3
  <1> HIDE DEF P
  <1>3. n \in P
    BY <1>1, <1>2, NaturalsByStep
  <1> QED BY <1>3 DEF P

\* Max of a finite, non-empty set of naturals.
LEMMA MaxIsGreatest ==
  ASSUME NEW S, S \subseteq Nat, S # {}, NEW K \in Nat, \A y \in S : y < K
  PROVE  Max(S) \in S /\ \A y \in S : y <= Max(S)
PROOF
  <1> DEFINE R == {r \in Nat : K - r \in S}
  <1>1. R # {}
    <2>1. PICK y \in S : TRUE
      OBVIOUS
    <2>2. K - y \in Nat /\ K - (K - y) = y
      BY <2>1
    <2>3. K - y \in R
      BY <2>1, <2>2
    <2> QED BY <2>3
  <1>2. PICK m \in R : \A y \in R : m <= y
    BY <1>1, LeastNatural
  <1> DEFINE x == K - m
  <1>3. x \in S
    BY <1>2
  <1>4. ASSUME NEW y \in S PROVE x >= y
    <2>1. K - y \in Nat /\ K - (K - y) = y /\ y \in Nat /\ m \in Nat
      OBVIOUS
    <2>2. K - y \in R
      BY <2>1
    <2>3. m <= K - y
      BY <1>2, <2>2
    <2> QED BY <2>1, <2>3
  <1>5. \E z \in S : \A y \in S : z >= y
    BY <1>3, <1>4
  <1>6. Max(S) \in S /\ \A y \in S : Max(S) >= y
    BY <1>5 DEF Max
  <1> QED BY <1>6

-----------------------------------------------------------------------------
(***************************************************************************)
(* The depth walk                                                          *)
(***************************************************************************)
\* The depths below a step, with f for the calls the walk makes.
Below(next, f, id, visiting) == {f[<<d, visiting \cup {id}>>] : d \in ToSet(next[id])}

\* One call of the depth walk.
DepthAt(next, f, at) ==
  IF at[1] \in at[2] \/ 0 \in Below(next, f, at[1], at[2]) THEN 0
  ELSE 1 + Max(Below(next, f, at[1], at[2]) \cup {0})

\* What the walk compares is a finite set of depths, with a greatest one.
LEMMA BelowIs ==
  ASSUME NEW N, NEW next \in [N -> Seq(N)], NEW f, NEW id \in N, NEW v \in SUBSET N,
         \A d \in N : f[<<d, v \cup {id}>>] \in Nat
  PROVE  LET B == Below(next, f, id, v) IN
         /\ B \subseteq Nat /\ Max(B \cup {0}) \in Nat /\ Max(B \cup {0}) \in B \cup {0}
         /\ \A y \in B : y <= Max(B \cup {0})
PROOF
  <1> DEFINE B == Below(next, f, id, v)
             n == Len(next[id])
             h == [i \in 1 .. n |-> f[<<next[id][i], v \cup {id}>>]]
  <1>1. n \in Nat /\ DOMAIN next[id] = 1 .. n /\ \A i \in 1 .. n : next[id][i] \in N
    <2>1. next[id] \in Seq(N)
      OBVIOUS
    <2> QED BY <2>1, LenProperties, ElementOfSeq
  <1>2. h \in [1 .. n -> Nat]
    BY <1>1
  <1>3. \A y \in B : \E i \in 1 .. n : y = h[i]
    BY <1>1 DEF Below, ToSet
  <1>4. PICK K \in Nat : \A i \in 1 .. n : h[i] < K
    <2> HIDE DEF h, n
    <2> QED BY <1>1, <1>2, BoundExists
  <1>5. B \subseteq Nat /\ \A y \in B : y < K
    <2> HIDE DEF h, n, B
    <2> QED BY <1>2, <1>3, <1>4
  <1> HIDE DEF B
  <1>6. B \cup {0} \subseteq Nat /\ B \cup {0} # {} /\ \A y \in B \cup {0} : y < K + 1
    BY <1>5
  <1>7. Max(B \cup {0}) \in B \cup {0} /\ \A y \in B \cup {0} : y <= Max(B \cup {0})
    <2> DEFINE M == B \cup {0}
               k == K + 1
    <2>1. M \subseteq Nat /\ M # {} /\ k \in Nat /\ \A y \in M : y < k
      BY <1>6
    <2> HIDE DEF M, k
    <2>2. Max(M) \in M /\ \A y \in M : y <= Max(M)
      BY <2>1, MaxIsGreatest
    <2> QED BY <2>2 DEF M
  <1> QED BY <1>6, <1>7 DEF B

\* One set smaller.
LEMMA FewerLeft ==
  ASSUME NEW N, IsFiniteSet(N), NEW v \in SUBSET N, NEW w \in SUBSET N, NEW x \in N, x \notin v, v \cup {x} \subseteq w
  PROVE  /\ Cardinality(N \ v) \in Nat /\ Cardinality(N \ w) \in Nat
         /\ Cardinality(N \ w) < Cardinality(N \ v)
PROOF
  <1>1. IsFiniteSet(N \ v)
    BY FS_Difference
  <1>2. N \ w \in SUBSET (N \ v) /\ N \ w # N \ v
    OBVIOUS
  <1>3. Cardinality(N \ w) <= Cardinality(N \ v) /\ Cardinality(N \ v) # Cardinality(N \ w) /\ IsFiniteSet(N \ w)
    BY <1>1, <1>2, FS_Subset
  <1> QED BY <1>1, <1>3, FS_CardinalityType

\* A function that satisfies the walk's equation.
DepthWalk(N, next, g) == g = [at \in N \X SUBSET N |-> DepthAt(next, g, at)]

\* The walk is defined: a step being visited is never visited again.
LEMMA DepthExists ==
  ASSUME NEW N, IsFiniteSet(N), NEW next \in [N -> Seq(N)]
  PROVE  \E g : DepthWalk(N, next, g)
PROOF
  <1> DEFINE D == N \X SUBSET N
             W == [at \in D |-> Nat]
             F == Within(D, Nat, W)
             rank == [at \in D |-> Cardinality(N \ at[2])]
             f0 == [at \in D |-> 0]
             E == [f \in F |-> [at \in D |-> DepthAt(next, f, at)]]
  <1>1. F = [D -> Nat]
    BY DEF Within
  <1>2. rank \in [D -> Nat]
    BY FS_Difference, FS_CardinalityType
  <1>3. f0 \in F
    BY <1>1
  <1>4. ASSUME NEW f \in F, NEW at \in D PROVE DepthAt(next, f, at) \in Nat
    <2>1. at[1] \in N /\ at[2] \in SUBSET N
      OBVIOUS
    <2>2. \A d \in N : f[<<d, at[2] \cup {at[1]}>>] \in Nat
      BY <1>1, <2>1
    <2>3. Max(Below(next, f, at[1], at[2]) \cup {0}) \in Nat
      BY <2>1, <2>2, BelowIs
    <2> QED BY <2>3 DEF DepthAt
  <1>5. E \in [F -> F]
    BY <1>1, <1>4
  <1>6. ASSUME NEW f \in F, NEW g \in F, NEW at \in D, \A y \in D : rank[y] < rank[at] => f[y] = g[y]
        PROVE  DepthAt(next, f, at) = DepthAt(next, g, at)
    <2>1. at[1] \in N /\ at[2] \in SUBSET N
      OBVIOUS
    <2>2. CASE at[1] \in at[2]
      BY <2>2 DEF DepthAt
    <2>3. CASE at[1] \notin at[2]
      <3> DEFINE w == at[2] \cup {at[1]}
      <3>1. Cardinality(N \ w) < Cardinality(N \ at[2])
        BY <2>1, <2>3, FewerLeft
      <3>2. \A d \in N : <<d, w>> \in D /\ rank[<<d, w>>] = Cardinality(N \ w) /\ rank[at] = Cardinality(N \ at[2])
        BY <2>1
      <3>3. \A d \in N : f[<<d, w>>] = g[<<d, w>>]
        BY <1>6, <3>1, <3>2
      <3>4. ToSet(next[at[1]]) \subseteq N
        <4>1. next[at[1]] \in Seq(N)
          BY <2>1
        <4> QED BY <4>1, LenProperties, ElementOfSeq DEF ToSet
      <3>5. Below(next, f, at[1], at[2]) = Below(next, g, at[1], at[2])
        BY <3>3, <3>4 DEF Below
      <3> QED BY <3>5 DEF DepthAt
    <2> QED BY <2>2, <2>3
  <1>7. \A f \in F : E[f] = [at \in D |-> DepthAt(next, f, at)]
    OBVIOUS
  <1>8. Ranked(F, D, rank, E)
    <2> SUFFICES ASSUME NEW f \in F, NEW g \in F, NEW x \in D, \A y \in D : rank[y] < rank[x] => f[y] = g[y]
                 PROVE  E[f][x] = E[g][x]
      BY DEF Ranked
    <2>1. DepthAt(next, f, x) = DepthAt(next, g, x)
      BY <1>6
    <2>2. E[f][x] = DepthAt(next, f, x) /\ E[g][x] = DepthAt(next, g, x)
      BY <1>7
    <2> QED BY <2>1, <2>2
  <1>9. PICK f \in F : E[f] = f
    <2>1. F = Within(D, Nat, W)
      OBVIOUS
    <2> HIDE DEF W, rank, f0, E, D, F
    <2>2. \E f : f \in F /\ E[f] = f
      BY <1>2, <1>3, <1>5, <1>8, <2>1, FixpointExists
    <2> QED BY <2>2
  <1> QED BY <1>7, <1>9 DEF DepthWalk

\* Its values are naturals, 0 among them.
LEMMA DepthTyped ==
  ASSUME NEW N, IsFiniteSet(N), NEW next \in [N -> Seq(N)], NEW g, DepthWalk(N, next, g)
  PROVE  \A id \in N, v \in SUBSET N : g[<<id, v>>] \in Nat
PROOF
  <1> DEFINE P == {k \in Nat : \A id \in N, v \in SUBSET N : Cardinality(N \ v) = k => g[<<id, v>>] \in Nat}
  <1>1. \A id \in N, v \in SUBSET N : g[<<id, v>>] = DepthAt(next, g, <<id, v>>)
    BY DEF DepthWalk
  <1>2. ASSUME NEW k \in Nat, \A j \in Nat : j < k => j \in P PROVE k \in P
    <2> SUFFICES ASSUME NEW id \in N, NEW v \in SUBSET N, Cardinality(N \ v) = k PROVE g[<<id, v>>] \in Nat
      OBVIOUS
    <2>1. CASE id \in v
      <3>1. DepthAt(next, g, <<id, v>>) = 0
        BY <2>1 DEF DepthAt
      <3> QED BY <1>1, <3>1
    <2>2. CASE id \notin v
      <3> DEFINE w == v \cup {id}
      <3>1. Cardinality(N \ w) < k /\ Cardinality(N \ w) \in Nat /\ w \in SUBSET N
        BY <2>2, FewerLeft
      <3>2. \A d \in N : g[<<d, w>>] \in Nat
        BY <1>2, <3>1
      <3>3. Max(Below(next, g, id, v) \cup {0}) \in Nat
        BY <3>2, BelowIs
      <3> QED BY <1>1, <3>3 DEF DepthAt
    <2> QED BY <2>1, <2>2
  <1> HIDE DEF P
  <1>3. \A k \in Nat : k \in P
    BY <1>2, NaturalsByCourse
  <1>4. \A v \in SUBSET N : Cardinality(N \ v) \in Nat
    BY FS_Difference, FS_CardinalityType
  <1> QED BY <1>3, <1>4 DEF P

\* The value of the walk, in terms of the values below.
LEMMA DepthValue ==
  ASSUME NEW N, IsFiniteSet(N), NEW next \in [N -> Seq(N)], NEW g, DepthWalk(N, next, g),
         NEW id \in N, NEW v \in SUBSET N
  PROVE  /\ g[<<id, v>>] # 0 =>
              /\ id \notin v
              /\ \A d \in ToSet(next[id]) : g[<<d, v \cup {id}>>] \in 1 .. g[<<id, v>>] - 1
         /\ \A k \in Nat :
              id \notin v /\ (\A d \in ToSet(next[id]) : g[<<d, v \cup {id}>>] \in 1 .. k) => g[<<id, v>>] \in 1 .. k + 1
PROOF
  <1> DEFINE w == v \cup {id}
             B == Below(next, g, id, v)
             m == Max(B \cup {0})
  <1>1. \A d \in N : g[<<d, w>>] \in Nat
    BY DepthTyped
  <1>2. B \subseteq Nat /\ m \in Nat /\ m \in B \cup {0} /\ \A y \in B : y <= m
    BY <1>1, BelowIs
  <1>3. g[<<id, v>>] = IF id \in v \/ 0 \in B THEN 0 ELSE 1 + m
    BY DEF DepthWalk, DepthAt
  <1>4. \A y : y \in B <=> \E d \in ToSet(next[id]) : y = g[<<d, w>>]
    BY DEF Below
  <1> HIDE DEF B, m, w
  <1>5. ASSUME g[<<id, v>>] # 0
        PROVE  id \notin v /\ \A d \in ToSet(next[id]) : g[<<d, w>>] \in 1 .. g[<<id, v>>] - 1
    <2>1. id \notin v /\ 0 \notin B /\ g[<<id, v>>] = 1 + m
      BY <1>3, <1>5
    <2>2. \A d \in ToSet(next[id]) : g[<<d, w>>] \in B
      BY <1>4
    <2>3. \A y \in B : y \in 1 .. m
      BY <1>2, <2>1
    <2>4. g[<<id, v>>] - 1 = m
      BY <1>2, <2>1
    <2> QED BY <2>1, <2>2, <2>3, <2>4
  <1>6. ASSUME NEW k \in Nat, id \notin v, \A d \in ToSet(next[id]) : g[<<d, w>>] \in 1 .. k
        PROVE  g[<<id, v>>] \in 1 .. k + 1
    <2>1. \A y \in B : y \in 1 .. k
      BY <1>4, <1>6
    <2>2. 0 \notin B /\ m <= k
      BY <1>2, <2>1
    <2> QED BY <1>2, <1>3, <1>6, <2>2
  <1> QED BY <1>5, <1>6 DEF w

\* The successors are the nodes of the lists.
Lists(N, next, S) == \A x \in N : S[x] = ToSet(next[x])

\* A walk that ends without an error bounds the chains below a step, and the
\* bound is exact.
LEMMA DepthIsLength ==
  ASSUME NEW N, IsFiniteSet(N), NEW next, next \in [N -> Seq(N)], NEW S, NEW T, WalkSets(N, S, T),
         Lists(N, next, S), NEW g, DepthWalk(N, next, g), NEW M, M \in Nat
  PROVE  (\A x \in N : g[<<x, {}>>] \in 1 .. M) <=> (\A x \in N : T[M][x] = {})
PROOF
  <1> USE DEF Lists
  <1>1. \A k \in Nat : \A a, x \in N : x \in T[k + 1][a] <=> \E d \in S[a] : x \in T[k][d]
    <2>1. FirstEdges(N, S, T)
      BY WalkFirst
    <2> QED BY <2>1 DEF FirstEdges
  <1>2. \A a \in N : S[a] \subseteq N /\ T[0][a] = {a} /\ \A k \in Nat : T[k][a] \subseteq N
    BY DEF WalkSets
  <1>3. \A id \in N, v \in SUBSET N : g[<<id, v>>] \in Nat
    BY DepthTyped
  <1>4. ASSUME NEW x \in N, g[<<x, {}>>] \in 1 .. M PROVE T[M][x] = {}
    <2> DEFINE P == {n \in Nat : \A id \in N, v \in SUBSET N : g[<<id, v>>] = n /\ n # 0 => T[n][id] = {}}
    <2>1. ASSUME NEW n \in Nat, \A j \in Nat : j < n => j \in P PROVE n \in P
      <3> SUFFICES ASSUME NEW id \in N, NEW v \in SUBSET N, g[<<id, v>>] = n, n # 0 PROVE T[n][id] = {}
        OBVIOUS
      <3> DEFINE w == v \cup {id}
      <3>1. \A d \in ToSet(next[id]) : g[<<d, w>>] \in 1 .. n - 1
        BY DepthValue
      <3>2. ASSUME NEW d \in S[id] PROVE T[n - 1][d] = {}
        <4>1. d \in N /\ w \in SUBSET N /\ g[<<d, w>>] \in 1 .. n - 1
          BY <1>2, <3>1
        <4> DEFINE j == g[<<d, w>>]
        <4>2. j \in Nat /\ j # 0 /\ j < n /\ j <= n - 1 /\ n - 1 \in Nat
          BY <4>1
        <4>3. T[j][d] = {}
          BY <2>1, <4>1, <4>2
        <4> HIDE DEF j
        <4> QED BY <4>1, <4>2, <4>3, WalksStop
      <3>3. n - 1 \in Nat /\ (n - 1) + 1 = n
        OBVIOUS
      <3>4. \A y \in N : y \notin T[(n - 1) + 1][id]
        BY <1>1, <3>2, <3>3
      <3> QED BY <1>2, <3>3, <3>4
    <2> HIDE DEF P
    <2>2. \A n \in Nat : n \in P
      BY <2>1, NaturalsByCourse
    <2> DEFINE n == g[<<x, {}>>]
    <2>3. n \in Nat /\ n # 0 /\ n <= M
      BY <1>4
    <2>4. T[n][x] = {}
      BY <2>2, <2>3 DEF P
    <2> HIDE DEF n
    <2> QED BY <2>3, <2>4, WalksStop
  <1>5. ASSUME \A x \in N : T[M][x] = {} PROVE \A x \in N : g[<<x, {}>>] \in 1 .. M
    <2> DEFINE R(k, id, v) == T[k][id] = {} /\ (\A y \in v : T[k][y] # {}) => g[<<id, v>>] \in 1 .. k
               P == {k \in Nat : \A id \in N, v \in SUBSET N : R(k, id, v)}
    <2>1. 0 \in P
      BY <1>2
    <2>2. ASSUME NEW k \in Nat, k \in P PROVE k + 1 \in P
      <3> SUFFICES ASSUME NEW id \in N, NEW v \in SUBSET N PROVE R(k + 1, id, v)
        <4> HIDE DEF R
        <4> QED OBVIOUS
      <3> SUFFICES ASSUME T[k + 1][id] = {}, \A y \in v : T[k + 1][y] # {} PROVE g[<<id, v>>] \in 1 .. k + 1
        OBVIOUS
      <3>1. \A y \in v : T[k][y] # {}
        <4> SUFFICES ASSUME NEW y \in v, T[k][y] = {} PROVE FALSE
          OBVIOUS
        <4>1. y \in N /\ k + 1 \in Nat /\ k <= k + 1
          OBVIOUS
        <4>2. T[k + 1][y] = {}
          BY <4>1, WalksStop
        <4> QED BY <4>2
      <3>2. CASE T[k][id] = {}
        <4>1. g[<<id, v>>] \in 1 .. k
          BY <2>2, <3>1, <3>2
        <4> QED BY <4>1
      <3>3. CASE T[k][id] # {}
        <4> DEFINE w == v \cup {id}
        <4>1. w \in SUBSET N /\ \A y \in w : T[k][y] # {}
          BY <3>1, <3>3
        <4>2. ASSUME NEW d \in S[id] PROVE T[k][d] = {} /\ d \in N
          BY <1>1, <1>2
        <4> HIDE DEF w
        <4>3. \A d \in ToSet(next[id]) : g[<<d, w>>] \in 1 .. k
          BY <2>2, <4>1, <4>2
        <4>4. id \notin v
          OBVIOUS
        <4> QED BY <4>3, <4>4, DepthValue DEF w
      <3> QED BY <3>2, <3>3
    <2> HIDE DEF P
    <2>3. M \in P
      BY <2>1, <2>2, NaturalsByStep
    <2> QED BY <1>5, <2>3 DEF P
  <1> QED BY <1>4, <1>5

-----------------------------------------------------------------------------
(***************************************************************************)
(* The dependency walk                                                     *)
(***************************************************************************)
\* One call of the dependency walk for the candidate c.
VisitAt(next, c, f, deps, seen) ==
  LET d == Head(deps)
      below == f[<<next[d], seen \cup {d}>>]
  IN IF deps = <<>> THEN [found |-> FALSE, seen |-> seen]
     ELSE IF d = c THEN [found |-> TRUE, seen |-> seen]
     ELSE IF d \in seen THEN f[<<Tail(deps), seen>>]
     ELSE IF below.found THEN below ELSE f[<<Tail(deps), below.seen>>]

\* What is left to see counts more than any list of dependencies.
Rank(N, K, list, seen) == Cardinality(N \ seen) * K + Len(list)

\* A product of counts dominates what is added to it.
LEMMA RankDrops ==
  ASSUME NEW K \in Nat, NEW c \in Nat, NEW d \in Nat, NEW l \in Nat, NEW m \in Nat
  PROVE  /\ d < c /\ m < K => d * K + m < c * K + l
         /\ d <= c /\ m < l => d * K + m < c * K + l
PROOF
  <1>1. \A x \in Nat : x * K \in Nat
    OBVIOUS
  <1>2. ASSUME d < c, m < K PROVE d * K + m < c * K + l
    <2> DEFINE e == c - (d + 1)
    <2>1. e \in Nat /\ c = d + 1 + e
      BY <1>2
    <2>2. c * K = d * K + K + e * K
      BY <2>1
    <2> HIDE DEF e
    <2>3. e * K \in Nat /\ d * K \in Nat
      BY <1>1, <2>1
    <2> QED BY <1>2, <2>2, <2>3
  <1>3. ASSUME d <= c, m < l PROVE d * K + m < c * K + l
    <2> DEFINE e == c - d
    <2>1. e \in Nat /\ c = d + e
      BY <1>3
    <2>2. c * K = d * K + e * K
      BY <2>1
    <2> HIDE DEF e
    <2>3. e * K \in Nat /\ d * K \in Nat
      BY <1>1, <2>1
    <2> QED BY <1>3, <2>2, <2>3
  <1> QED BY <1>2, <1>3

\* Ranks are naturals.
LEMMA RankType ==
  ASSUME NEW N, IsFiniteSet(N), NEW K \in Nat, NEW list \in Seq(N), NEW seen \in SUBSET N
  PROVE  Rank(N, K, list, seen) \in Nat
PROOF
  <1>1. Cardinality(N \ seen) \in Nat /\ Len(list) \in Nat
    BY FS_Difference, FS_CardinalityType, LenProperties
  <1> QED BY <1>1 DEF Rank

\* The rank of what follows the first of a list, and of a list that is walked
\* with one more node seen.
LEMMA RankOfRest ==
  ASSUME NEW N, IsFiniteSet(N), NEW K \in Nat, NEW list \in Seq(N), list # <<>>, NEW seen \in SUBSET N
  PROVE  /\ Head(list) \in N /\ Tail(list) \in Seq(N)
         /\ \A s \in SUBSET N : seen \subseteq s => Rank(N, K, Tail(list), s) < Rank(N, K, list, seen)
         /\ \A s \in SUBSET N : \A l \in Seq(N) : \A x \in N :
              x \notin seen /\ seen \cup {x} \subseteq s /\ Len(l) < K => Rank(N, K, l, s) < Rank(N, K, list, seen)
PROOF
  <1>1. Head(list) \in N /\ Tail(list) \in Seq(N) /\ Len(Tail(list)) = Len(list) - 1
    BY HeadTailProperties
  <1>2. Len(list) \in Nat /\ Len(Tail(list)) \in Nat /\ Len(Tail(list)) < Len(list)
    BY <1>1, LenProperties
  <1>3. \A s \in SUBSET N : IsFiniteSet(N \ s) /\ Cardinality(N \ s) \in Nat
    BY FS_Difference, FS_CardinalityType
  <1>4. ASSUME NEW s \in SUBSET N, seen \subseteq s PROVE Rank(N, K, Tail(list), s) < Rank(N, K, list, seen)
    <2>1. N \ s \in SUBSET (N \ seen)
      BY <1>4
    <2>2. Cardinality(N \ s) <= Cardinality(N \ seen)
      BY <1>3, <2>1, FS_Subset
    <2> QED BY <1>2, <1>3, <2>2, RankDrops DEF Rank
  <1>5. ASSUME NEW s \in SUBSET N, NEW l \in Seq(N), NEW x \in N, x \notin seen, seen \cup {x} \subseteq s, Len(l) < K
        PROVE  Rank(N, K, l, s) < Rank(N, K, list, seen)
    <2>1. Cardinality(N \ s) < Cardinality(N \ seen)
      BY <1>5, FewerLeft
    <2>2. Len(l) \in Nat
      BY LenProperties
    <2> QED BY <1>2, <1>3, <1>5, <2>1, <2>2, RankDrops DEF Rank
  <1> QED BY <1>1, <1>4, <1>5

\* The members of a list.
LEMMA HeadAndTail ==
  ASSUME NEW N, NEW list \in Seq(N), list # <<>>
  PROVE  ToSet(list) = {Head(list)} \cup ToSet(Tail(list))
PROOF
  <1>1. Len(list) \in Nat /\ Len(list) # 0 /\ DOMAIN list = 1 .. Len(list)
    BY LenProperties, EmptySeq
  <1>2. Tail(list) \in Seq(N) /\ Len(Tail(list)) = Len(list) - 1
    BY HeadTailProperties
  <1>3. DOMAIN Tail(list) = 1 .. Len(list) - 1
    BY <1>2, LenProperties
  <1>4. Head(list) = list[1] /\ \A i \in 1 .. Len(list) - 1 : Tail(list)[i] = list[i + 1]
    BY <1>1
  <1>5. \A x \in ToSet(list) : x = Head(list) \/ x \in ToSet(Tail(list))
    <2> SUFFICES ASSUME NEW i \in 1 .. Len(list), list[i] # Head(list) PROVE list[i] \in ToSet(Tail(list))
      BY <1>1 DEF ToSet
    <2>1. i - 1 \in 1 .. Len(list) - 1 /\ (i - 1) + 1 = i
      BY <1>1, <1>4
    <2>2. Tail(list)[i - 1] = list[i]
      BY <1>4, <2>1
    <2> QED BY <1>3, <2>1, <2>2 DEF ToSet
  <1>6. Head(list) \in ToSet(list)
    <2>1. 1 \in 1 .. Len(list)
      BY <1>1
    <2> QED BY <1>1, <1>4, <2>1 DEF ToSet
  <1>7. \A x \in ToSet(Tail(list)) : x \in ToSet(list)
    <2> SUFFICES ASSUME NEW i \in 1 .. Len(list) - 1 PROVE Tail(list)[i] \in ToSet(list)
      BY <1>3 DEF ToSet
    <2>1. i + 1 \in 1 .. Len(list) /\ Tail(list)[i] = list[i + 1]
      BY <1>1, <1>4
    <2> QED BY <1>1, <2>1 DEF ToSet
  <1> QED BY <1>5, <1>6, <1>7

\* An answer: the ids seen so far only grow.
Grown(N, seen, r) == r \in [found : BOOLEAN, seen : SUBSET N] /\ seen \subseteq r.seen

\* At all smaller ranks.
GrownBelow(N, K, f, list, seen) ==
  \A l \in Seq(N), s \in SUBSET N : Rank(N, K, l, s) < Rank(N, K, list, seen) => Grown(N, s, f[<<l, s>>])
AgreeBelow(N, K, f, g, list, seen) ==
  \A l \in Seq(N), s \in SUBSET N : Rank(N, K, l, s) < Rank(N, K, list, seen) => f[<<l, s>>] = g[<<l, s>>]

\* A call of the walk needs the calls of smaller rank only, and answers with at
\* least what had been seen.
LEMMA VisitStep ==
  ASSUME NEW N, IsFiniteSet(N), NEW next, next \in [N -> Seq(N)], NEW c, NEW K, K \in Nat, \A x \in N : Len(next[x]) < K,
         NEW f, NEW list, list \in Seq(N), NEW seen, seen \in SUBSET N, GrownBelow(N, K, f, list, seen)
  PROVE  /\ Grown(N, seen, VisitAt(next, c, f, list, seen))
         /\ \A g : AgreeBelow(N, K, f, g, list, seen) => VisitAt(next, c, f, list, seen) = VisitAt(next, c, g, list, seen)
PROOF
  <1> USE DEF GrownBelow
  <1> DEFINE d == Head(list)
             w == seen \cup {d}
             below == f[<<next[d], w>>]
  <1>1. CASE list = <<>>
    BY <1>1 DEF VisitAt, Grown
  <1>2. CASE list # <<>> /\ d = c
    BY <1>2 DEF VisitAt, Grown
  <1>3. CASE list # <<>> /\ d # c /\ d \in seen
    <2>1. Tail(list) \in Seq(N) /\ Rank(N, K, Tail(list), seen) < Rank(N, K, list, seen)
      BY <1>3, RankOfRest
    <2>2. \A g : VisitAt(next, c, g, list, seen) = g[<<Tail(list), seen>>]
      BY <1>3 DEF VisitAt
    <2> QED BY <2>1, <2>2 DEF AgreeBelow
  <1>4. CASE list # <<>> /\ d # c /\ d \notin seen
    <2>1. d \in N /\ w \in SUBSET N /\ next[d] \in Seq(N) /\ Tail(list) \in Seq(N)
      BY <1>4, RankOfRest
    <2>2. Rank(N, K, next[d], w) < Rank(N, K, list, seen)
      BY <1>4, <2>1, RankOfRest
    <2>3. Grown(N, w, below)
      BY <2>1, <2>2
    <2>4. below.seen \in SUBSET N /\ seen \subseteq below.seen /\ below \in [found : BOOLEAN, seen : SUBSET N]
      BY <2>3 DEF Grown
    <2>5. Rank(N, K, Tail(list), below.seen) < Rank(N, K, list, seen)
      BY <1>4, <2>4, RankOfRest
    <2>6. Grown(N, below.seen, f[<<Tail(list), below.seen>>])
      BY <2>1, <2>4, <2>5
    <2>7. \A g : VisitAt(next, c, g, list, seen) =
                   IF g[<<next[d], w>>].found THEN g[<<next[d], w>>] ELSE g[<<Tail(list), g[<<next[d], w>>].seen>>]
      BY <1>4 DEF VisitAt
    <2> HIDE DEF below, w, d
    <2>8. Grown(N, seen, VisitAt(next, c, f, list, seen))
      BY <2>4, <2>6, <2>7 DEF Grown, below
    <2>9. ASSUME NEW g, AgreeBelow(N, K, f, g, list, seen)
          PROVE  VisitAt(next, c, f, list, seen) = VisitAt(next, c, g, list, seen)
      <3>1. g[<<next[d], w>>] = below
        BY <2>1, <2>2, <2>9 DEF below, AgreeBelow
      <3>2. g[<<Tail(list), below.seen>>] = f[<<Tail(list), below.seen>>]
        BY <2>1, <2>4, <2>5, <2>9 DEF AgreeBelow
      <3> QED BY <2>7, <3>1, <3>2 DEF below
    <2> QED BY <2>8, <2>9
  <1> QED BY <1>1, <1>2, <1>3, <1>4

\* A function that satisfies the walk's equation.
VisitWalk(N, next, c, g) == g = [at \in Seq(N) \X SUBSET N |-> VisitAt(next, c, g, at[1], at[2])]

\* Lists have a common bound on their length.
ListBound(N, next, K) == K \in Nat /\ \A x \in N : Len(next[x]) < K

\* The walk is defined: what has been seen is not walked again.
LEMMA VisitExists ==
  ASSUME NEW N, IsFiniteSet(N), NEW next \in [N -> Seq(N)], NEW c, NEW K, ListBound(N, next, K)
  PROVE  \E g : VisitWalk(N, next, c, g)
PROOF
  <1> DEFINE D == Seq(N) \X SUBSET N
             V == [found : BOOLEAN, seen : SUBSET N]
             W == [at \in D |-> {r \in V : at[2] \subseteq r.seen}]
             F == Within(D, V, W)
             rank == [at \in D |-> Rank(N, K, at[1], at[2])]
             f0 == [at \in D |-> [found |-> FALSE, seen |-> at[2]]]
             E == [f \in F |-> [at \in D |-> VisitAt(next, c, f, at[1], at[2])]]
  <1>1. K \in Nat /\ \A x \in N : Len(next[x]) < K
    BY DEF ListBound
  <1>2. \A at \in D : at = <<at[1], at[2]>> /\ at[1] \in Seq(N) /\ at[2] \in SUBSET N
    OBVIOUS
  <1>3. \A l \in Seq(N), s \in SUBSET N : <<l, s>> \in D /\ rank[<<l, s>>] = Rank(N, K, l, s)
    OBVIOUS
  <1>4. rank \in [D -> Nat]
    BY <1>1, <1>2, RankType
  <1>5. f0 \in F
    BY DEF Within
  <1>6. \A f \in F : \A l \in Seq(N), s \in SUBSET N : Grown(N, s, f[<<l, s>>])
    BY DEF Within, Grown
  <1>7. \A f : f \in F <=> f \in [D -> V] /\ \A at \in D : Grown(N, at[2], f[at])
    BY DEF Within, Grown
  <1>8. ASSUME NEW f \in F, NEW at \in D PROVE Grown(N, at[2], VisitAt(next, c, f, at[1], at[2]))
    <2>1. at[1] \in Seq(N) /\ at[2] \in SUBSET N
      BY <1>2
    <2>2. GrownBelow(N, K, f, at[1], at[2])
      BY <1>6 DEF GrownBelow
    <2> HIDE DEF D, F
    <2> QED BY <1>1, <2>1, <2>2, VisitStep
  <1>9. \A f \in F : E[f] = [at \in D |-> VisitAt(next, c, f, at[1], at[2])]
    OBVIOUS
  <1>10. E \in [F -> F]
    <2> SUFFICES ASSUME NEW f \in F PROVE [at \in D |-> VisitAt(next, c, f, at[1], at[2])] \in F
      OBVIOUS
    <2>1. \A at \in D : Grown(N, at[2], VisitAt(next, c, f, at[1], at[2])) /\ VisitAt(next, c, f, at[1], at[2]) \in V
      BY <1>8 DEF Grown
    <2> HIDE DEF D, F, V
    <2> QED BY <1>7, <2>1
  <1>11. Ranked(F, D, rank, E)
    <2> SUFFICES ASSUME NEW f \in F, NEW g \in F, NEW x \in D, \A y \in D : rank[y] < rank[x] => f[y] = g[y]
                 PROVE  E[f][x] = E[g][x]
      BY DEF Ranked
    <2>1. x[1] \in Seq(N) /\ x[2] \in SUBSET N /\ rank[x] = Rank(N, K, x[1], x[2])
      BY <1>2
    <2>2. \A l \in Seq(N), s \in SUBSET N : Rank(N, K, l, s) < Rank(N, K, x[1], x[2]) => f[<<l, s>>] = g[<<l, s>>]
      <3> HIDE DEF D, rank
      <3> QED BY <1>3, <2>1
    <2>3. VisitAt(next, c, f, x[1], x[2]) = VisitAt(next, c, g, x[1], x[2])
      <3>1. GrownBelow(N, K, f, x[1], x[2])
        BY <1>6 DEF GrownBelow
      <3>2. AgreeBelow(N, K, f, g, x[1], x[2])
        BY <2>2 DEF AgreeBelow
      <3> HIDE DEF D, F, rank
      <3> QED BY <1>1, <2>1, <3>1, <3>2, VisitStep
    <2>4. E[f][x] = VisitAt(next, c, f, x[1], x[2]) /\ E[g][x] = VisitAt(next, c, g, x[1], x[2])
      BY <1>9
    <2> QED BY <2>3, <2>4
  <1>12. PICK f \in F : E[f] = f
    <2>1. F = Within(D, V, W)
      OBVIOUS
    <2> HIDE DEF W, rank, f0, E, D, V, F
    <2>2. \E f : f \in F /\ E[f] = f
      BY <1>4, <1>5, <1>10, <1>11, <2>1, FixpointExists
    <2> QED BY <2>2
  <1>13. f = [at \in D |-> VisitAt(next, c, f, at[1], at[2])]
    BY <1>9, <1>12
  <1> QED BY <1>13 DEF VisitWalk

\* The ids seen only grow, in every call.
LEMMA VisitGrown ==
  ASSUME NEW N, IsFiniteSet(N), NEW next \in [N -> Seq(N)], NEW c, NEW K, ListBound(N, next, K),
         NEW g, VisitWalk(N, next, c, g)
  PROVE  \A l \in Seq(N), s \in SUBSET N : Grown(N, s, g[<<l, s>>])
PROOF
  <1> DEFINE P == {k \in Nat : \A l \in Seq(N), s \in SUBSET N : Rank(N, K, l, s) = k => Grown(N, s, g[<<l, s>>])}
  <1>1. K \in Nat /\ \A x \in N : Len(next[x]) < K
    BY DEF ListBound
  <1>2. \A l \in Seq(N), s \in SUBSET N : g[<<l, s>>] = VisitAt(next, c, g, l, s)
    BY DEF VisitWalk
  <1>3. \A l \in Seq(N), s \in SUBSET N : Rank(N, K, l, s) \in Nat
    BY <1>1, RankType
  <1>4. ASSUME NEW k \in Nat, \A j \in Nat : j < k => j \in P PROVE k \in P
    <2> SUFFICES ASSUME NEW l \in Seq(N), NEW s \in SUBSET N, Rank(N, K, l, s) = k PROVE Grown(N, s, g[<<l, s>>])
      OBVIOUS
    <2>1. GrownBelow(N, K, g, l, s)
      BY <1>3, <1>4 DEF GrownBelow
    <2>2. Grown(N, s, VisitAt(next, c, g, l, s))
      <3> HIDE DEF P
      <3> QED BY <1>1, <2>1, VisitStep
    <2> QED BY <1>2, <2>2
  <1> HIDE DEF P
  <1>5. \A k \in Nat : k \in P
    BY <1>4, NaturalsByCourse
  <1> QED BY <1>3, <1>5 DEF P

\* What the walk finds is in every closed set that holds the list, and what it
\* has seen without finding the candidate is such a set.
VisitRight(N, next, c, C, list, seen, r) ==
  /\ r.found /\ ToSet(list) \subseteq C => c \in C
  /\ ~r.found =>
       /\ ToSet(list) \subseteq r.seen
       /\ c \notin seen => c \notin r.seen
       /\ \A x \in r.seen \ seen : ToSet(next[x]) \subseteq r.seen

\* Every answer of the walk is right, by induction on the rank of the call.
LEMMA VisitIsRight ==
  ASSUME NEW N, IsFiniteSet(N), NEW next \in [N -> Seq(N)], NEW c, NEW K, ListBound(N, next, K),
         NEW g, VisitWalk(N, next, c, g), NEW C \in SUBSET N, \A x \in C : ToSet(next[x]) \subseteq C
  PROVE  \A l \in Seq(N), s \in SUBSET N : VisitRight(N, next, c, C, l, s, g[<<l, s>>])
PROOF
  <1> DEFINE Right(l, s) == VisitRight(N, next, c, C, l, s, g[<<l, s>>])
             P == {k \in Nat : \A l \in Seq(N), s \in SUBSET N : Rank(N, K, l, s) = k => Right(l, s)}
  <1>1. K \in Nat /\ \A x \in N : Len(next[x]) < K
    BY DEF ListBound
  <1>2. \A l \in Seq(N), s \in SUBSET N : g[<<l, s>>] = VisitAt(next, c, g, l, s)
    BY DEF VisitWalk
  <1>3. \A l \in Seq(N), s \in SUBSET N : Rank(N, K, l, s) \in Nat
    BY <1>1, RankType
  <1>4. \A l \in Seq(N), s \in SUBSET N : Grown(N, s, g[<<l, s>>])
    BY VisitGrown
  <1>5. ASSUME NEW k \in Nat, \A j \in Nat : j < k => j \in P PROVE k \in P
    <2> SUFFICES ASSUME NEW list \in Seq(N), NEW seen \in SUBSET N, Rank(N, K, list, seen) = k PROVE Right(list, seen)
      <3> HIDE DEF Right
      <3> QED OBVIOUS
    <2>1. \A m \in Seq(N), t \in SUBSET N : Rank(N, K, m, t) < Rank(N, K, list, seen) => Right(m, t)
      <3> HIDE DEF Right
      <3> QED BY <1>3, <1>5
    <2> HIDE DEF P
    <2> DEFINE r == g[<<list, seen>>]
               d == Head(list)
               w == seen \cup {d}
               below == g[<<next[d], w>>]
    <2>2. r = VisitAt(next, c, g, list, seen)
      BY <1>2
    <2>3. CASE list = <<>>
      <3>1. r = [found |-> FALSE, seen |-> seen]
        BY <2>2, <2>3 DEF VisitAt
      <3>2. ToSet(list) = {}
        BY <2>3 DEF ToSet
      <3> HIDE DEF r
      <3>3. VisitRight(N, next, c, C, list, seen, r)
        BY <3>1, <3>2 DEF VisitRight
      <3> QED BY <3>3 DEF r
    <2>4. CASE list # <<>> /\ d = c
      <3>1. r = [found |-> TRUE, seen |-> seen]
        BY <2>2, <2>4 DEF VisitAt
      <3>2. c \in ToSet(list)
        BY <2>4, HeadAndTail
      <3> HIDE DEF r
      <3>3. VisitRight(N, next, c, C, list, seen, r)
        BY <3>1, <3>2 DEF VisitRight
      <3> QED BY <3>3 DEF r
    <2>5. CASE list # <<>> /\ d # c /\ d \in seen
      <3>1. Tail(list) \in Seq(N) /\ Rank(N, K, Tail(list), seen) < Rank(N, K, list, seen)
        BY <1>1, <2>5, RankOfRest
      <3>2. r = g[<<Tail(list), seen>>]
        BY <2>2, <2>5 DEF VisitAt
      <3>3. VisitRight(N, next, c, C, Tail(list), seen, r)
        BY <2>1, <3>1, <3>2
      <3>4. ToSet(list) = {d} \cup ToSet(Tail(list))
        BY <2>5, HeadAndTail
      <3>5. seen \subseteq r.seen
        BY <1>4 DEF Grown
      <3> HIDE DEF r, d
      <3>6. VisitRight(N, next, c, C, list, seen, r)
        BY <2>5, <3>3, <3>4, <3>5 DEF VisitRight
      <3> QED BY <3>6 DEF r
    <2>6. CASE list # <<>> /\ d # c /\ d \notin seen
      <3>1. d \in N /\ w \in SUBSET N /\ next[d] \in Seq(N) /\ Tail(list) \in Seq(N)
        BY <1>1, <2>6, RankOfRest
      <3>2. Rank(N, K, next[d], w) < Rank(N, K, list, seen)
        BY <1>1, <2>6, <3>1, RankOfRest
      <3>3. Grown(N, w, below) /\ VisitRight(N, next, c, C, next[d], w, below)
        BY <1>4, <2>1, <3>1, <3>2
      <3>4. below.seen \in SUBSET N /\ w \subseteq below.seen /\ below.found \in BOOLEAN
        BY <3>3 DEF Grown
      <3>5. ToSet(list) = {d} \cup ToSet(Tail(list))
        BY <2>6, HeadAndTail
      <3>6. CASE below.found
        <4>1. r = below
          BY <2>2, <2>6, <3>6 DEF VisitAt
        <4> HIDE DEF r, below, w, d
        <4>2. VisitRight(N, next, c, C, list, seen, r)
          BY <3>3, <3>5, <3>6, <4>1 DEF VisitRight
        <4> QED BY <4>2 DEF r
      <3>7. CASE ~below.found
        <4>1. r = g[<<Tail(list), below.seen>>]
          BY <2>2, <2>6, <3>7 DEF VisitAt
        <4>2. Rank(N, K, Tail(list), below.seen) < Rank(N, K, list, seen)
          BY <1>1, <2>6, <3>4, RankOfRest
        <4>3. Grown(N, below.seen, r) /\ VisitRight(N, next, c, C, Tail(list), below.seen, r)
          BY <1>4, <2>1, <3>1, <3>4, <4>1, <4>2
        <4>4. below.seen \subseteq r.seen
          BY <4>3 DEF Grown
        <4>5. w = seen \cup {d}
          OBVIOUS
        <4> HIDE DEF r, below, w, d
        <4>6. r.found /\ ToSet(list) \subseteq C => c \in C
          BY <3>5, <4>3 DEF VisitRight
        <4>7. ASSUME ~r.found
              PROVE  /\ ToSet(list) \subseteq r.seen
                     /\ c \notin seen => c \notin r.seen
                     /\ \A x \in r.seen \ seen : ToSet(next[x]) \subseteq r.seen
          <5>1. ToSet(list) \subseteq r.seen
            BY <3>4, <3>5, <4>3, <4>4, <4>5, <4>7 DEF VisitRight
          <5>2. c \notin seen => c \notin r.seen
            BY <2>6, <3>3, <3>7, <4>3, <4>5, <4>7 DEF VisitRight
          <5>3. ASSUME NEW x \in r.seen, x \notin seen PROVE ToSet(next[x]) \subseteq r.seen
            <6>1. CASE x \notin below.seen
              BY <4>3, <4>7, <6>1 DEF VisitRight
            <6>2. CASE x \in below.seen /\ x # d
              BY <3>3, <3>7, <4>4, <4>5, <5>3, <6>2 DEF VisitRight
            <6>3. CASE x = d
              BY <3>3, <3>7, <4>4, <6>3 DEF VisitRight
            <6> QED BY <6>1, <6>2, <6>3
          <5> QED BY <5>1, <5>2, <5>3
        <4>8. VisitRight(N, next, c, C, list, seen, r)
          BY <4>6, <4>7 DEF VisitRight
        <4> QED BY <4>8 DEF r
      <3> QED BY <3>6, <3>7
    <2> QED BY <2>3, <2>4, <2>5, <2>6
  <1> HIDE DEF P, Right
  <1>6. \A k \in Nat : k \in P
    BY <1>5, NaturalsByCourse
  <1> QED BY <1>3, <1>6 DEF P, Right

-----------------------------------------------------------------------------
(***************************************************************************)
(* The graph of a plan                                                     *)
(***************************************************************************)
\* A plan whose dependencies are steps of the plan.
PlanGraph(steps) ==
  /\ Len(steps) \in Nat /\ DOMAIN steps = 1 .. Len(steps)
  /\ \A i \in DOMAIN steps : steps[i].deps \in Seq(Ids(steps))

\* What a step depends on, as declared and as a set.
NextOf(steps) == [x \in Ids(steps) |-> StepOf(steps, x).deps]
SuccOf(steps) == [x \in Ids(steps) |-> ToSet(StepOf(steps, x).deps)]

\* The members of a list are what it is a list of.
LEMMA ListInside ==
  ASSUME NEW N, NEW list \in Seq(N)
  PROVE  ToSet(list) \subseteq N
PROOF
  <1>1. DOMAIN list = 1 .. Len(list) /\ \A i \in 1 .. Len(list) : list[i] \in N
    BY LenProperties, ElementOfSeq
  <1> QED BY <1>1 DEF ToSet

\* There are at most as many ids as steps, and exactly as many when none is
\* used twice.
LEMMA IdsCounted ==
  ASSUME NEW steps, Len(steps) \in Nat, DOMAIN steps = 1 .. Len(steps)
  PROVE  /\ IsFiniteSet(Ids(steps)) /\ Cardinality(Ids(steps)) \in Nat /\ Cardinality(Ids(steps)) <= Len(steps)
         /\ Cardinality(Ids(steps)) = Len(steps) <=> UniqueIds(steps)
PROOF
  <1> DEFINE n == Len(steps)
             I == 1 .. n
             f == [i \in I |-> steps[i].id]
  <1>1. IsFiniteSet(I) /\ Cardinality(I) = n
    <2>1. n \in Nat /\ 1 \in Int /\ n \in Int
      OBVIOUS
    <2> HIDE DEF n
    <2>2. IsFiniteSet(1 .. n) /\ Cardinality(1 .. n) = IF 1 > n THEN 0 ELSE n - 1 + 1
      BY <2>1, FS_Interval
    <2> QED BY <2>1, <2>2
  <1>2. f \in [I -> Ids(steps)] /\ \A x \in Ids(steps) : \E i \in I : f[i] = x
    BY DEF Ids
  <1>3. (\A i, j \in I : f[i] = f[j] => i = j) <=> UniqueIds(steps)
    BY DEF UniqueIds
  <1> HIDE DEF f, I, n
  <1>4. f \in Surjection(I, Ids(steps))
    BY <1>2 DEF Surjection
  <1>5. f \in Injection(I, Ids(steps)) <=> \A i, j \in I : f[i] = f[j] => i = j
    BY <1>2 DEF Injection, IsInjective
  <1>6. /\ IsFiniteSet(Ids(steps)) /\ Cardinality(Ids(steps)) <= Cardinality(I)
        /\ Cardinality(Ids(steps)) = Cardinality(I) <=> f \in Injection(I, Ids(steps))
    BY <1>1, <1>4, FS_Surjection
  <1>7. Cardinality(Ids(steps)) \in Nat
    BY <1>6, FS_CardinalityType
  <1> QED BY <1>1, <1>3, <1>5, <1>6, <1>7 DEF n

\* The ids of a plan and their dependencies are a finite graph.
LEMMA PlanGraphIs ==
  ASSUME NEW steps, PlanGraph(steps)
  PROVE  /\ IsFiniteSet(Ids(steps)) /\ Cardinality(Ids(steps)) \in Nat /\ Cardinality(Ids(steps)) <= Len(steps)
         /\ NextOf(steps) \in [Ids(steps) -> Seq(Ids(steps))]
         /\ SuccOf(steps) \in [Ids(steps) -> SUBSET Ids(steps)]
         /\ \A x \in Ids(steps) : SuccOf(steps)[x] = ToSet(NextOf(steps)[x])
         /\ Named(steps) = Ids(steps)
         /\ \E K : ListBound(Ids(steps), NextOf(steps), K)
PROOF
  <1>1. Len(steps) \in Nat /\ DOMAIN steps = 1 .. Len(steps) /\ \A i \in DOMAIN steps : steps[i].deps \in Seq(Ids(steps))
    BY DEF PlanGraph
  <1>2. \A x \in Ids(steps) : \E i \in DOMAIN steps : StepOf(steps, x) = steps[i]
    BY DEF Ids, StepOf
  <1>3. \A x \in Ids(steps) : StepOf(steps, x).deps \in Seq(Ids(steps))
    BY <1>1, <1>2
  <1>4. NextOf(steps) \in [Ids(steps) -> Seq(Ids(steps))]
    BY <1>3 DEF NextOf
  <1>5. SuccOf(steps) \in [Ids(steps) -> SUBSET Ids(steps)]
    BY <1>3, ListInside DEF SuccOf
  <1>6. \A x \in Ids(steps) : SuccOf(steps)[x] = ToSet(NextOf(steps)[x])
    BY DEF SuccOf, NextOf
  <1>7. Named(steps) = Ids(steps)
    <2>1. \A i \in DOMAIN steps : ToSet(steps[i].deps) \subseteq Ids(steps)
      BY <1>1, ListInside
    <2> QED BY <2>1 DEF Named
  <1>8. \E K : ListBound(Ids(steps), NextOf(steps), K)
    <2> DEFINE n == Len(steps)
               h == [i \in 1 .. n |-> Len(steps[i].deps)]
    <2>1. h \in [1 .. n -> Nat] /\ n \in Nat
      BY <1>1, LenProperties
    <2>2. \A x \in Ids(steps) : \E i \in 1 .. n : Len(NextOf(steps)[x]) = h[i]
      BY <1>1, <1>2 DEF NextOf
    <2> HIDE DEF n, h
    <2>3. PICK K \in Nat : \A i \in 1 .. n : h[i] < K
      BY <2>1, BoundExists
    <2>4. ListBound(Ids(steps), NextOf(steps), K)
      BY <2>1, <2>2, <2>3 DEF ListBound
    <2> QED BY <2>4
  <1> QED BY <1>1, <1>4, <1>5, <1>6, <1>7, <1>8, IdsCounted

\* The reference: a path is a walk.
LEMMA PathIsWalk ==
  ASSUME NEW steps, PlanGraph(steps), NEW T, WalkSets(Ids(steps), SuccOf(steps), T),
         NEW a \in Ids(steps), NEW b, NEW n \in Nat
  PROVE  Path(steps, a, b, n) <=> b \in T[n][a]
PROOF
  <1> DEFINE N == Ids(steps)
             Ends(f, k) == IF k = 0 THEN {a} ELSE {d \in N : \E c \in f[k - 1] : Edge(steps, c, d)}
             ends[k \in 0 .. n] == IF k = 0 THEN {a} ELSE {d \in Ids(steps) : \E c \in ends[k - 1] : Edge(steps, c, d)}
             t == [k \in 0 .. n |-> T[k][a]]
  <1>1. SuccOf(steps) \in [N -> SUBSET N] /\ \A x \in N : StepOf(steps, x).deps \in Seq(N)
    BY PlanGraphIs DEF NextOf
  <1>2. \A c \in N, d \in N : Edge(steps, c, d) <=> d \in SuccOf(steps)[c]
    <2> SUFFICES ASSUME NEW c \in N, NEW d \in N PROVE Contains(StepOf(steps, c).deps, d) <=> d \in ToSet(StepOf(steps, c).deps)
      BY DEF Edge, SuccOf
    <2>1. DOMAIN StepOf(steps, c).deps = 1 .. Len(StepOf(steps, c).deps)
      BY <1>1, LenProperties
    <2> QED BY <2>1 DEF Contains, ToSet
  <1>3. /\ T[0][a] = {a} /\ \A k \in Nat : T[k][a] \subseteq N
        /\ \A k \in Nat : \A x \in N : x \in T[k + 1][a] <=> \E c \in T[k][a] : x \in SuccOf(steps)[c]
    BY DEF WalkSets
  <1>4. Path(steps, a, b, n) <=> b \in ends[n]
    BY DEF Path
  <1>5. ASSUME NEW k \in Nat, k # 0, NEW f, f[k - 1] = T[k - 1][a] PROVE Ends(f, k) = T[k][a]
    <2>1. k - 1 \in Nat /\ (k - 1) + 1 = k
      BY <1>5
    <2>2. T[k - 1][a] \subseteq N /\ T[k][a] \subseteq N
      BY <1>3, <2>1
    <2>3. \A x \in N : x \in T[k][a] <=> \E c \in T[k - 1][a] : x \in SuccOf(steps)[c]
      BY <1>3, <2>1
    <2>4. \A x \in N : x \in T[k][a] <=> \E c \in f[k - 1] : Edge(steps, c, x)
      BY <1>2, <1>5, <2>2, <2>3
    <2> QED BY <1>5, <2>2, <2>4
  <1>6. t = [k \in 0 .. n |-> Ends(t, k)]
    <2>1. ASSUME NEW k \in 0 .. n PROVE t[k] = Ends(t, k)
      <3>1. CASE k = 0
        BY <1>3, <3>1
      <3>2. CASE k # 0
        <4>1. k - 1 \in 0 .. n /\ k \in Nat
          BY <3>2
        <4>2. t[k - 1] = T[k - 1][a] /\ t[k] = T[k][a]
          BY <4>1
        <4> HIDE DEF Ends, t
        <4> QED BY <1>5, <3>2, <4>1, <4>2
      <3> QED BY <3>1, <3>2
    <2> HIDE DEF Ends
    <2> QED BY <2>1
  <1>7. \E f : f = [k \in 0 .. n |-> IF k = 0 THEN {a} ELSE {d \in Ids(steps) : \E c \in f[k - 1] : Edge(steps, c, d)}]
    <2> HIDE DEF t
    <2> QED BY <1>6
  <1>8. ends = [k \in 0 .. n |-> IF k = 0 THEN {a} ELSE {d \in Ids(steps) : \E c \in ends[k - 1] : Edge(steps, c, d)}]
    BY <1>7
  <1> HIDE DEF ends
  <1>9. \A k \in 0 .. n : ends[k] = Ends(ends, k)
    BY <1>8
  <1> DEFINE P == {k \in Nat : k <= n => ends[k] = T[k][a]}
  <1>10. 0 \in P
    <2>1. 0 \in 0 .. n
      OBVIOUS
    <2>2. ends[0] = {a}
      BY <1>9, <2>1
    <2> QED BY <1>3, <2>2
  <1>11. ASSUME NEW k \in Nat, k \in P PROVE k + 1 \in P
    <2> SUFFICES ASSUME k + 1 <= n PROVE ends[k + 1] = T[k + 1][a]
      OBVIOUS
    <2>1. k + 1 \in 0 .. n /\ (k + 1) - 1 = k /\ k + 1 # 0 /\ k + 1 \in Nat /\ k <= n
      OBVIOUS
    <2>2. ends[(k + 1) - 1] = T[(k + 1) - 1][a]
      BY <1>11, <2>1
    <2> HIDE DEF Ends
    <2>3. Ends(ends, k + 1) = T[k + 1][a]
      BY <1>5, <2>1, <2>2
    <2> QED BY <1>9, <2>1, <2>3
  <1> HIDE DEF P
  <1>12. n \in P
    BY <1>10, <1>11, NaturalsByStep
  <1> QED BY <1>4, <1>12 DEF P

\* The depth of a step is what a depth walk gives it.
LEMMA DepthOf ==
  ASSUME NEW steps, PlanGraph(steps)
  PROVE  \E g : DepthWalk(Ids(steps), NextOf(steps), g) /\ \A x \in Ids(steps) : Depth(steps, x) = g[<<x, {}>>]
PROOF
  <1> DEFINE N == Ids(steps)
             next == NextOf(steps)
             depth[at \in Ids(steps) \X SUBSET Ids(steps)] ==
               LET id == at[1]
                   visiting == at[2]
                   below == {depth[<<d, visiting \cup {id}>>] : d \in ToSet(StepOf(steps, id).deps)}
               IN IF id \in visiting \/ 0 \in below THEN 0 ELSE 1 + Max(below \cup {0})
             At(f, at) ==
               LET id == at[1]
                   visiting == at[2]
                   below == {f[<<d, visiting \cup {id}>>] : d \in ToSet(StepOf(steps, id).deps)}
               IN IF id \in visiting \/ 0 \in below THEN 0 ELSE 1 + Max(below \cup {0})
  <1>1. \A f : \A at \in N \X SUBSET N : At(f, at) = DepthAt(next, f, at)
    <2> SUFFICES ASSUME NEW f, NEW at \in N \X SUBSET N PROVE At(f, at) = DepthAt(next, f, at)
      OBVIOUS
    <2>1. at[1] \in N
      OBVIOUS
    <2>2. next[at[1]] = StepOf(steps, at[1]).deps
      BY <2>1 DEF NextOf
    <2> QED BY <2>2 DEF DepthAt, Below
  <1>2. PICK g : DepthWalk(N, next, g)
    <2>1. IsFiniteSet(N) /\ next \in [N -> Seq(N)]
      BY PlanGraphIs
    <2> HIDE DEF N, next
    <2> QED BY <2>1, DepthExists
  <1>3. g = [at \in N \X SUBSET N |-> At(g, at)]
    <2> HIDE DEF At
    <2> QED BY <1>1, <1>2 DEF DepthWalk
  <1>4. depth = [at \in N \X SUBSET N |-> At(depth, at)]
    <2>1. \E f : f = [at \in N \X SUBSET N |-> At(f, at)]
      BY <1>3
    <2> QED BY <2>1
  <1>5. \A x \in N : Depth(steps, x) = depth[<<x, {}>>]
    BY DEF Depth
  <1> HIDE DEF depth, At
  <1>6. depth = [at \in N \X SUBSET N |-> DepthAt(next, depth, at)]
    BY <1>1, <1>4
  <1> QED BY <1>5, <1>6 DEF DepthWalk

\* What the dependency walk answers.
LEMMA VisitOf ==
  ASSUME NEW steps, PlanGraph(steps), NEW c
  PROVE  \E g : VisitWalk(Ids(steps), NextOf(steps), c, g) /\ \A s : Visit(steps, s, c) = g[<<s.deps, {s.id}>>]
PROOF
  <1> DEFINE N == Ids(steps)
             next == NextOf(steps)
             visit[at \in Seq(Named(steps)) \X SUBSET Named(steps)] ==
               LET deps == at[1]
                   seen == at[2]
                   d == Head(deps)
               IN IF deps = <<>> THEN [found |-> FALSE, seen |-> seen]
                  ELSE IF d = c THEN [found |-> TRUE, seen |-> seen]
                  ELSE IF d \in seen THEN visit[<<Tail(deps), seen>>]
                  ELSE LET below == IF d \in Ids(steps) THEN visit[<<StepOf(steps, d).deps, seen \cup {d}>>]
                                    ELSE [found |-> FALSE, seen |-> seen \cup {d}]
                       IN IF below.found THEN below ELSE visit[<<Tail(deps), below.seen>>]
             At(f, at) ==
               LET deps == at[1]
                   seen == at[2]
                   d == Head(deps)
               IN IF deps = <<>> THEN [found |-> FALSE, seen |-> seen]
                  ELSE IF d = c THEN [found |-> TRUE, seen |-> seen]
                  ELSE IF d \in seen THEN f[<<Tail(deps), seen>>]
                  ELSE LET below == IF d \in Ids(steps) THEN f[<<StepOf(steps, d).deps, seen \cup {d}>>]
                                    ELSE [found |-> FALSE, seen |-> seen \cup {d}]
                       IN IF below.found THEN below ELSE f[<<Tail(deps), below.seen>>]
             D == Seq(Named(steps)) \X SUBSET Named(steps)
  <1>1. IsFiniteSet(N) /\ next \in [N -> Seq(N)] /\ Named(steps) = N /\ \E K : ListBound(N, next, K)
    BY PlanGraphIs
  <1>2. \A f : \A at \in D : At(f, at) = VisitAt(next, c, f, at[1], at[2])
    <2> SUFFICES ASSUME NEW f, NEW at \in D PROVE At(f, at) = VisitAt(next, c, f, at[1], at[2])
      OBVIOUS
    <2>1. at[1] \in Seq(N)
      BY <1>1
    <2>2. CASE at[1] = <<>>
      BY <2>2 DEF VisitAt
    <2>3. CASE at[1] # <<>>
      <3>1. Head(at[1]) \in N
        BY <2>1, <2>3, HeadTailProperties
      <3>2. next[Head(at[1])] = StepOf(steps, Head(at[1])).deps
        BY <3>1 DEF NextOf
      <3> QED BY <2>3, <3>1, <3>2 DEF VisitAt
    <2> QED BY <2>2, <2>3
  <1>3. PICK g : VisitWalk(N, next, c, g)
    <2> HIDE DEF N, next
    <2> QED BY <1>1, VisitExists
  <1>4. g = [at \in D |-> At(g, at)]
    <2>1. g = [at \in D |-> VisitAt(next, c, g, at[1], at[2])]
      BY <1>1, <1>3 DEF VisitWalk
    <2> HIDE DEF At, D
    <2> QED BY <1>2, <2>1
  <1>5. visit = [at \in D |-> At(visit, at)]
    <2>1. \E f : f = [at \in D |-> At(f, at)]
      BY <1>4
    <2> QED BY <2>1
  <1>6. \A s : Visit(steps, s, c) = visit[<<s.deps, {s.id}>>]
    BY DEF Visit
  <1> HIDE DEF visit, At
  <1>7. visit = [at \in D |-> VisitAt(next, c, visit, at[1], at[2])]
    BY <1>2, <1>5
  <1>8. VisitWalk(N, next, c, visit)
    BY <1>1, <1>7 DEF VisitWalk
  <1> QED BY <1>6, <1>8

\* The dependency walk finds exactly what is upstream of a step.
LEMMA FoundIsUpstream ==
  ASSUME NEW steps, PlanGraph(steps), UniqueIds(steps), NEW i \in DOMAIN steps, NEW c, c # steps[i].id
  PROVE  IsTransitiveDependency(steps, steps[i], c) <=> Upstream(steps, steps[i].id, c)
PROOF
  <1> DEFINE N == Ids(steps)
             next == NextOf(steps)
             S == SuccOf(steps)
             a == steps[i].id
             R == {x \in N : \E n \in 1 .. Len(steps) : Path(steps, a, x, n)}
  <1>1. /\ IsFiniteSet(N) /\ Cardinality(N) \in Nat /\ Cardinality(N) <= Len(steps) /\ Len(steps) \in Nat
        /\ next \in [N -> Seq(N)] /\ S \in [N -> SUBSET N] /\ \A x \in N : S[x] = ToSet(next[x])
    BY PlanGraphIs DEF PlanGraph
  <1>2. PICK K : ListBound(N, next, K)
    BY PlanGraphIs
  <1>3. PICK T : WalkSets(N, S, T)
    BY <1>1, WalksExist
  <1>4. a \in N /\ next[a] = steps[i].deps
    <2>1. a \in N
      BY DEF Ids
    <2>2. StepOf(steps, a) = steps[i]
      BY DEF UniqueIds, StepOf
    <2> QED BY <2>1, <2>2 DEF NextOf
  <1>5. \A x : \A n \in Nat : Path(steps, a, x, n) <=> x \in T[n][a]
    BY <1>3, <1>4, PathIsWalk
  <1>6. PICK g : VisitWalk(N, next, c, g) /\ \A s : Visit(steps, s, c) = g[<<s.deps, {s.id}>>]
    BY VisitOf
  <1> DEFINE r == g[<<next[a], {a}>>]
  <1>7. IsTransitiveDependency(steps, steps[i], c) <=> r.found
    BY <1>4, <1>6 DEF IsTransitiveDependency
  <1>8. next[a] \in Seq(N) /\ {a} \in SUBSET N
    BY <1>1, <1>4
  <1>9. Grown(N, {a}, r)
    <2> HIDE DEF N, next, a
    <2> QED BY <1>1, <1>2, <1>6, <1>8, VisitGrown
  <1>10. /\ T[0][a] = {a} /\ \A k \in Nat : T[k][a] \subseteq N
         /\ \A k \in Nat : \A x \in N : x \in T[k + 1][a] <=> \E d \in T[k][a] : x \in S[d]
    <2> HIDE DEF N, S, a
    <2> QED BY <1>3, <1>4 DEF WalkSets
  <1>11. \A k \in Nat : \A x \in T[k + 1][a] : x \in R
    <2> TAKE k \in Nat
    <2> TAKE x \in T[k + 1][a]
    <2>1. PICK n \in 1 .. Cardinality(N) : x \in T[n][a]
      <3> HIDE DEF N, S, a
      <3> QED BY <1>1, <1>3, <1>4, WalksAreShort
    <2>2. n \in 1 .. Len(steps) /\ n \in Nat /\ x \in N
      BY <1>1, <1>10, <2>1
    <2> QED BY <1>5, <2>1, <2>2
  <1>12. S[a] \subseteq R
    <2>1. S[a] \subseteq N
      BY <1>1, <1>4
    <2>2. \A x \in S[a] : x \in T[0 + 1][a]
      BY <1>10, <2>1
    <2> HIDE DEF R
    <2> QED BY <1>11, <2>2
  <1>13. \A x \in R : ToSet(next[x]) \subseteq R
    <2> SUFFICES ASSUME NEW x \in R, NEW y \in S[x] PROVE y \in R
      BY <1>1
    <2>1. PICK n \in 1 .. Len(steps) : Path(steps, a, x, n)
      OBVIOUS
    <2>2. n \in Nat /\ x \in T[n][a] /\ x \in N
      BY <1>1, <1>5, <2>1
    <2>3. y \in N
      BY <1>1, <2>2
    <2>4. y \in T[n + 1][a]
      BY <1>10, <2>2, <2>3
    <2> HIDE DEF R
    <2> QED BY <1>11, <2>2, <2>4
  <1>14. VisitRight(N, next, c, R, next[a], {a}, r)
    <2>1. R \in SUBSET N
      OBVIOUS
    <2> HIDE DEF N, next, a, R
    <2> QED BY <1>1, <1>2, <1>6, <1>8, <1>13, <2>1, VisitIsRight
  <1>15. ASSUME r.found PROVE Upstream(steps, a, c)
    <2>1. c \in R
      <3> HIDE DEF R, r, a, next, N, S
      <3> QED BY <1>1, <1>4, <1>12, <1>14, <1>15 DEF VisitRight
    <2> QED BY <2>1 DEF Upstream
  <1>16. ASSUME ~r.found, Upstream(steps, a, c) PROVE FALSE
    <2> DEFINE C == r.seen
    <2>1. ToSet(next[a]) \subseteq C /\ c \notin C /\ \A x \in C \ {a} : ToSet(next[x]) \subseteq C
      <3> HIDE DEF R, r, next, N, S
      <3> QED BY <1>14, <1>16 DEF VisitRight
    <2>2. C \subseteq N
      BY <1>9 DEF Grown
    <2>3. S[a] \subseteq C /\ \A x \in C \cap N : S[x] \subseteq C
      BY <1>1, <1>4, <2>1, <2>2
    <2>4. \A k \in Nat : T[k + 1][a] \subseteq C
      <3> HIDE DEF C, S, N, a
      <3> QED BY <1>3, <1>4, <2>3, WalksStayInside
    <2>5. PICK n \in 1 .. Len(steps) : Path(steps, a, c, n)
      BY <1>16 DEF Upstream
    <2>6. n \in Nat /\ n - 1 \in Nat /\ (n - 1) + 1 = n
      BY <1>1, <2>5
    <2>7. c \in T[n][a]
      BY <1>5, <2>5, <2>6
    <2>8. T[(n - 1) + 1][a] \subseteq C
      BY <2>4, <2>6
    <2> QED BY <2>1, <2>6, <2>7, <2>8
  <1>17. r.found \in BOOLEAN
    BY <1>9 DEF Grown
  <1> QED BY <1>7, <1>15, <1>16, <1>17

\* Where all walks stop, none comes back.
LEMMA NoCycle ==
  ASSUME NEW N, NEW S, NEW T, WalkSets(N, S, T), NEW M \in Nat, \A x \in N : T[M][x] = {}
  PROVE  \A x \in N : \A n \in Nat : n # 0 => x \notin T[n][x]
PROOF
  <1>1. \A a \in N : S[a] \subseteq N /\ T[0][a] = {a} /\ \A k \in Nat : T[k][a] \subseteq N
    BY DEF WalkSets
  <1>2. \A k \in Nat : \A a, x \in N : x \in T[k + 1][a] <=> \E c \in T[k][a] : x \in S[c]
    BY DEF WalkSets
  <1>3. \A k \in Nat : \A a, x \in N : x \in T[k + 1][a] <=> \E d \in S[a] : x \in T[k][d]
    <2>1. FirstEdges(N, S, T)
      BY WalkFirst
    <2> QED BY <2>1 DEF FirstEdges
  <1> DEFINE P == {k \in Nat : \A x \in N : \A n \in Nat : n # 0 /\ T[k][x] = {} => x \notin T[n][x]}
  <1>4. 0 \in P
    BY <1>1
  <1>5. ASSUME NEW k \in Nat, k \in P PROVE k + 1 \in P
    <2> SUFFICES ASSUME NEW x \in N, NEW n \in Nat, n # 0, T[k + 1][x] = {}, x \in T[n][x] PROVE FALSE
      OBVIOUS
    <2>1. n - 1 \in Nat /\ (n - 1) + 1 = n
      OBVIOUS
    <2>2. PICK d \in S[x] : x \in T[n - 1][d]
      BY <1>3, <2>1
    <2>3. d \in N
      BY <1>1
    <2>4. d \in T[n][d]
      BY <1>2, <2>1, <2>2, <2>3
    <2>5. T[k][d] = {}
      <3>1. \A y \in N : y \notin T[k][d]
        BY <1>3
      <3> QED BY <1>1, <2>3, <3>1
    <2> QED BY <1>5, <2>3, <2>4, <2>5
  <1> HIDE DEF P
  <1>6. M \in P
    BY <1>4, <1>5, NaturalsByStep
  <1> QED BY <1>6 DEF P

\* A list is a list of its members.
LEMMA ListWithin ==
  ASSUME NEW A, NEW B, NEW list \in Seq(A), ToSet(list) \subseteq B
  PROVE  list \in Seq(B)
PROOF
  <1>1. Len(list) \in Nat /\ DOMAIN list = 1 .. Len(list) /\ list \in [1 .. Len(list) -> A]
    BY LenProperties
  <1>2. \A i \in 1 .. Len(list) : list[i] \in B
    BY <1>1 DEF ToSet
  <1>3. list \in [1 .. Len(list) -> B]
    BY <1>1, <1>2
  <1> QED BY <1>1, <1>3

\* The bound on a step's dependents, over the dependencies or over the steps.
LEMMA FanoutExact ==
  ASSUME NEW steps
  PROVE  FanoutBounded(steps) <=>
           \A i \in DOMAIN steps :
             /\ ToSet(steps[i].deps) \subseteq Ids(steps)
             /\ (\E j \in DOMAIN steps : steps[i].id \in ToSet(steps[j].deps)) =>
                  Cardinality({j \in DOMAIN steps : Contains(steps[j].deps, steps[i].id)}) <= MaxFanout
PROOF
  <1> DEFINE Fan(x) == Cardinality({j \in DOMAIN steps : Contains(steps[j].deps, x)})
  <1>1. \A x : StepFanout(steps, x) = Fan(x)
    BY DEF StepFanout, Quantify
  <1> HIDE DEF Fan
  <1>2. FanoutBounded(steps) <=> \A i \in DOMAIN steps : \A d \in ToSet(steps[i].deps) : d \in Ids(steps) /\ Fan(d) <= MaxFanout
    BY <1>1 DEF FanoutBounded
  <1>3. \A d : d \in Ids(steps) <=> \E i \in DOMAIN steps : d = steps[i].id
    BY DEF Ids
  <1>4. ASSUME FanoutBounded(steps), NEW i \in DOMAIN steps
        PROVE  ToSet(steps[i].deps) \subseteq Ids(steps) /\
               ((\E j \in DOMAIN steps : steps[i].id \in ToSet(steps[j].deps)) => Fan(steps[i].id) <= MaxFanout)
    BY <1>2, <1>4
  <1>5. ASSUME \A i \in DOMAIN steps :
                 ToSet(steps[i].deps) \subseteq Ids(steps) /\
                 ((\E j \in DOMAIN steps : steps[i].id \in ToSet(steps[j].deps)) => Fan(steps[i].id) <= MaxFanout)
        PROVE  FanoutBounded(steps)
    <2> SUFFICES ASSUME NEW i \in DOMAIN steps, NEW d \in ToSet(steps[i].deps) PROVE d \in Ids(steps) /\ Fan(d) <= MaxFanout
      BY <1>2
    <2>1. d \in Ids(steps)
      BY <1>5
    <2>2. PICK k \in DOMAIN steps : d = steps[k].id
      BY <1>3, <2>1
    <2> QED BY <1>5, <2>1, <2>2
  <1>6. FanoutBounded(steps) \in BOOLEAN
    BY DEF FanoutBounded
  <1> QED BY <1>4, <1>5, <1>6 DEF Fan

\* The two statements of what does not involve walks.
LEMMA LocalRulesAgree ==
  ASSUME NEW steps, NEW X, steps \in Seq(X), \A i \in DOMAIN steps : steps[i].deps \in Seq(STRING)
  PROVE  LET Local == /\ Len(steps) \in 1 .. MaxSteps /\ (\A i \in DOMAIN steps : ValidStep(steps[i]))
                      /\ DuplicateFree(steps) /\ FanoutBounded(steps)
             Safe == /\ Len(steps) \in 1 .. MaxSteps /\ (\A i \in DOMAIN steps : steps[i].ok)
                     /\ \A i, j \in DOMAIN steps : i # j => steps[i].id # steps[j].id
                     /\ \A i \in DOMAIN steps :
                          /\ ToSet(steps[i].deps) \subseteq Ids(steps) /\ IsInjective(steps[i].deps)
                          /\ Cardinality({j \in DOMAIN steps : Contains(steps[j].deps, steps[i].id)}) <= MaxFanout
         IN (Local <=> Safe) /\ (Safe => PlanGraph(steps) /\ UniqueIds(steps))
PROOF
  <1> DEFINE Fan(i) == Cardinality({j \in DOMAIN steps : Contains(steps[j].deps, steps[i].id)})
             Named1(i) == \E j \in DOMAIN steps : steps[i].id \in ToSet(steps[j].deps)
             Unique == \A i, j \in DOMAIN steps : i # j => steps[i].id # steps[j].id
             Inside == \A i \in DOMAIN steps : ToSet(steps[i].deps) \subseteq Ids(steps)
             Injective == \A i \in DOMAIN steps : IsInjective(steps[i].deps)
             Fanned == \A i \in DOMAIN steps : Fan(i) <= MaxFanout
  <1>1. Len(steps) \in Nat /\ DOMAIN steps = 1 .. Len(steps)
    BY LenProperties
  <1>2. DuplicateFree(steps) <=> Unique /\ Injective
    <2>1. Cardinality(Ids(steps)) = Len(steps) <=> UniqueIds(steps)
      BY <1>1, IdsCounted
    <2>2. UniqueIds(steps) <=> Unique
      BY DEF UniqueIds
    <2> HIDE DEF Unique
    <2> QED BY <2>1, <2>2 DEF DuplicateFree
  <1>3. FanoutBounded(steps) <=> Inside /\ Fanned
    <2>1. \A i \in DOMAIN steps : ~Named1(i) => Fan(i) <= MaxFanout
      <3> SUFFICES ASSUME NEW i \in DOMAIN steps, ~Named1(i) PROVE Fan(i) <= MaxFanout
        OBVIOUS
      <3>1. \A j \in DOMAIN steps : ~Contains(steps[j].deps, steps[i].id)
        <4> SUFFICES ASSUME NEW j \in DOMAIN steps, Contains(steps[j].deps, steps[i].id) PROVE FALSE
          OBVIOUS
        <4>1. DOMAIN steps[j].deps = 1 .. Len(steps[j].deps)
          BY LenProperties
        <4>2. steps[i].id \in ToSet(steps[j].deps)
          BY <4>1 DEF Contains, ToSet
        <4> QED BY <4>2
      <3>2. {j \in DOMAIN steps : Contains(steps[j].deps, steps[i].id)} = {}
        BY <3>1
      <3>3. Fan(i) = 0
        BY <3>2, FS_EmptySet
      <3>4. MaxFanout \in Nat
        BY PlanRulesAssumption
      <3> HIDE DEF Fan
      <3> QED BY <3>3, <3>4
    <2>2. FanoutBounded(steps) <=> \A i \in DOMAIN steps : ToSet(steps[i].deps) \subseteq Ids(steps) /\ (Named1(i) => Fan(i) <= MaxFanout)
      BY FanoutExact
    <2> HIDE DEF Fan, Named1
    <2> QED BY <2>1, <2>2
  <1>4. Inside => PlanGraph(steps)
    <2> SUFFICES ASSUME Inside, NEW i \in DOMAIN steps PROVE steps[i].deps \in Seq(Ids(steps))
      BY <1>1 DEF PlanGraph
    <2>1. steps[i].deps \in Seq(STRING) /\ ToSet(steps[i].deps) \subseteq Ids(steps)
      OBVIOUS
    <2> QED BY <2>1, ListWithin
  <1>5. Unique => UniqueIds(steps)
    BY DEF UniqueIds
  <1>6. (\A i \in DOMAIN steps : ValidStep(steps[i])) <=> (\A i \in DOMAIN steps : steps[i].ok)
    BY DEF ValidStep
  <1>7. (\A i \in DOMAIN steps :
           /\ ToSet(steps[i].deps) \subseteq Ids(steps) /\ IsInjective(steps[i].deps)
           /\ Cardinality({j \in DOMAIN steps : Contains(steps[j].deps, steps[i].id)}) <= MaxFanout)
        <=> Inside /\ Injective /\ Fanned
    <2> HIDE DEF Fan
    <2>1. (\A i \in DOMAIN steps : ToSet(steps[i].deps) \subseteq Ids(steps) /\ IsInjective(steps[i].deps) /\ Fan(i) <= MaxFanout)
          <=> Inside /\ Injective /\ Fanned
      BY Zenon
    <2> QED BY <2>1 DEF Fan
  <1> HIDE DEF Inside, Injective, Fanned
  <1> QED BY <1>2, <1>3, <1>4, <1>5, <1>6, <1>7

\* The bound on the depth, stated with paths.
NoLongPath(steps) == \A a, b \in Ids(steps) : ~Path(steps, a, b, MaxPlanDepth)

\* The depth walk accepts exactly the plans without a path of MAX_DEPTH edges,
\* and in such a plan nothing is upstream of itself.
LEMMA DepthExact ==
  ASSUME NEW steps, PlanGraph(steps)
  PROVE  /\ DepthBounded(steps) <=> NoLongPath(steps)
         /\ NoLongPath(steps) => \A a \in Ids(steps) : ~Upstream(steps, a, a)
PROOF
  <1> DEFINE N == Ids(steps)
             next == NextOf(steps)
             S == SuccOf(steps)
             M == MaxPlanDepth
  <1>1. /\ IsFiniteSet(N) /\ Len(steps) \in Nat /\ M \in Nat
        /\ next \in [N -> Seq(N)] /\ S \in [N -> SUBSET N] /\ \A x \in N : S[x] = ToSet(next[x])
    BY PlanGraphIs, PlanRulesAssumption DEF PlanGraph
  <1>2. PICK T : WalkSets(N, S, T)
    BY <1>1, WalksExist
  <1>3. \A a \in N : \A x : \A n \in Nat : Path(steps, a, x, n) <=> x \in T[n][a]
    BY <1>2, PathIsWalk
  <1>4. PICK g : DepthWalk(N, next, g) /\ \A x \in N : Depth(steps, x) = g[<<x, {}>>]
    BY DepthOf
  <1>5. DepthBounded(steps) <=> \A x \in N : g[<<x, {}>>] \in 1 .. M
    BY <1>4 DEF DepthBounded
  <1>6. NoLongPath(steps) <=> \A x \in N : T[M][x] = {}
    <2>1. \A x \in N : T[M][x] \subseteq N
      <3> HIDE DEF N, S, M
      <3> QED BY <1>1, <1>2 DEF WalkSets
    <2>2. NoLongPath(steps) <=> \A a, b \in N : b \notin T[M][a]
      BY <1>1, <1>3 DEF NoLongPath
    <2> HIDE DEF N, M
    <2> QED BY <2>1, <2>2
  <1> HIDE DEF N, next, S, M
  <1>7. (\A x \in N : g[<<x, {}>>] \in 1 .. M) <=> (\A x \in N : T[M][x] = {})
    <2>1. Lists(N, next, S)
      BY <1>1 DEF Lists
    <2> QED BY <1>1, <1>2, <1>4, <2>1, DepthIsLength
  <1>8. ASSUME NoLongPath(steps), NEW a \in N, Upstream(steps, a, a) PROVE FALSE
    <2>1. PICK n \in 1 .. Len(steps) : Path(steps, a, a, n)
      BY <1>8 DEF Upstream
    <2>2. n \in Nat /\ n # 0
      BY <1>1, <2>1
    <2>3. a \in T[n][a]
      BY <1>3, <2>1, <2>2
    <2>4. \A x \in N : T[M][x] = {}
      BY <1>6, <1>8
    <2> QED BY <1>1, <1>2, <2>2, <2>3, <2>4, NoCycle
  <1> QED BY <1>5, <1>6, <1>7, <1>8 DEF N

\* The validation accepts exactly the safe plans.
LEMMA ValidatorExact ==
  ASSUME NEW steps, NEW X, steps \in Seq(X), \A i \in DOMAIN steps : steps[i].deps \in Seq(STRING)
  PROVE  ValidateSteps(steps) <=> SafePlan(steps)
PROOF
  <1> DEFINE Local == /\ Len(steps) \in 1 .. MaxSteps /\ (\A i \in DOMAIN steps : ValidStep(steps[i]))
                      /\ DuplicateFree(steps) /\ FanoutBounded(steps)
             Safe == /\ Len(steps) \in 1 .. MaxSteps /\ (\A i \in DOMAIN steps : steps[i].ok)
                     /\ \A i, j \in DOMAIN steps : i # j => steps[i].id # steps[j].id
                     /\ \A i \in DOMAIN steps :
                          /\ ToSet(steps[i].deps) \subseteq Ids(steps) /\ IsInjective(steps[i].deps)
                          /\ Cardinality({j \in DOMAIN steps : Contains(steps[j].deps, steps[i].id)}) <= MaxFanout
             Reads == \A i \in DOMAIN steps : \A from \in steps[i].reads : Upstream(steps, steps[i].id, from)
             Ordered(i, j) == Upstream(steps, steps[i].id, steps[j].id) \/ Upstream(steps, steps[j].id, steps[i].id)
             Writes == \A i \in DOMAIN steps : \A j \in DOMAIN steps \ {i} :
                         steps[i].writes \cap steps[j].writes # {} => Ordered(i, j)
  <1>1. (Local <=> Safe) /\ (Safe => PlanGraph(steps) /\ UniqueIds(steps))
    BY LocalRulesAgree
  <1>2. ValidateSteps(steps) <=> Local /\ SelectorsAreUpstream(steps) /\ WritersAreOrdered(steps) /\ DepthBounded(steps)
    BY DEF ValidateSteps
  <1>3. SafePlan(steps) <=> Safe /\ Reads /\ Writes /\ NoLongPath(steps)
    <2> DEFINE A == Len(steps) \in 1 .. MaxSteps /\ (\A i \in DOMAIN steps : steps[i].ok)
               B == \A i, j \in DOMAIN steps : i # j => steps[i].id # steps[j].id
               C(i) == /\ ToSet(steps[i].deps) \subseteq Ids(steps) /\ IsInjective(steps[i].deps)
                       /\ Cardinality({j \in DOMAIN steps : Contains(steps[j].deps, steps[i].id)}) <= MaxFanout
               R(i) == \A from \in steps[i].reads : Upstream(steps, steps[i].id, from)
               O(i) == \A j \in DOMAIN steps \ {i} : steps[i].writes \cap steps[j].writes # {} => Ordered(i, j)
    <2>1. SafePlan(steps) <=> A /\ B /\ (\A i \in DOMAIN steps : C(i) /\ R(i) /\ O(i)) /\ NoLongPath(steps)
      BY DEF SafePlan, NoLongPath
    <2>2. Safe <=> A /\ B /\ \A i \in DOMAIN steps : C(i)
      OBVIOUS
    <2>3. (Reads <=> \A i \in DOMAIN steps : R(i)) /\ (Writes <=> \A i \in DOMAIN steps : O(i))
      OBVIOUS
    <2> HIDE DEF A, B, C, R, O, Safe, Reads, Writes
    <2> QED BY <2>1, <2>2, <2>3
  <1>4. ASSUME Safe PROVE /\ DepthBounded(steps) <=> NoLongPath(steps)
                          /\ NoLongPath(steps) => (SelectorsAreUpstream(steps) <=> Reads)
                          /\ WritersAreOrdered(steps) <=> Writes
    <2>1. PlanGraph(steps) /\ UniqueIds(steps)
      BY <1>1, <1>4
    <2>2. DepthBounded(steps) <=> NoLongPath(steps)
      BY <2>1, DepthExact
    <2> HIDE DEF Safe, Local
    <2>3. ASSUME NoLongPath(steps) PROVE SelectorsAreUpstream(steps) <=> Reads
      <3>1. \A i \in DOMAIN steps : ~Upstream(steps, steps[i].id, steps[i].id)
        BY <2>1, <2>3, DepthExact DEF Ids
      <3>2. ASSUME NEW i \in DOMAIN steps, NEW from
            PROVE  from # steps[i].id /\ IsTransitiveDependency(steps, steps[i], from) <=> Upstream(steps, steps[i].id, from)
        <4>1. CASE from = steps[i].id
          BY <3>1, <4>1
        <4>2. CASE from # steps[i].id
          BY <2>1, <4>2, FoundIsUpstream
        <4> QED BY <4>1, <4>2
      <3> QED BY <3>2 DEF SelectorsAreUpstream
    <2>4. WritersAreOrdered(steps) <=> Writes
      <3> DEFINE Met(i, j) == steps[i].writes \cap steps[j].writes # {}
                 Found(i, j) == \/ IsTransitiveDependency(steps, steps[i], steps[j].id)
                                \/ IsTransitiveDependency(steps, steps[j], steps[i].id)
      <3>1. \A i, j \in DOMAIN steps : i # j => steps[i].id # steps[j].id
        BY <2>1 DEF UniqueIds
      <3>2. ASSUME NEW i \in DOMAIN steps, NEW j \in DOMAIN steps, i # j PROVE Found(i, j) <=> Ordered(i, j)
        <4>1. steps[i].id # steps[j].id
          BY <3>1, <3>2
        <4>2. /\ IsTransitiveDependency(steps, steps[i], steps[j].id) <=> Upstream(steps, steps[i].id, steps[j].id)
              /\ IsTransitiveDependency(steps, steps[j], steps[i].id) <=> Upstream(steps, steps[j].id, steps[i].id)
          BY <2>1, <4>1, FoundIsUpstream
        <4> QED BY <4>2
      <3>3. WritersAreOrdered(steps) <=> \A i, j \in DOMAIN steps : i < j /\ Met(i, j) => Found(i, j)
        BY DEF WritersAreOrdered
      <3>4. Writes <=> \A i, j \in DOMAIN steps : i # j /\ Met(i, j) => Ordered(i, j)
        OBVIOUS
      <3>5. \A i, j \in DOMAIN steps : (Met(i, j) <=> Met(j, i)) /\ (Ordered(i, j) <=> Ordered(j, i))
        OBVIOUS
      <3>6. \A i, j \in DOMAIN steps : i \in Nat /\ j \in Nat
        BY LenProperties
      <3> HIDE DEF Met, Found, Ordered, Writes
      <3>7. ASSUME \A i, j \in DOMAIN steps : i < j /\ Met(i, j) => Found(i, j),
                   NEW i \in DOMAIN steps, NEW j \in DOMAIN steps, i # j, Met(i, j)
            PROVE  Ordered(i, j)
        <4>1. i < j \/ j < i
          BY <3>6, <3>7
        <4> QED BY <3>2, <3>5, <3>7, <4>1
      <3>8. ASSUME \A i, j \in DOMAIN steps : i # j /\ Met(i, j) => Ordered(i, j),
                   NEW i \in DOMAIN steps, NEW j \in DOMAIN steps, i < j, Met(i, j)
            PROVE  Found(i, j)
        <4>1. i # j
          BY <3>6, <3>8
        <4> QED BY <3>2, <3>8, <4>1
      <3> QED BY <3>3, <3>4, <3>7, <3>8
    <2> QED BY <2>2, <2>3, <2>4
  <1> HIDE DEF Safe, Local, Reads, Writes
  <1> QED BY <1>1, <1>2, <1>3, <1>4

-----------------------------------------------------------------------------
(***************************************************************************)
(* The walk over a batch                                                   *)
(***************************************************************************)
\* One call of the walk of assertAcyclic, with f for the calls it makes.
AcyclicAt(next, f, todo, visiting, visited) ==
  LET id == Head(todo)
      below == f[<<next[id], visiting \cup {id}, visited>>]
  IN IF todo = <<>> THEN [ok |-> TRUE, visited |-> visited]
     ELSE IF id \in visited THEN f[<<Tail(todo), visiting, visited>>]
     ELSE IF id \in visiting THEN [ok |-> FALSE, visited |-> visited]
     ELSE IF ~below.ok THEN below ELSE f[<<Tail(todo), visiting, below.visited \cup {id}>>]

\* What a call answers.
Answers(N) == [ok : BOOLEAN, visited : SUBSET N]

\* At all smaller ranks.
AnswersBelow(N, K, f, list, visiting) ==
  \A l \in Seq(N), v, u \in SUBSET N : Rank(N, K, l, v) < Rank(N, K, list, visiting) => f[<<l, v, u>>] \in Answers(N)
SameBelow(N, K, f, g, list, visiting) ==
  \A l \in Seq(N), v, u \in SUBSET N : Rank(N, K, l, v) < Rank(N, K, list, visiting) => f[<<l, v, u>>] = g[<<l, v, u>>]

\* A call of the walk needs the calls of smaller rank only: what follows in the
\* list, and the dependencies of a task that is not being visited yet.
LEMMA AcyclicStep ==
  ASSUME NEW N, IsFiniteSet(N), NEW next, next \in [N -> Seq(N)], NEW K, ListBound(N, next, K),
         NEW f, NEW list, list \in Seq(N), NEW visiting, visiting \in SUBSET N, NEW visited, visited \in SUBSET N,
         AnswersBelow(N, K, f, list, visiting)
  PROVE  /\ AcyclicAt(next, f, list, visiting, visited) \in Answers(N)
         /\ \A g : SameBelow(N, K, f, g, list, visiting) =>
              AcyclicAt(next, f, list, visiting, visited) = AcyclicAt(next, g, list, visiting, visited)
PROOF
  <1> DEFINE d == Head(list)
             w == visiting \cup {d}
             below == f[<<next[d], w, visited>>]
             after == below.visited \cup {d}
  <1>0. K \in Nat /\ \A x \in N : Len(next[x]) < K
    BY DEF ListBound
  <1>1. CASE list = <<>>
    BY <1>1 DEF AcyclicAt, Answers
  <1>2. CASE list # <<>> /\ d \in visited
    <2>1. Tail(list) \in Seq(N) /\ Rank(N, K, Tail(list), visiting) < Rank(N, K, list, visiting)
      BY <1>0, <1>2, RankOfRest
    <2>2. \A g : AcyclicAt(next, g, list, visiting, visited) = g[<<Tail(list), visiting, visited>>]
      BY <1>2 DEF AcyclicAt
    <2>3. f[<<Tail(list), visiting, visited>>] \in Answers(N)
      BY <2>1 DEF AnswersBelow
    <2>4. \A g : SameBelow(N, K, f, g, list, visiting) => f[<<Tail(list), visiting, visited>>] = g[<<Tail(list), visiting, visited>>]
      BY <2>1 DEF SameBelow
    <2> QED BY <2>2, <2>3, <2>4
  <1>3. CASE list # <<>> /\ d \notin visited /\ d \in visiting
    <2>1. \A g : AcyclicAt(next, g, list, visiting, visited) = [ok |-> FALSE, visited |-> visited]
      BY <1>3 DEF AcyclicAt
    <2>2. [ok |-> FALSE, visited |-> visited] \in Answers(N)
      BY DEF Answers
    <2>3. \A g : AcyclicAt(next, f, list, visiting, visited) = AcyclicAt(next, g, list, visiting, visited)
      BY <2>1
    <2> QED BY <2>1, <2>2, <2>3
  <1>4. CASE list # <<>> /\ d \notin visited /\ d \notin visiting
    <2>1. d \in N /\ w \in SUBSET N /\ next[d] \in Seq(N) /\ Tail(list) \in Seq(N)
      BY <1>0, <1>4, RankOfRest
    <2>2. Rank(N, K, next[d], w) < Rank(N, K, list, visiting)
      BY <1>0, <1>4, <2>1, RankOfRest
    <2>3. below \in Answers(N)
      BY <2>1, <2>2 DEF AnswersBelow
    <2>4. after \in SUBSET N
      BY <2>1, <2>3 DEF Answers
    <2>5. Rank(N, K, Tail(list), visiting) < Rank(N, K, list, visiting)
      BY <1>0, <1>4, RankOfRest
    <2>6. f[<<Tail(list), visiting, after>>] \in Answers(N)
      BY <2>1, <2>4, <2>5 DEF AnswersBelow
    <2>7. \A g : AcyclicAt(next, g, list, visiting, visited) =
                   IF ~g[<<next[d], w, visited>>].ok THEN g[<<next[d], w, visited>>]
                   ELSE g[<<Tail(list), visiting, g[<<next[d], w, visited>>].visited \cup {d}>>]
      BY <1>4 DEF AcyclicAt
    <2> HIDE DEF w, d
    <2>8. AcyclicAt(next, f, list, visiting, visited) \in Answers(N)
      BY <2>3, <2>6, <2>7
    <2>9. ASSUME NEW g, SameBelow(N, K, f, g, list, visiting)
          PROVE  AcyclicAt(next, f, list, visiting, visited) = AcyclicAt(next, g, list, visiting, visited)
      <3>1. g[<<next[d], w, visited>>] = below
        BY <2>1, <2>2, <2>9 DEF SameBelow
      <3>2. g[<<Tail(list), visiting, after>>] = f[<<Tail(list), visiting, after>>]
        <4> HIDE DEF after
        <4> QED BY <2>1, <2>4, <2>5, <2>9 DEF SameBelow
      <3> QED BY <2>7, <3>1, <3>2
    <2> QED BY <2>8, <2>9
  <1> QED BY <1>1, <1>2, <1>3, <1>4

\* A function that satisfies the walk's equation.
AcyclicWalk(N, next, g) == g = [at \in Seq(N) \X (SUBSET N) \X (SUBSET N) |-> AcyclicAt(next, g, at[1], at[2], at[3])]

\* The walk is defined: every call returns.
LEMMA AcyclicExists ==
  ASSUME NEW N, IsFiniteSet(N), NEW next, next \in [N -> Seq(N)], NEW K, ListBound(N, next, K)
  PROVE  \E g : AcyclicWalk(N, next, g)
PROOF
  <1> DEFINE D == Seq(N) \X (SUBSET N) \X (SUBSET N)
             V == Answers(N)
             W == [at \in D |-> V]
             F == Within(D, V, W)
             rank == [at \in D |-> Rank(N, K, at[1], at[2])]
             f0 == [at \in D |-> [ok |-> FALSE, visited |-> {}]]
             E == [f \in F |-> [at \in D |-> AcyclicAt(next, f, at[1], at[2], at[3])]]
  <1>1. K \in Nat
    BY DEF ListBound
  <1>2. \A at \in D : at = <<at[1], at[2], at[3]>> /\ at[1] \in Seq(N) /\ at[2] \in SUBSET N /\ at[3] \in SUBSET N
    OBVIOUS
  <1>3. \A l \in Seq(N), s, u \in SUBSET N : <<l, s, u>> \in D /\ rank[<<l, s, u>>] = Rank(N, K, l, s)
    OBVIOUS
  <1>4. rank \in [D -> Nat]
    BY <1>1, <1>2, RankType
  <1>5. F = [D -> V]
    <2> HIDE DEF D, V
    <2> QED BY DEF Within
  <1>6. f0 \in F
    BY <1>5 DEF Answers
  <1>7. ASSUME NEW f \in F, NEW l \in Seq(N), NEW s \in SUBSET N PROVE AnswersBelow(N, K, f, l, s)
    <2>1. \A at \in D : f[at] \in Answers(N)
      BY <1>5
    <2> HIDE DEF D, F
    <2> QED BY <1>3, <2>1 DEF AnswersBelow
  <1>8. ASSUME NEW f \in F, NEW at \in D PROVE AcyclicAt(next, f, at[1], at[2], at[3]) \in V
    <2>1. at[1] \in Seq(N) /\ at[2] \in SUBSET N /\ at[3] \in SUBSET N
      BY <1>2
    <2>2. AnswersBelow(N, K, f, at[1], at[2])
      BY <1>7, <2>1
    <2> HIDE DEF D, F
    <2> QED BY <2>1, <2>2, AcyclicStep
  <1>9. \A f \in F : E[f] = [at \in D |-> AcyclicAt(next, f, at[1], at[2], at[3])]
    OBVIOUS
  <1>10. E \in [F -> F]
    <2> SUFFICES ASSUME NEW f \in F PROVE [at \in D |-> AcyclicAt(next, f, at[1], at[2], at[3])] \in F
      OBVIOUS
    <2> HIDE DEF D, F, V
    <2> QED BY <1>5, <1>8
  <1>11. Ranked(F, D, rank, E)
    <2> SUFFICES ASSUME NEW f \in F, NEW g \in F, NEW x \in D, \A y \in D : rank[y] < rank[x] => f[y] = g[y]
                 PROVE  E[f][x] = E[g][x]
      BY DEF Ranked
    <2>1. x[1] \in Seq(N) /\ x[2] \in SUBSET N /\ x[3] \in SUBSET N /\ rank[x] = Rank(N, K, x[1], x[2])
      BY <1>2
    <2>2. SameBelow(N, K, f, g, x[1], x[2])
      <3> HIDE DEF D, rank
      <3> QED BY <1>3, <2>1 DEF SameBelow
    <2>3. AcyclicAt(next, f, x[1], x[2], x[3]) = AcyclicAt(next, g, x[1], x[2], x[3])
      <3>1. AnswersBelow(N, K, f, x[1], x[2])
        BY <1>7, <2>1
      <3> DEFINE l == x[1]
                 v == x[2]
                 u == x[3]
      <3>2. l \in Seq(N) /\ v \in SUBSET N /\ u \in SUBSET N /\ AnswersBelow(N, K, f, l, v)
        BY <2>1, <3>1
      <3> HIDE DEF D, F, rank, l, v, u
      <3>3. \A h : SameBelow(N, K, f, h, l, v) => AcyclicAt(next, f, l, v, u) = AcyclicAt(next, h, l, v, u)
        BY <3>2, AcyclicStep
      <3> QED BY <2>2, <3>3 DEF l, v, u
    <2>4. E[f][x] = AcyclicAt(next, f, x[1], x[2], x[3]) /\ E[g][x] = AcyclicAt(next, g, x[1], x[2], x[3])
      BY <1>9
    <2> QED BY <2>3, <2>4
  <1>12. PICK f \in F : E[f] = f
    <2>1. F = Within(D, V, W)
      OBVIOUS
    <2> HIDE DEF W, rank, f0, E, D, V, F
    <2>2. \E f : f \in F /\ E[f] = f
      BY <1>4, <1>6, <1>10, <1>11, <2>1, FixpointExists
    <2> QED BY <2>2
  <1>13. f = [at \in D |-> AcyclicAt(next, f, at[1], at[2], at[3])]
    BY <1>9, <1>12
  <1> QED BY <1>13 DEF AcyclicWalk

\* Its answers have the type of answers.
LEMMA AcyclicTyped ==
  ASSUME NEW N, IsFiniteSet(N), NEW next, next \in [N -> Seq(N)], NEW K, ListBound(N, next, K),
         NEW g, AcyclicWalk(N, next, g)
  PROVE  \A l \in Seq(N), v, u \in SUBSET N : g[<<l, v, u>>] \in Answers(N)
PROOF
  <1> DEFINE P == {k \in Nat : \A l \in Seq(N), v, u \in SUBSET N : Rank(N, K, l, v) = k => g[<<l, v, u>>] \in Answers(N)}
  <1>1. K \in Nat
    BY DEF ListBound
  <1>2. \A l \in Seq(N), v, u \in SUBSET N : g[<<l, v, u>>] = AcyclicAt(next, g, l, v, u)
    BY DEF AcyclicWalk
  <1>3. \A l \in Seq(N), v \in SUBSET N : Rank(N, K, l, v) \in Nat
    BY <1>1, RankType
  <1>4. ASSUME NEW k \in Nat, \A j \in Nat : j < k => j \in P PROVE k \in P
    <2> SUFFICES ASSUME NEW l \in Seq(N), NEW v \in SUBSET N, NEW u \in SUBSET N, Rank(N, K, l, v) = k
                 PROVE  g[<<l, v, u>>] \in Answers(N)
      OBVIOUS
    <2>1. AnswersBelow(N, K, g, l, v)
      BY <1>3, <1>4 DEF AnswersBelow
    <2>2. AcyclicAt(next, g, l, v, u) \in Answers(N)
      <3> HIDE DEF P
      <3> QED BY <2>1, AcyclicStep
    <2> QED BY <1>2, <2>2
  <1> HIDE DEF P
  <1>5. \A k \in Nat : k \in P
    BY <1>4, NaturalsByCourse
  <1> QED BY <1>3, <1>5 DEF P

\* A set of nodes that keeps its walks, and from which none has as many edges
\* as the set has nodes.
Grounded(N, S, T, C) == C \subseteq N /\ \A x \in C : S[x] \subseteq C /\ T[Cardinality(C)][x] = {}

\* A node whose successors are grounded can join them.
LEMMA GroundedGrows ==
  ASSUME NEW M, NEW S, NEW T, WalkSets(M, S, T), NEW N, N \subseteq M, IsFiniteSet(N), NEW C, Grounded(N, S, T, C),
         NEW d, d \in N, S[d] \subseteq C
  PROVE  Grounded(N, S, T, C \cup {d})
PROOF
  <1> DEFINE c == Cardinality(C)
             e == Cardinality(C \cup {d})
  <1>0. C \subseteq N /\ \A x \in C : S[x] \subseteq C /\ T[c][x] = {}
    BY DEF Grounded
  <1>1. CASE d \in C
    <2>1. C \cup {d} = C
      BY <1>1
    <2> QED BY <2>1
  <1>2. CASE d \notin C
    <2>1. IsFiniteSet(C)
      BY <1>0, FS_Subset
    <2>2. c \in Nat /\ e = c + 1
      BY <1>2, <2>1, FS_CardinalityType, FS_AddElement
    <2> HIDE DEF c, e
    <2>3. \A x \in C : T[e][x] = {}
      <3> SUFFICES ASSUME NEW x \in C PROVE T[e][x] = {}
        OBVIOUS
      <3>1. x \in M /\ T[c][x] = {} /\ c <= e /\ e \in Nat
        BY <1>0, <2>2
      <3> QED BY <2>2, <3>1, WalksStop
    <2>4. T[e][d] = {}
      <3>1. \A x \in M : x \in T[c + 1][d] <=> \E y \in S[d] : x \in T[c][y]
        <4>1. FirstEdges(M, S, T)
          BY WalkFirst
        <4>2. d \in M
          OBVIOUS
        <4> QED BY <2>2, <4>1, <4>2 DEF FirstEdges
      <3>2. \A y \in S[d] : T[c][y] = {}
        BY <1>0
      <3>3. T[c + 1][d] \subseteq M
        BY <2>2 DEF WalkSets
      <3> QED BY <2>2, <3>1, <3>2, <3>3
    <2>5. \A x \in C \cup {d} : S[x] \subseteq C \cup {d} /\ T[e][x] = {}
      BY <1>0, <2>3, <2>4
    <2> QED BY <1>0, <2>5 DEF Grounded, e
  <1> QED BY <1>1, <1>2

\* A walk that ends well leaves its list among the visited, which stay grounded.
AcyclicRight(N, S, T, list, visited, r) ==
  r.ok => /\ visited \subseteq r.visited /\ ToSet(list) \subseteq r.visited
          /\ Grounded(N, S, T, visited) => Grounded(N, S, T, r.visited)

\* Every answer of the walk is right, by induction on the rank of the call.
LEMMA AcyclicIsRight ==
  ASSUME NEW N, IsFiniteSet(N), NEW next, next \in [N -> Seq(N)], NEW K, ListBound(N, next, K),
         NEW g, AcyclicWalk(N, next, g), NEW M, N \subseteq M, NEW S, NEW T, WalkSets(M, S, T), Lists(N, next, S)
  PROVE  \A l \in Seq(N), v, u \in SUBSET N : AcyclicRight(N, S, T, l, u, g[<<l, v, u>>])
PROOF
  <1> DEFINE Right(l, v, u) == AcyclicRight(N, S, T, l, u, g[<<l, v, u>>])
             P == {k \in Nat : \A l \in Seq(N), v, u \in SUBSET N : Rank(N, K, l, v) = k => Right(l, v, u)}
  <1>1. K \in Nat /\ \A x \in N : Len(next[x]) < K
    BY DEF ListBound
  <1>2. \A l \in Seq(N), v, u \in SUBSET N : g[<<l, v, u>>] = AcyclicAt(next, g, l, v, u)
    BY DEF AcyclicWalk
  <1>3. \A l \in Seq(N), v \in SUBSET N : Rank(N, K, l, v) \in Nat
    BY <1>1, RankType
  <1>4. \A l \in Seq(N), v, u \in SUBSET N : g[<<l, v, u>>] \in Answers(N)
    BY AcyclicTyped
  <1>5. ASSUME NEW k \in Nat, \A j \in Nat : j < k => j \in P PROVE k \in P
    <2> SUFFICES ASSUME NEW list \in Seq(N), NEW visiting \in SUBSET N, NEW visited \in SUBSET N, Rank(N, K, list, visiting) = k
                 PROVE  Right(list, visiting, visited)
      <3> HIDE DEF Right
      <3> QED OBVIOUS
    <2>1. \A l \in Seq(N), v, u \in SUBSET N : Rank(N, K, l, v) < Rank(N, K, list, visiting) => Right(l, v, u)
      <3> HIDE DEF Right
      <3> QED BY <1>3, <1>5
    <2> HIDE DEF P
    <2> DEFINE r == g[<<list, visiting, visited>>]
               d == Head(list)
               w == visiting \cup {d}
               below == g[<<next[d], w, visited>>]
               after == below.visited \cup {d}
    <2>2. r = AcyclicAt(next, g, list, visiting, visited)
      BY <1>2
    <2>3. CASE list = <<>>
      <3>1. r = [ok |-> TRUE, visited |-> visited]
        BY <2>2, <2>3 DEF AcyclicAt
      <3>2. ToSet(list) = {}
        BY <2>3 DEF ToSet
      <3> HIDE DEF r
      <3>3. AcyclicRight(N, S, T, list, visited, r)
        BY <3>1, <3>2 DEF AcyclicRight
      <3> QED BY <3>3 DEF r
    <2>4. CASE list # <<>> /\ d \in visited
      <3>1. Tail(list) \in Seq(N) /\ Rank(N, K, Tail(list), visiting) < Rank(N, K, list, visiting)
        BY <1>1, <2>4, RankOfRest
      <3>2. r = g[<<Tail(list), visiting, visited>>]
        BY <2>2, <2>4 DEF AcyclicAt
      <3>3. AcyclicRight(N, S, T, Tail(list), visited, r)
        BY <2>1, <3>1, <3>2
      <3>4. ToSet(list) = {d} \cup ToSet(Tail(list))
        BY <2>4, HeadAndTail
      <3> HIDE DEF r, d
      <3>5. AcyclicRight(N, S, T, list, visited, r)
        BY <2>4, <3>3, <3>4 DEF AcyclicRight
      <3> QED BY <3>5 DEF r
    <2>5. CASE list # <<>> /\ d \notin visited /\ d \in visiting
      <3>1. r = [ok |-> FALSE, visited |-> visited]
        BY <2>2, <2>5 DEF AcyclicAt
      <3> HIDE DEF r
      <3>2. AcyclicRight(N, S, T, list, visited, r)
        BY <3>1 DEF AcyclicRight
      <3> QED BY <3>2 DEF r
    <2>6. CASE list # <<>> /\ d \notin visited /\ d \notin visiting
      <3>1. d \in N /\ w \in SUBSET N /\ next[d] \in Seq(N) /\ Tail(list) \in Seq(N)
        BY <1>1, <2>6, RankOfRest
      <3>2. Rank(N, K, next[d], w) < Rank(N, K, list, visiting) /\ Rank(N, K, Tail(list), visiting) < Rank(N, K, list, visiting)
        BY <1>1, <2>6, <3>1, RankOfRest
      <3>3. AcyclicRight(N, S, T, next[d], visited, below) /\ below \in Answers(N)
        BY <1>4, <2>1, <3>1, <3>2
      <3>4. CASE ~below.ok
        <4>1. r = below
          BY <2>2, <2>6, <3>4 DEF AcyclicAt
        <4> HIDE DEF r, below
        <4>2. AcyclicRight(N, S, T, list, visited, r)
          BY <3>4, <4>1 DEF AcyclicRight
        <4> QED BY <4>2 DEF r
      <3>5. CASE below.ok
        <4>1. r = g[<<Tail(list), visiting, after>>]
          BY <2>2, <2>6, <3>5 DEF AcyclicAt
        <4>2. after \in SUBSET N
          BY <3>1, <3>3 DEF Answers
        <4>3. AcyclicRight(N, S, T, Tail(list), after, r)
          <5> HIDE DEF after
          <5> QED BY <2>1, <3>1, <3>2, <4>1, <4>2
        <4>4. ToSet(list) = {d} \cup ToSet(Tail(list))
          BY <2>6, HeadAndTail
        <4>5. visited \subseteq after /\ d \in after
          <5> HIDE DEF below, d
          <5> QED BY <3>3, <3>5 DEF AcyclicRight
        <4>6. ASSUME Grounded(N, S, T, visited) PROVE Grounded(N, S, T, after)
          <5> HIDE DEF below, d
          <5>1. Grounded(N, S, T, below.visited) /\ ToSet(next[d]) \subseteq below.visited
            BY <3>3, <3>5, <4>6 DEF AcyclicRight
          <5>2. S[d] \subseteq below.visited
            BY <3>1, <5>1 DEF Lists
          <5> QED BY <3>1, <5>1, <5>2, GroundedGrows
        <4> HIDE DEF r, after, d
        <4>7. AcyclicRight(N, S, T, list, visited, r)
          BY <4>3, <4>4, <4>5, <4>6 DEF AcyclicRight
        <4> QED BY <4>7 DEF r
      <3> QED BY <3>4, <3>5
    <2> QED BY <2>3, <2>4, <2>5, <2>6
  <1> HIDE DEF P, Right
  <1>6. \A k \in Nat : k \in P
    BY <1>5, NaturalsByCourse
  <1> QED BY <1>3, <1>6 DEF P, Right

\* The cycle check of a batch is the answer of a walk over its tasks.
LEMMA AcyclicOf ==
  ASSUME NEW b, PlanGraph(b)
  PROVE  \E g : AcyclicWalk(Ids(b), NextOf(b), g) /\ (Acyclic(b) <=> g[<<[i \in DOMAIN b |-> b[i].id], {}, {}>>].ok)
PROOF
  <1> DEFINE N == Ids(b)
             next == NextOf(b)
             ids == TaskIds(b)
             visit[at \in Seq(ids) \X (SUBSET ids) \X (SUBSET ids)] ==
               LET todo == at[1]
                   visiting == at[2]
                   visited == at[3]
                   id == Head(todo)
                   task == b[CHOOSE i \in DOMAIN b : b[i].id = id]
               IN IF todo = <<>> THEN [ok |-> TRUE, visited |-> visited]
                  ELSE IF id \in visited THEN visit[<<Tail(todo), visiting, visited>>]
                  ELSE IF id \in visiting THEN [ok |-> FALSE, visited |-> visited]
                  ELSE LET below == visit[<<task.deps, visiting \cup {id}, visited>>]
                       IN IF ~below.ok THEN below ELSE visit[<<Tail(todo), visiting, below.visited \cup {id}>>]
             At(f, at) ==
               LET todo == at[1]
                   visiting == at[2]
                   visited == at[3]
                   id == Head(todo)
                   task == b[CHOOSE i \in DOMAIN b : b[i].id = id]
               IN IF todo = <<>> THEN [ok |-> TRUE, visited |-> visited]
                  ELSE IF id \in visited THEN f[<<Tail(todo), visiting, visited>>]
                  ELSE IF id \in visiting THEN [ok |-> FALSE, visited |-> visited]
                  ELSE LET below == f[<<task.deps, visiting \cup {id}, visited>>]
                       IN IF ~below.ok THEN below ELSE f[<<Tail(todo), visiting, below.visited \cup {id}>>]
             D == Seq(ids) \X (SUBSET ids) \X (SUBSET ids)
             Now(f, at) == AcyclicAt(next, f, at[1], at[2], at[3])
  <1>1. IsFiniteSet(N) /\ next \in [N -> Seq(N)] /\ \E K : ListBound(N, next, K)
    BY PlanGraphIs
  <1>2. ids = N
    BY DEF TaskIds, Ids
  <1>3. \A f : \A at \in D : At(f, at) = Now(f, at)
    <2> SUFFICES ASSUME NEW f, NEW at \in D PROVE At(f, at) = Now(f, at)
      OBVIOUS
    <2>1. at[1] \in Seq(N)
      BY <1>2
    <2>2. CASE at[1] = <<>>
      BY <2>2 DEF AcyclicAt
    <2>3. CASE at[1] # <<>>
      <3>1. Head(at[1]) \in N
        BY <2>1, <2>3, HeadTailProperties
      <3>2. next[Head(at[1])] = b[CHOOSE i \in DOMAIN b : b[i].id = Head(at[1])].deps
        BY <3>1 DEF NextOf, StepOf
      <3> HIDE DEF next, D
      <3> QED BY <2>3, <3>2 DEF AcyclicAt
    <2> QED BY <2>2, <2>3
  <1>4. PICK g : AcyclicWalk(N, next, g)
    <2> HIDE DEF N, next
    <2> QED BY <1>1, AcyclicExists
  <1>5. g = [at \in D |-> At(g, at)]
    <2>1. g = [at \in D |-> Now(g, at)]
      BY <1>2, <1>4 DEF AcyclicWalk
    <2> HIDE DEF At, D, Now
    <2> QED BY <1>3, <2>1
  <1>6. visit = [at \in D |-> At(visit, at)]
    <2>1. \E f : f = [at \in D |-> At(f, at)]
      BY <1>5
    <2> QED BY <2>1
  <1>7. Acyclic(b) <=> visit[<<[i \in DOMAIN b |-> b[i].id], {}, {}>>].ok
    BY DEF Acyclic
  <1> HIDE DEF visit, At
  <1>8. visit = [at \in D |-> Now(visit, at)]
    BY <1>3, <1>6
  <1>9. AcyclicWalk(N, next, visit)
    BY <1>2, <1>8 DEF AcyclicWalk
  <1> QED BY <1>7, <1>9

\* In a batch that passes the cycle check no chain has as many edges as there
\* are tasks, whatever graph the tasks are part of.
LEMMA AcyclicStops ==
  ASSUME NEW b, PlanGraph(b), Acyclic(b), NEW M, Ids(b) \subseteq M, NEW S, NEW T, WalkSets(M, S, T), Lists(Ids(b), NextOf(b), S)
  PROVE  \A x \in Ids(b) : T[Len(b)][x] = {}
PROOF
  <1> DEFINE N == Ids(b)
             next == NextOf(b)
             all == [i \in DOMAIN b |-> b[i].id]
  <1>1. IsFiniteSet(N) /\ Cardinality(N) <= Len(b) /\ Len(b) \in Nat /\ next \in [N -> Seq(N)] /\ \E K : ListBound(N, next, K)
    BY PlanGraphIs DEF PlanGraph
  <1>2. PICK K : ListBound(N, next, K)
    BY <1>1
  <1>3. PICK g : AcyclicWalk(N, next, g) /\ g[<<all, {}, {}>>].ok
    BY AcyclicOf
  <1>4. all \in Seq(N) /\ ToSet(all) = N
    <2>1. DOMAIN b = 1 .. Len(b) /\ all \in [1 .. Len(b) -> N]
      BY DEF PlanGraph, Ids
    <2>2. ToSet(all) = N
      BY DEF ToSet, Ids
    <2> QED BY <1>1, <2>1, <2>2
  <1> DEFINE r == g[<<all, {}, {}>>]
  <1>5. r.ok /\ AcyclicRight(N, S, T, all, {}, r)
    <2>1. {} \in SUBSET N
      OBVIOUS
    <2> HIDE DEF N, next, all
    <2>2. \A l \in Seq(N), v, u \in SUBSET N : AcyclicRight(N, S, T, l, u, g[<<l, v, u>>])
      BY <1>1, <1>2, <1>3, AcyclicIsRight DEF N, next
    <2> QED BY <1>3, <1>4, <2>1, <2>2
  <1>6. Grounded(N, S, T, {})
    BY DEF Grounded
  <1> HIDE DEF r
  <1>7. N \subseteq r.visited /\ Grounded(N, S, T, r.visited)
    BY <1>4, <1>5, <1>6 DEF AcyclicRight
  <1>8. r.visited = N
    BY <1>7 DEF Grounded
  <1>9. \A x \in N : T[Cardinality(N)][x] = {}
    BY <1>7, <1>8 DEF Grounded
  <1>10. Cardinality(N) \in Nat
    BY <1>1, FS_CardinalityType
  <1> HIDE DEF N
  <1>11. ASSUME NEW x \in N PROVE T[Len(b)][x] = {}
    <2>1. x \in M
      BY DEF N
    <2> QED BY <1>1, <1>9, <1>10, <2>1, WalksStop
  <1> QED BY <1>11 DEF N

-----------------------------------------------------------------------------
(***************************************************************************)
(* The compiled plan                                                       *)
(***************************************************************************)
\* A Planner's task.
TaskTypes == [id : STRING, agent : STRING, conn : STRING, model : STRING, deps : Seq(STRING), ok : BOOLEAN]

\* The plan made of a batch: a step per task, with the task's id and
\* dependencies, and the Verifier's step behind all of them.
PlanOfBatch(p, b) ==
  /\ DOMAIN p = 1 .. Len(b) + 1 /\ Len(p) = Len(b) + 1
  /\ \A i \in DOMAIN p : p[i].ok /\ p[i].reads = {} /\ p[i].writes = {}
  /\ \A i \in 1 .. Len(b) : p[i].id = b[i].id /\ p[i].deps = b[i].deps
  /\ p[Len(b) + 1].id = "verify" /\ p[Len(b) + 1].deps = [i \in DOMAIN b |-> b[i].id]

\* What compileIterationPlanPatch keeps of a batch.
LEMMA CompiledPlan ==
  ASSUME NEW t, NEW b, b \in Seq(TaskTypes)
  PROVE  PlanOfBatch(CompileIterationPlanPatch(t, b), b)
PROOF
  <1> DEFINE p == CompileIterationPlanPatch(t, b)
             n == Len(b)
  <1>1. n \in Nat /\ DOMAIN b = 1 .. n
    BY LenProperties
  <1>2. p = [i \in 1 .. n + 1 |-> IF i <= n THEN WorkerStep(t, b[i]) ELSE VerifierStep(t, b)]
    BY DEF CompileIterationPlanPatch
  <1> HIDE DEF p, n
  <1>3. DOMAIN p = 1 .. n + 1 /\ Len(p) = n + 1
    <2>1. DOMAIN p = 1 .. n + 1 /\ n + 1 \in Nat
      BY <1>1, <1>2
    <2> QED BY <1>2, <2>1
  <1>4. \A i \in 1 .. n : i \in 1 .. n + 1 /\ p[i] = WorkerStep(t, b[i])
    BY <1>1, <1>2
  <1>5. n + 1 \in 1 .. n + 1 /\ p[n + 1] = VerifierStep(t, b)
    BY <1>1, <1>2
  <1>6. \A i \in 1 .. n : p[i].id = b[i].id /\ p[i].deps = b[i].deps /\ p[i].ok /\ p[i].reads = {} /\ p[i].writes = {}
    <2>1. ASSUME NEW k
          PROVE  LET s == WorkerStep(t, k) IN s.id = k.id /\ s.deps = k.deps /\ s.ok /\ s.reads = {} /\ s.writes = {}
      BY Zenon DEF WorkerStep
    <2> QED BY <1>4, <2>1
  <1>7. /\ p[n + 1].id = "verify" /\ p[n + 1].deps = [i \in DOMAIN b |-> b[i].id]
        /\ p[n + 1].ok /\ p[n + 1].reads = {} /\ p[n + 1].writes = {}
    BY <1>5 DEF VerifierStep
  <1>8. \A i \in 1 .. n + 1 : i \in 1 .. n \/ i = n + 1
    BY <1>1
  <1>9. \A i \in DOMAIN p : p[i].ok /\ p[i].reads = {} /\ p[i].writes = {}
    BY <1>3, <1>6, <1>7, <1>8
  <1> QED BY <1>3, <1>6, <1>7, <1>9 DEF PlanOfBatch, p, n

\* Its graph: the tasks, and one node more that depends on every task.
LEMMA CompiledGraph ==
  ASSUME NEW b, b \in Seq(TaskTypes), NEW p, PlanOfBatch(p, b), Len(b) # 0,
         \A i \in DOMAIN b : ToSet(b[i].deps) \subseteq TaskIds(b)
  PROVE  /\ PlanGraph(p) /\ PlanGraph(b) /\ Ids(p) = Ids(b) \cup {"verify"}
         /\ \A i \in DOMAIN p : ToSet(p[i].deps) \subseteq Ids(b) /\ p[i].deps \in Seq(STRING)
         /\ UniqueIds(p) => /\ Lists(Ids(b), NextOf(b), SuccOf(p))
                            /\ SuccOf(p)["verify"] = Ids(b)
PROOF
  <1> DEFINE n == Len(b)
             all == [i \in DOMAIN b |-> b[i].id]
  <1>1. n \in Nat /\ DOMAIN b = 1 .. n /\ n + 1 \in 1 .. n + 1 /\ (\A i \in 1 .. n : i \in 1 .. n + 1)
    BY LenProperties
  <1>2. \A i \in 1 .. n : b[i] \in TaskTypes
    BY <1>1, ElementOfSeq
  <1>3. \A i \in 1 .. n : b[i].deps \in Seq(STRING) /\ b[i].id \in STRING
    BY <1>2 DEF TaskTypes
  <1>4. TaskIds(b) = Ids(b)
    BY DEF TaskIds, Ids
  <1>5. all \in Seq(STRING) /\ ToSet(all) = Ids(b)
    <2>1. all \in [1 .. n -> STRING]
      BY <1>1, <1>3
    <2>2. ToSet(all) = Ids(b)
      BY DEF ToSet, Ids
    <2> QED BY <1>1, <2>1, <2>2
  <1>6. /\ DOMAIN p = 1 .. n + 1 /\ Len(p) = n + 1
        /\ \A i \in 1 .. n : p[i].id = b[i].id /\ p[i].deps = b[i].deps
        /\ p[n + 1].id = "verify" /\ p[n + 1].deps = all
    BY DEF PlanOfBatch
  <1>7. \A i \in 1 .. n + 1 : i \in 1 .. n \/ i = n + 1
    BY <1>1
  <1> HIDE DEF n, all
  <1>8. \A i \in DOMAIN p : ToSet(p[i].deps) \subseteq Ids(b) /\ p[i].deps \in Seq(STRING)
    BY <1>1, <1>3, <1>4, <1>5, <1>6, <1>7
  <1>9. Ids(p) = Ids(b) \cup {"verify"}
    BY <1>1, <1>6, <1>7 DEF Ids
  <1>10. PlanGraph(p)
    <2>1. \A i \in DOMAIN p : p[i].deps \in Seq(Ids(p))
      <3> SUFFICES ASSUME NEW i \in DOMAIN p PROVE p[i].deps \in Seq(Ids(p))
        OBVIOUS
      <3>1. p[i].deps \in Seq(STRING) /\ ToSet(p[i].deps) \subseteq Ids(p)
        BY <1>8, <1>9
      <3> QED BY <3>1, ListWithin
    <2> QED BY <1>1, <1>6, <2>1 DEF PlanGraph
  <1>11. PlanGraph(b)
    <2>1. \A i \in DOMAIN b : b[i].deps \in Seq(Ids(b))
      <3> SUFFICES ASSUME NEW i \in DOMAIN b PROVE b[i].deps \in Seq(Ids(b))
        OBVIOUS
      <3>1. b[i].deps \in Seq(STRING) /\ ToSet(b[i].deps) \subseteq Ids(b)
        BY <1>1, <1>3, <1>4
      <3> QED BY <3>1, ListWithin
    <2> QED BY <1>1, <2>1 DEF PlanGraph, n
  <1>12. ASSUME UniqueIds(p) PROVE Lists(Ids(b), NextOf(b), SuccOf(p)) /\ SuccOf(p)["verify"] = Ids(b)
    <2>1. \A i \in DOMAIN p : StepOf(p, p[i].id) = p[i]
      BY <1>12 DEF UniqueIds, StepOf
    <2>2. SuccOf(p)["verify"] = Ids(b)
      <3>1. StepOf(p, "verify") = p[n + 1]
        BY <1>1, <1>6, <2>1
      <3>2. "verify" \in Ids(p)
        BY <1>9
      <3> QED BY <1>5, <1>6, <3>1, <3>2 DEF SuccOf
    <2>3. ASSUME NEW x \in Ids(b) PROVE SuccOf(p)[x] = ToSet(NextOf(b)[x])
      <3> DEFINE i == CHOOSE i \in DOMAIN b : b[i].id = x
      <3>1. i \in DOMAIN b /\ b[i].id = x
        BY DEF Ids
      <3>2. NextOf(b)[x] = b[i].deps
        BY DEF NextOf, StepOf
      <3> HIDE DEF i
      <3>3. i \in 1 .. n /\ i \in DOMAIN p /\ p[i].id = x /\ p[i].deps = b[i].deps
        BY <1>1, <1>6, <3>1
      <3>4. SuccOf(p)[x] = ToSet(p[i].deps)
        BY <1>9, <2>1, <3>3 DEF SuccOf
      <3> QED BY <3>2, <3>3, <3>4
    <2> QED BY <2>2, <2>3 DEF Lists
  <1> QED BY <1>8, <1>9, <1>10, <1>11, <1>12

\* A parsed batch whose patch fits, and whose tasks leave the Verifier's step
\* id alone, compiles to a safe plan.
LEMMA CompiledIsSafe ==
  ASSUME NEW b, b \in Seq(TaskTypes), NEW p, PlanOfBatch(p, b), ParsedBatch(b), Len(b) + 1 <= MaxOperations,
         "verify" \notin TaskIds(b)
  PROVE  SafePlan(p)
PROOF
  <1> DEFINE n == Len(b)
  <1>0. n \in Nat /\ DOMAIN b = 1 .. n
    BY LenProperties
  <1>1. /\ n # 0 /\ Cardinality(TaskIds(b)) = n /\ Acyclic(b)
        /\ \A i \in DOMAIN b : ToSet(b[i].deps) \subseteq TaskIds(b) /\ IsInjective(b[i].deps) /\ ~Contains(b[i].deps, b[i].id)
    BY <1>0 DEF ParsedBatch, ParsedTask
  <1>2. /\ PlanGraph(p) /\ PlanGraph(b) /\ Ids(p) = Ids(b) \cup {"verify"}
        /\ \A i \in DOMAIN p : ToSet(p[i].deps) \subseteq Ids(b) /\ p[i].deps \in Seq(STRING)
        /\ UniqueIds(p) => Lists(Ids(b), NextOf(b), SuccOf(p)) /\ SuccOf(p)["verify"] = Ids(b)
    BY <1>1, CompiledGraph
  <1>3. TaskIds(b) = Ids(b)
    BY DEF TaskIds, Ids
  <1>4. /\ DOMAIN p = 1 .. n + 1 /\ Len(p) = n + 1
        /\ \A i \in DOMAIN p : p[i].ok /\ p[i].reads = {} /\ p[i].writes = {}
        /\ \A i \in 1 .. n : p[i].id = b[i].id /\ p[i].deps = b[i].deps
        /\ p[n + 1].id = "verify" /\ p[n + 1].deps = [i \in DOMAIN b |-> b[i].id]
    BY DEF PlanOfBatch
  <1>5. n + 1 <= MaxPlanDepth /\ n <= MaxFanout /\ n + 1 <= MaxSteps /\ {MaxOperations, MaxPlanDepth, MaxFanout, MaxSteps} \subseteq Nat
    BY <1>0, BatchAssumption, PlanRulesAssumption
  <1>6. UniqueIds(b)
    BY <1>0, <1>1, <1>3, IdsCounted
  <1>7. \A i \in 1 .. n + 1 : i \in 1 .. n \/ i = n + 1
    BY <1>0
  <1>8. \A i \in 1 .. n : b[i].id \in Ids(b) /\ b[i].id # "verify"
    BY <1>0, <1>3 DEF Ids
  <1> HIDE DEF n
  <1>9. UniqueIds(p)
    <2> SUFFICES ASSUME NEW i \in 1 .. n + 1, NEW j \in 1 .. n + 1, p[i].id = p[j].id PROVE i = j
      BY <1>4 DEF UniqueIds
    <2>1. CASE i = n + 1 \/ j = n + 1
      BY <1>4, <1>7, <1>8, <2>1
    <2>2. CASE i \in 1 .. n /\ j \in 1 .. n
      BY <1>0, <1>4, <1>6, <2>2 DEF UniqueIds
    <2> QED BY <1>7, <2>1, <2>2
  <1>10. ASSUME NEW i \in DOMAIN p PROVE IsInjective(p[i].deps) /\ ~Contains(p[i].deps, p[i].id)
    <2>1. CASE i \in 1 .. n
      BY <1>0, <1>1, <1>4, <2>1
    <2>2. CASE i = n + 1
      <3>1. IsInjective(p[i].deps)
        <4>1. DOMAIN p[i].deps = DOMAIN b /\ \A k \in DOMAIN b : p[i].deps[k] = b[k].id
          BY <1>4, <2>2
        <4> QED BY <1>6, <4>1 DEF IsInjective, UniqueIds
      <3>2. ~Contains(p[i].deps, p[i].id)
        <4>1. DOMAIN p[i].deps = 1 .. Len(p[i].deps)
          BY <1>2, LenProperties
        <4>2. \A k \in DOMAIN p[i].deps : p[i].deps[k] # "verify"
          BY <1>0, <1>4, <1>8, <2>2
        <4> QED BY <1>4, <2>2, <4>1, <4>2 DEF Contains
      <3> QED BY <3>1, <3>2
    <2> QED BY <1>4, <1>7, <2>1, <2>2
  <1>11. ASSUME NEW i \in DOMAIN p
         PROVE  Cardinality({j \in DOMAIN p : Contains(p[j].deps, p[i].id)}) <= MaxFanout
    <2> DEFINE I == 1 .. n + 1
               Q == {j \in DOMAIN p : Contains(p[j].deps, p[i].id)}
    <2>1. IsFiniteSet(I) /\ Cardinality(I) = n + 1
      <3>1. 1 \in Int /\ n + 1 \in Int
        BY <1>0
      <3>2. IsFiniteSet(1 .. n + 1) /\ Cardinality(1 .. n + 1) = IF 1 > n + 1 THEN 0 ELSE (n + 1) - 1 + 1
        BY <3>1, FS_Interval
      <3> QED BY <1>0, <3>2
    <2>2. Q \subseteq I \ {i} /\ i \in I
      BY <1>4, <1>10
    <2> HIDE DEF I, Q
    <2>3. IsFiniteSet(I \ {i}) /\ Cardinality(I \ {i}) = n
      BY <1>0, <2>1, <2>2, FS_RemoveElement
    <2>4. Cardinality(Q) <= n /\ Cardinality(Q) \in Nat
      BY <2>2, <2>3, FS_Subset, FS_CardinalityType
    <2> QED BY <1>0, <1>5, <2>4 DEF Q
  <1>12. PICK T : WalkSets(Ids(p), SuccOf(p), T)
    BY <1>2, PlanGraphIs, WalksExist
  <1>13. \A x \in Ids(p) : T[n + 1][x] = {}
    <2>1. \A x \in Ids(b) : T[n][x] = {}
      <3>1. Ids(b) \subseteq Ids(p)
        BY <1>2
      <3> QED BY <1>1, <1>2, <1>9, <1>12, <3>1, AcyclicStops DEF n
    <2>2. \A x \in Ids(b) : T[n + 1][x] = {}
      <3> SUFFICES ASSUME NEW x \in Ids(b) PROVE T[n + 1][x] = {}
        OBVIOUS
      <3>1. x \in Ids(p) /\ T[n][x] = {} /\ n <= n + 1 /\ n + 1 \in Nat
        BY <1>0, <1>2, <2>1
      <3> QED BY <1>0, <1>12, <3>1, WalksStop
    <2>3. T[n + 1]["verify"] = {}
      <3>1. "verify" \in Ids(p)
        BY <1>2
      <3>2. \A k \in Nat : \A a, x \in Ids(p) : x \in T[k + 1][a] <=> \E d \in SuccOf(p)[a] : x \in T[k][d]
        <4>1. FirstEdges(Ids(p), SuccOf(p), T)
          BY <1>12, WalkFirst
        <4> QED BY <4>1 DEF FirstEdges
      <3>3. T[n + 1]["verify"] \subseteq Ids(p)
        BY <1>0, <1>12, <3>1 DEF WalkSets
      <3>4. \A x \in Ids(p) : x \in T[n + 1]["verify"] <=> \E d \in Ids(b) : x \in T[n][d]
        BY <1>0, <1>2, <1>9, <3>1, <3>2
      <3> QED BY <2>1, <3>3, <3>4
    <2> QED BY <1>2, <2>2, <2>3
  <1>14. ASSUME NEW x \in Ids(p), NEW y \in Ids(p) PROVE ~Path(p, x, y, MaxPlanDepth)
    <2>1. MaxPlanDepth \in Nat /\ n + 1 \in Nat /\ n + 1 <= MaxPlanDepth
      BY <1>0, <1>5
    <2>2. T[MaxPlanDepth][x] = {}
      BY <1>12, <1>13, <2>1, WalksStop
    <2>3. Path(p, x, y, MaxPlanDepth) <=> y \in T[MaxPlanDepth][x]
      BY <1>2, <1>12, <2>1, PathIsWalk
    <2> QED BY <2>2, <2>3
  <1>15. Len(p) \in 1 .. MaxSteps /\ \A i \in DOMAIN p : p[i].ok
    BY <1>0, <1>4, <1>5
  <1>16. \A i, j \in DOMAIN p : i # j => p[i].id # p[j].id
    BY <1>9 DEF UniqueIds
  <1>17. ASSUME NEW i \in DOMAIN p
         PROVE  /\ ToSet(p[i].deps) \subseteq Ids(p) /\ IsInjective(p[i].deps)
                /\ Cardinality({j \in DOMAIN p : Contains(p[j].deps, p[i].id)}) <= MaxFanout
                /\ \A from \in p[i].reads : Upstream(p, p[i].id, from)
                /\ \A j \in DOMAIN p \ {i} :
                     p[i].writes \cap p[j].writes # {} => Upstream(p, p[i].id, p[j].id) \/ Upstream(p, p[j].id, p[i].id)
    <2>1. ToSet(p[i].deps) \subseteq Ids(p)
      BY <1>2
    <2>2. p[i].reads = {} /\ p[i].writes = {}
      BY <1>4
    <2> QED BY <1>10, <1>11, <2>1, <2>2
  <1> QED BY <1>14, <1>15, <1>16, <1>17 DEF SafePlan

\* In a compiled plan that the validation accepts every task is upstream of the
\* Verifier's step.
LEMMA VerifierIsLast ==
  ASSUME NEW b, b \in Seq(TaskTypes), NEW p, PlanOfBatch(p, b), ParsedBatch(b), UniqueIds(p)
  PROVE  \A i \in 1 .. Len(b) : Upstream(p, "verify", b[i].id)
PROOF
  <1>1. Len(b) \in Nat /\ DOMAIN b = 1 .. Len(b)
    BY LenProperties
  <1>2. Len(b) # 0 /\ \A i \in DOMAIN b : ToSet(b[i].deps) \subseteq TaskIds(b)
    BY <1>1 DEF ParsedBatch
  <1>3. PlanGraph(p) /\ Ids(p) = Ids(b) \cup {"verify"} /\ SuccOf(p)["verify"] = Ids(b)
    BY <1>2, CompiledGraph
  <1>4. PICK T : WalkSets(Ids(p), SuccOf(p), T)
    BY <1>3, PlanGraphIs, WalksExist
  <1> SUFFICES ASSUME NEW i \in 1 .. Len(b) PROVE Upstream(p, "verify", b[i].id)
    OBVIOUS
  <1>5. b[i].id \in Ids(b) /\ b[i].id \in Ids(p) /\ "verify" \in Ids(p)
    BY <1>1, <1>3 DEF Ids
  <1>6. T[0]["verify"] = {"verify"} /\ (b[i].id \in T[0 + 1]["verify"] <=> \E c \in T[0]["verify"] : b[i].id \in SuccOf(p)[c])
    BY <1>4, <1>5 DEF WalkSets
  <1>7. b[i].id \in T[1]["verify"]
    BY <1>3, <1>5, <1>6
  <1>8. Path(p, "verify", b[i].id, 1)
    BY <1>3, <1>4, <1>5, <1>7, PathIsWalk
  <1>9. 1 \in 1 .. Len(p)
    BY <1>1 DEF PlanOfBatch
  <1> QED BY <1>8, <1>9 DEF Upstream

\* The two checks agree on a parsed batch whose patch fits.
LEMMA CompiledIsAdmissible ==
  ASSUME NEW t, NEW b, b \in Seq(TaskTypes), ParsedBatch(b), ParsePlanPatch(Additions(CompileIterationPlanPatch(t, b)))
  PROVE  /\ ~ValidateSteps(CompileIterationPlanPatch(t, b)) => "verify" \in TaskIds(b)
         /\ ValidateSteps(CompileIterationPlanPatch(t, b)) =>
              \A i \in 1 .. Len(b) : Upstream(CompileIterationPlanPatch(t, b), "verify", b[i].id)
PROOF
  <1> DEFINE p == CompileIterationPlanPatch(t, b)
             X == {p[i] : i \in DOMAIN p}
  <1>1. PlanOfBatch(p, b)
    BY CompiledPlan
  <1>2. Len(b) \in Nat /\ DOMAIN b = 1 .. Len(b)
    BY LenProperties
  <1>3. Len(b) # 0 /\ \A i \in DOMAIN b : ToSet(b[i].deps) \subseteq TaskIds(b)
    BY <1>2 DEF ParsedBatch
  <1>4. p = [i \in 1 .. Len(b) + 1 |-> IF i <= Len(b) THEN WorkerStep(t, b[i]) ELSE VerifierStep(t, b)]
    BY DEF CompileIterationPlanPatch
  <1>5. Len(b) + 1 <= MaxOperations
    <2>1. Additions(p) = [i \in 1 .. Len(b) + 1 |-> [op |-> "addStep", step |-> p[i]]]
      BY <1>4 DEF Additions
    <2>2. Len(Additions(p)) = Len(b) + 1
      <3> HIDE DEF p
      <3> QED BY <1>2, <2>1
    <2>3. Len(Additions(p)) \in 1 .. MaxOperations
      BY DEF ParsePlanPatch
    <2>4. MaxOperations \in Nat
      BY PlanRulesAssumption
    <2> QED BY <1>2, <2>2, <2>3, <2>4
  <1> HIDE DEF p
  <1>6. ValidateSteps(p) <=> SafePlan(p)
    <2>1. \A i \in DOMAIN p : p[i].deps \in Seq(STRING)
      BY <1>1, <1>3, CompiledGraph
    <2>2. p \in Seq(X)
      <3>1. p \in [1 .. Len(b) + 1 -> X] /\ Len(b) + 1 \in Nat
        BY <1>2, <1>4
      <3> HIDE DEF X
      <3> QED BY <3>1
    <2> HIDE DEF X
    <2> QED BY <2>1, <2>2, ValidatorExact
  <1>7. ASSUME "verify" \notin TaskIds(b) PROVE ValidateSteps(p)
    BY <1>1, <1>5, <1>6, <1>7, CompiledIsSafe
  <1>8. ASSUME ValidateSteps(p) PROVE \A i \in 1 .. Len(b) : Upstream(p, "verify", b[i].id)
    <2>1. UniqueIds(p)
      BY <1>6, <1>8 DEF SafePlan, UniqueIds
    <2> QED BY <1>1, <2>1, VerifierIsLast
  <1> QED BY <1>7, <1>8 DEF p

-----------------------------------------------------------------------------
(***************************************************************************)
(* The plan that was judged                                                *)
(***************************************************************************)
\* A verdict is the validation's answer on the plan that was offered.
OfferInv ==
  /\ offer \in Seq(Drafts)
  /\ verdict = "accepted" => ValidateSteps(offer)
  /\ verdict = "rejected" => ~ValidateSteps(offer)

\* A verdict that agrees with the validation agrees with the reference.
LEMMA OfferInvGives == OfferInv => ValidatorIsExact
PROOF
  <1> SUFFICES ASSUME OfferInv, verdict \in {"accepted", "rejected"} PROVE verdict = "accepted" <=> SafePlan(offer)
    BY DEF ValidatorIsExact
  <1>1. offer \in Seq(Drafts)
    BY DEF OfferInv
  <1>2. \A i \in DOMAIN offer : offer[i] \in Drafts
    BY <1>1, LenProperties, ElementOfSeq
  <1>3. \A i \in DOMAIN offer : offer[i].deps \in Seq(STRING)
    BY <1>2, PlanRulesAssumption
  <1>4. ValidateSteps(offer) <=> SafePlan(offer)
    BY <1>1, <1>3, ValidatorExact
  <1> QED BY <1>4 DEF OfferInv

\* Publishing and patching judge a sequence of drafts; nothing else gives a
\* verdict.
LEMMA OfferStep == PlanInv /\ OfferInv /\ [PlanNext]_planVars => OfferInv'
PROOF
  <1> SUFFICES ASSUME PlanInv, OfferInv, [PlanNext]_planVars PROVE OfferInv'
    OBVIOUS
  <1>1. ASSUME NEW c, c \in Seq(Drafts), Judge(c) PROVE OfferInv'
    <2>1. offer' = c /\ verdict' = IF ValidateSteps(c) THEN "accepted" ELSE "rejected"
      BY <1>1 DEF Judge
    <2>2. ValidateSteps(offer)' <=> ValidateSteps(c)
      BY <2>1
    <2> QED BY <1>1, <2>1, <2>2 DEF OfferInv
  <1>2. ASSUME offer' = <<>>, verdict' \in {"none", "unparsed"} PROVE OfferInv'
    <2>1. <<>> \in Seq(Drafts)
      BY EmptySeq
    <2> QED BY <1>2, <2>1 DEF OfferInv
  <1>3. CASE UNCHANGED planVars
    BY <1>3 DEF planVars, OfferInv
  <1>4. CASE PublishPlan
    <2>1. PICK c \in Candidates : Judge(c)
      BY <1>4 DEF PublishPlan
    <2>2. c \in Seq(Drafts)
      BY PlanRulesAssumption
    <2> QED BY <1>1, <2>1, <2>2
  <1>5. CASE PatchPlan
    <2>1. PICK ops \in Patches :
            IF ~ParsePlanPatch(ops) \/ ApplyPlanPatch(currentPlan, claimed, ops) = <<>>
              THEN verdict' = "unparsed" /\ offer' = <<>> /\ UNCHANGED currentPlan
              ELSE Judge(ApplyPlanPatch(currentPlan, claimed, ops))
      BY <1>5 DEF PatchPlan
    <2>2. currentPlan \in Seq(Drafts) /\ ops \in Seq(Operations)
      BY PlanRulesAssumption DEF PlanInv, Operations
    <2>3. ApplyPlanPatch(currentPlan, claimed, ops) \in Seq(Drafts)
      BY <2>2, PatchLeaves
    <2>4. CASE verdict' = "unparsed" /\ offer' = <<>>
      BY <1>2, <2>4
    <2>5. CASE Judge(ApplyPlanPatch(currentPlan, claimed, ops))
      BY <1>1, <2>3, <2>5
    <2> QED BY <2>1, <2>4, <2>5
  <1>6. CASE ClaimPlanned
    BY <1>2, <1>6 DEF ClaimPlanned
  <1> QED BY <1>3, <1>4, <1>5, <1>6 DEF PlanNext

\* The validation accepts exactly the safe plans, whatever is published and
\* patched: its three walks agree with the paths of the dependency relation
\* (validateSteps, validateGraph, isTransitiveDependency).
THEOREM ValidatorIsExactHolds == PlanSpec => []ValidatorIsExact
PROOF
  <1>1. PlanInit => OfferInv
    <2>1. <<>> \in Seq(Drafts)
      BY EmptySeq
    <2> QED BY <2>1 DEF PlanInit, OfferInv
  <1> QED BY <1>1, PlanInvariance, OfferStep, OfferInvGives, PTL DEF PlanSpec

-----------------------------------------------------------------------------
(***************************************************************************)
(* A batch against the team (TaskBatch)                                    *)
(***************************************************************************)

TargetTypes == [conn : STRING, model : STRING]

\* What a compiled worker may be.
InAuthority(t, s) ==
  /\ \E w \in t.workers :
       \/ s.conn = NotGiven /\ w.kind = "agent" /\ w.name = s.agent
       \/ s.conn # NotGiven /\ w.kind = "connection" /\ w.name = s.conn
  /\ IF s.model # NotGiven THEN \E j \in DOMAIN t.targets : t.targets[j] = [conn |-> s.conn, model |-> s.model]
     ELSE s.conn = NotGiven \/ \A j \in DOMAIN t.targets : t.targets[j].conn # s.conn \/ t.targets[j].model = NotGiven
  /\ \A role \in {t.planner, t.verifier} : role.kind = "connection" => s.conn # role.name

\* The model a task runs with is one that the team froze for its connection.
LEMMA WorkerModelFrozen ==
  ASSUME NEW t, t.targets \in Seq(TargetTypes), NEW k \in TaskTypes, ModelAllowed(t, k), k.conn # NotGiven
  PROVE  IF WorkerModel(t, k) # NotGiven THEN \E j \in DOMAIN t.targets : t.targets[j] = [conn |-> k.conn, model |-> WorkerModel(t, k)]
         ELSE \A j \in DOMAIN t.targets : t.targets[j].conn # k.conn \/ t.targets[j].model = NotGiven
PROOF
  <1> DEFINE T == TargetsFor(t, k.conn)
             m == WorkerModel(t, k)
  <1>1. \A i \in DOMAIN t.targets : t.targets[i] \in TargetTypes
    BY LenProperties, ElementOfSeq
  <1>2. \A i \in T : i \in DOMAIN t.targets /\ t.targets[i] = [conn |-> k.conn, model |-> t.targets[i].model]
    BY <1>1 DEF TargetsFor, TargetTypes
  <1>3. \A i \in DOMAIN t.targets : t.targets[i].conn = k.conn => i \in T
    BY DEF TargetsFor
  <1>4. IsFiniteSet(T) /\ Cardinality(T) \in Nat
    <2>1. DOMAIN t.targets = 1 .. Len(t.targets) /\ Len(t.targets) \in Nat
      BY LenProperties
    <2>2. IsFiniteSet(1 .. Len(t.targets))
      BY <2>1, FS_Interval
    <2>3. T \subseteq 1 .. Len(t.targets)
      BY <2>1 DEF TargetsFor
    <2> QED BY <2>2, <2>3, FS_Subset, FS_CardinalityType
  <1>5. CASE k.model # NotGiven
    <2>1. m = k.model
      BY <1>5 DEF WorkerModel
    <2>2. PICK i \in T : t.targets[i].model = k.model
      BY <1>5 DEF ModelAllowed
    <2> QED BY <1>2, <1>5, <2>1, <2>2
  <1>6. CASE k.model = NotGiven /\ Cardinality(T) = 1
    <2>1. PICK x : T = {x}
      BY <1>4, <1>6, FS_Singleton
    <2>2. m = t.targets[x].model
      <3>1. (CHOOSE i \in T : TRUE) = x
        BY <2>1
      <3> QED BY <1>6, <3>1 DEF WorkerModel
    <2> HIDE DEF T, m
    <2>3. m # NotGiven => \E j \in DOMAIN t.targets : t.targets[j] = [conn |-> k.conn, model |-> m]
      BY <1>2, <2>1, <2>2
    <2>4. m = NotGiven => \A j \in DOMAIN t.targets : t.targets[j].conn # k.conn \/ t.targets[j].model = NotGiven
      BY <1>3, <2>1, <2>2
    <2> QED BY <2>3, <2>4 DEF m
  <1>7. CASE k.model = NotGiven /\ Cardinality(T) # 1
    <2>1. Cardinality(T) <= 1
      BY <1>7 DEF ModelAllowed
    <2>2. Cardinality(T) = 0
      BY <1>4, <1>7, <2>1
    <2>3. T = {}
      BY <1>4, <2>2, FS_EmptySet
    <2>4. m = NotGiven
      BY <1>7 DEF WorkerModel
    <2> QED BY <1>3, <2>3, <2>4
  <1> QED BY <1>5, <1>6, <1>7

LEMMA WorkerInAuthority ==
  ASSUME NEW t, t.targets \in Seq(TargetTypes), NEW k \in TaskTypes, TaskAllowed(t, k)
  PROVE  InAuthority(t, WorkerStep(t, k))
PROOF
  <1> DEFINE s == WorkerStep(t, k)
  <1>1. /\ s.conn = k.conn /\ (k.conn = NotGiven => s.agent = k.agent /\ s.model = NotGiven) /\ (k.conn # NotGiven => s.model = WorkerModel(t, k))
    BY DEF WorkerStep
  <1>2. PICK w \in t.workers : IF k.conn # NotGiven THEN w.kind = "connection" /\ w.name = k.conn ELSE w.kind = "agent" /\ w.name = k.agent
    BY DEF TaskAllowed, Selected
  <1>3. \A role \in {t.planner, t.verifier} : role.kind = "connection" => k.conn # role.name
    BY DEF TaskAllowed, IsRole
  <1>4. k.conn # NotGiven => IF WorkerModel(t, k) # NotGiven THEN \E j \in DOMAIN t.targets : t.targets[j] = [conn |-> k.conn, model |-> WorkerModel(t, k)]
                       ELSE \A j \in DOMAIN t.targets : t.targets[j].conn # k.conn \/ t.targets[j].model = NotGiven
    BY WorkerModelFrozen DEF TaskAllowed
  <1> HIDE DEF s
  <1> QED BY <1>1, <1>2, <1>3, <1>4 DEF InAuthority, s

\* A batch that came as far as the validation was parsed, and so was its patch;
\* an accepted one also fits the team, and its plan is the compiled one.
BatchInv ==
  /\ team \in Teams
  /\ outcome \in {"REJECTED", "accepted"} =>
       /\ batch \in TaskBatches /\ ParsedBatch(batch)
       /\ ParsePlanPatch(Additions(CompileIterationPlanPatch(team, batch)))
       /\ outcome = "accepted" <=> ValidateSteps(CompileIterationPlanPatch(team, batch))
  /\ outcome = "accepted" =>
       /\ workers + Len(batch) <= team.total
       /\ \A i \in DOMAIN batch : TaskAllowed(team, batch[i])
       /\ compiled = CompileIterationPlanPatch(team, batch)

LEMMA BatchInvGives == BatchInv => BatchStaysInAuthority /\ BatchCompilesToValidPlan
PROOF
  <1>1. ASSUME BatchInv, outcome = "accepted"
        PROVE  /\ workers + Len(batch) <= team.total
               /\ \A i \in 1 .. Len(batch) : InAuthority(team, compiled[i])
    <2>1. batch \in Seq(TaskTypes) /\ team.targets \in Seq(TargetTypes)
      BY <1>1, BatchAssumption DEF BatchInv, TaskTypes, TargetTypes
    <2>2. Len(batch) \in Nat /\ DOMAIN batch = 1 .. Len(batch) /\ \A i \in 1 .. Len(batch) : batch[i] \in TaskTypes
      BY <2>1, LenProperties, ElementOfSeq
    <2>3. ASSUME NEW i \in 1 .. Len(batch) PROVE InAuthority(team, compiled[i])
      <3>1. compiled[i] = WorkerStep(team, batch[i])
        <4>1. i \in 1 .. Len(batch) + 1 /\ i <= Len(batch)
          BY <2>2
        <4> QED BY <1>1, <4>1 DEF BatchInv, CompileIterationPlanPatch
      <3>2. TaskAllowed(team, batch[i]) /\ batch[i] \in TaskTypes
        BY <1>1, <2>2 DEF BatchInv
      <3> QED BY <2>1, <3>1, <3>2, WorkerInAuthority
    <2> QED BY <1>1, <2>3 DEF BatchInv
  <1>2. ASSUME BatchInv, outcome \in {"REJECTED", "accepted"}
        PROVE  /\ outcome = "REJECTED" => "verify" \in TaskIds(batch)
               /\ outcome = "accepted" => \A i \in 1 .. Len(batch) : Upstream(compiled, "verify", batch[i].id)
    <2> DEFINE p == CompileIterationPlanPatch(team, batch)
    <2>1. batch \in Seq(TaskTypes)
      BY <1>2, BatchAssumption DEF BatchInv, TaskTypes
    <2>2. ParsedBatch(batch) /\ ParsePlanPatch(Additions(p)) /\ (outcome = "accepted" <=> ValidateSteps(p))
      BY <1>2 DEF BatchInv
    <2>3. /\ ~ValidateSteps(p) => "verify" \in TaskIds(batch)
          /\ ValidateSteps(p) => \A i \in 1 .. Len(batch) : Upstream(p, "verify", batch[i].id)
      BY <2>1, <2>2, CompiledIsAdmissible
    <2>4. outcome = "accepted" => compiled = p
      BY <1>2 DEF BatchInv
    <2> HIDE DEF p
    <2> QED BY <2>2, <2>3, <2>4
  <1>3. BatchInv => BatchStaysInAuthority
    BY <1>1 DEF BatchStaysInAuthority, InAuthority
  <1>4. BatchInv => BatchCompilesToValidPlan
    BY <1>2 DEF BatchCompilesToValidPlan
  <1> QED BY <1>3, <1>4

LEMMA BatchStep == BatchInv /\ [SubmitBatch]_batchVars => BatchInv'
PROOF
  <1> SUFFICES ASSUME BatchInv, [SubmitBatch]_batchVars PROVE BatchInv'
    OBVIOUS
  <1>1. CASE UNCHANGED batchVars
    BY <1>1 DEF batchVars, BatchInv
  <1>2. CASE SubmitBatch
    <2>1. PICK b \in TaskBatches, n \in 0 .. team.total :
            /\ batch' = b /\ workers' = n
            /\ outcome' = IF ~ParsedBatch(b) THEN "invalid"
                          ELSE IF ~WithinLimits(team, b, n) THEN "limit"
                          ELSE IF \E i \in DOMAIN b : ~TaskAllowed(team, b[i]) THEN "denied"
                          ELSE IF ~ParsePlanPatch(Additions(CompileIterationPlanPatch(team, b))) THEN "thrown"
                          ELSE IF ~ValidateSteps(CompileIterationPlanPatch(team, b)) THEN "REJECTED"
                          ELSE "accepted"
            /\ compiled' = IF outcome' = "accepted" THEN CompileIterationPlanPatch(team, b) ELSE <<>>
      BY <1>2 DEF SubmitBatch
    <2>2. team' = team
      BY <1>2 DEF SubmitBatch
    <2> DEFINE p == CompileIterationPlanPatch(team, b)
    <2>3. outcome' \in {"REJECTED", "accepted"} =>
            /\ ParsedBatch(b) /\ WithinLimits(team, b, n) /\ (\A i \in DOMAIN b : TaskAllowed(team, b[i]))
            /\ ParsePlanPatch(Additions(p)) /\ (outcome' = "accepted" <=> ValidateSteps(p))
      <3> HIDE DEF p
      <3> QED BY <2>1 DEF p
    <2>4. /\ ParsedBatch(batch)' <=> ParsedBatch(b)
          /\ CompileIterationPlanPatch(team, batch)' = p
          /\ \A i : TaskAllowed(team, batch[i])' <=> TaskAllowed(team, b[i])
      BY <2>1, <2>2
    <2>5. /\ ParsePlanPatch(Additions(CompileIterationPlanPatch(team, batch)))' <=> ParsePlanPatch(Additions(p))
          /\ ValidateSteps(CompileIterationPlanPatch(team, batch))' <=> ValidateSteps(p)
      BY <2>1, <2>2
    <2>6. outcome' = "accepted" => n + Len(b) <= team.total /\ compiled' = p
      BY <2>1, <2>3 DEF WithinLimits
    <2> HIDE DEF p
    <2> QED BY <2>1, <2>2, <2>3, <2>4, <2>5, <2>6 DEF BatchInv
  <1> QED BY <1>1, <1>2

\* What is admitted is admissible.  The validation accepts exactly the safe
\* plans.  An accepted batch never exceeds the frozen team: every compiled
\* worker runs on an allowed worker with a model frozen for its connection,
\* never on the Planner's or the Verifier's, and within the run's total of
\* workers.  A batch that was parsed and whose patch fits compiles to a plan
\* the validation accepts, unless a task took the Verifier's step id, and the
\* Verifier runs after every task (validateSteps, validateTaskBatchProposal,
\* assertAcyclic, compileIterationPlanPatch).
THEOREM BatchesAreAdmissibleHolds == GovernanceSpec => []BatchesAreAdmissible
PROOF
  <1>1. GovernanceInit => BatchInv
    BY DEF GovernanceInit, BatchInit, BatchInv
  <1>2. [GovernanceNext]_governanceVars => [SubmitBatch]_batchVars
    BY DEF GovernanceNext, OthersRest, Frozen, governanceVars
  <1>3. GovernanceSpec => []BatchInv
    BY <1>1, <1>2, BatchStep, PTL DEF GovernanceSpec
  <1>4. GovernanceSpec => []ValidatorIsExact
    BY ComponentsRun, ValidatorIsExactHolds, PTL
  <1>5. ValidatorIsExact /\ BatchStaysInAuthority /\ BatchCompilesToValidPlan => BatchesAreAdmissible
    BY DEF BatchesAreAdmissible
  <1> QED BY <1>3, <1>4, <1>5, BatchInvGives, PTL
=============================================================================
