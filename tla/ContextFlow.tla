---------------------------- MODULE ContextFlow ----------------------------
(***************************************************************************)
(* What one attempt is shown of the run.  ExecutionStateService.mutate and *)
(* the controlled writes of the result inbox change the durable state of   *)
(* an execution; a claim projects selected keys and the artifacts of       *)
(* upstream steps into an immutable envelope, or reuses one from the       *)
(* process-local cache, keyed by a fingerprint of the projection's inputs. *)
(*                                                                         *)
(* A state maps keys to values, Absent where the key is missing; a value   *)
(* is a number that is also its size in bytes.                             *)
(***************************************************************************)
EXTENDS Naturals, Sequences, FiniteSets, SequencesExt, FiniteSetsExt, Functions

CONSTANTS
  Runs,               \* executions served by one process
  Producers,          \* steps whose results write state and register artifacts
  StateKeys, Values,  \* state keys, and the sizes of the values they may hold
  StatePatches,       \* patches of internal callers: [set, delete, ok]
  Outputs,            \* results: [values, names]: pointer -> value, artifact names
  Mappings,           \* stateWrites of a producer: sequence of [key, from]
  Projections,        \* contextProjection of the claimed steps: [keys, selectors, ok]
  Writers,            \* callers of mutate
  MaxPatchOps, MaxStateKeys, MaxStateBytes, MaxEnvelope, MaxCacheEntries,
  ClaimLimit          \* attempts claimed per execution

Absent == 0
BlankState == [k \in StateKeys |-> Absent]

States == [StateKeys -> Values \cup {Absent}]

\* validateStateWrites refuses two mappings of one key.
ASSUME ContextAssumption ==
  /\ Values \subseteq Nat \ {Absent} /\ Runs # {}
  /\ StatePatches \subseteq [set : States, delete : Seq(StateKeys), ok : BOOLEAN]
  /\ \A p \in Producers : /\ Mappings[p] \in Seq([key : StateKeys, from : STRING])
                           /\ \A i, j \in DOMAIN Mappings[p] : Mappings[p][i].key = Mappings[p][j].key => i = j
  /\ \A o \in Outputs : /\ o.names \in Seq(STRING)
                         /\ \A p \in Producers : \A i \in DOMAIN Mappings[p] :
                              o.values[Mappings[p][i].from] \in Values \cup {Absent}
  /\ Projections \subseteq
       [keys : SUBSET StateKeys, selectors : Seq([from : Producers, name : STRING]), ok : BOOLEAN]
  /\ {MaxPatchOps, MaxStateKeys, MaxStateBytes, MaxEnvelope, MaxCacheEntries, ClaimLimit} \subseteq Nat

VARIABLES
  state, version, over,  \* executionState, executionStateVersion, terminal run
  applied,               \* the applied successful result of a producer, <<>> before it
  writer,                \* a caller of mutate: what it read, and the disposition it got
  cache,                 \* ContextProjectionCache: oldest first
  claims                 \* context of the attempts: envelope, evidence, and the inputs then

contextVars == <<state, version, over, applied, writer, cache, claims>>

SizeOf(s) == FoldFunction(LAMBDA a, b : a + b, 0, s)
Present(s) == {k \in StateKeys : s[k] # Absent}

\* validateStatePatch: shape and key safety are p.ok.
ValidPatch(p) ==
  /\ p.ok
  /\ Cardinality(Present(p.set)) + Len(p.delete) <= MaxPatchOps
  /\ IsInjective(p.delete)
  /\ ToSet(p.delete) \cap Present(p.set) = {}

ApplyStatePatch(s, p) ==
  [k \in StateKeys |-> IF p.set[k] # Absent THEN p.set[k]
                       ELSE IF Contains(p.delete, k) THEN Absent ELSE s[k]]

WithinBounds(s) == SizeOf(s) <= MaxStateBytes /\ Cardinality(Present(s)) <= MaxStateKeys

\* A real change takes exactly one version.
Store(e, s) ==
  /\ state' = [state EXCEPT ![e] = s]
  /\ version' = [version EXCEPT ![e] = @ + 1]

\* ExecutionStateService.read.
ReadState(w) ==
  /\ writer[w].at = "new"
  /\ \E e \in Runs : writer' = [writer EXCEPT ![w] =
       [@ EXCEPT !.at = "read", !.run = e, !.version = version[e], !.seen = state[e]]]
  /\ UNCHANGED <<state, version, over, applied, cache, claims>>

\* Mutant: the version the caller read is not compared.
MutateBlind(w) == TRUE

VersionMatches(w) == version[writer[w].run] = writer[w].version

\* ExecutionStateService.mutate, one transaction on the locked execution row.
Mutate(w) ==
  LET e == writer[w].run IN
  /\ writer[w].at = "read"
  /\ \E p \in StatePatches :
       LET new == ApplyStatePatch(state[e], p)
           outcome == IF ~ValidPatch(p) THEN "invalid"
                      ELSE IF over[e] THEN "terminal"
                      ELSE IF ~VersionMatches(w) THEN "conflict"
                      ELSE IF new = state[e] THEN "noop"
                      ELSE IF ~WithinBounds(new) THEN "invalid"
                      ELSE "applied"
       IN /\ writer' = [writer EXCEPT ![w].at = outcome, ![w].patch = p]
          /\ IF outcome = "applied" THEN Store(e, new) ELSE UNCHANGED <<state, version>>
  /\ UNCHANGED <<over, applied, cache, claims>>

\* buildStateWritesPatch: every mapping is required.
Resolves(o, m) == \A i \in DOMAIN m : o.values[m[i].from] # Absent

BuildStateWritesPatch(o, m) ==
  [set |-> [k \in StateKeys |-> IF \E i \in DOMAIN m : m[i].key = k
              THEN o.values[m[CHOOSE i \in DOMAIN m : m[i].key = k].from] ELSE Absent],
   delete |-> <<>>, ok |-> Resolves(o, m)]

\* A successful canonical result: its artifacts are registered and its writes
\* applied under the execution lock; a rejected write applies no key.
ApplyOutput(e, p) ==
  /\ ~over[e] /\ applied[e][p] = <<>>
  /\ \E o \in Outputs :
       LET patch == BuildStateWritesPatch(o, Mappings[p])
           new == ApplyStatePatch(state[e], patch)
       IN /\ applied' = [applied EXCEPT ![e][p] = <<o>>]
          /\ IF ValidPatch(patch) /\ new # state[e] /\ WithinBounds(new)
               THEN Store(e, new) ELSE UNCHANGED <<state, version>>
  /\ UNCHANGED <<over, writer, cache, claims>>

\* resolveProducer and the selector's filter: the artifacts of the applied
\* result a selector matches; an ineligible producer contributes nothing.
Matched(e, sel) ==
  IF applied[e][sel.from] = <<>> THEN {}
  ELSE LET names == applied[e][sel.from][1].names
       IN {[run |-> e, step |-> sel.from, ordinal |-> i] : i \in {j \in DOMAIN names : sel.name \in {"", names[j]}}}

\* A selector with an eligible producer and no match, or two selectors that
\* resolve one artifact, fail the claim.
Resolvable(e, proj) ==
  /\ \A i \in DOMAIN proj.selectors :
       applied[e][proj.selectors[i].from] # <<>> => Matched(e, proj.selectors[i]) # {}
  /\ \A i, j \in DOMAIN proj.selectors :
       i # j => Matched(e, proj.selectors[i]) \cap Matched(e, proj.selectors[j]) = {}

References(e, proj) == UNION {Matched(e, proj.selectors[i]) : i \in DOMAIN proj.selectors}

\* validateContextProjection and selectProjectedValues.
Projectable(e, proj) ==
  proj.ok /\ (proj.keys # {} \/ proj.selectors # <<>>) /\ proj.keys \subseteq Present(state[e])

SelectProjectedValues(e, proj) == [k \in StateKeys |-> IF k \in proj.keys THEN state[e][k] ELSE Absent]

Materialize(e, proj) ==
  [version |-> version[e], values |-> SelectProjectedValues(e, proj), artifacts |-> References(e, proj)]

EnvelopeBytes(env) == SizeOf(env.values) + Cardinality(env.artifacts)

\* computeContextBundleHash: the inputs themselves.  The harness, the plan hash
\* and the workspace identity are one component, the claimed step's.
\* Mutant: the fingerprint is taken over the selected keys, not their values.
HashOfSelection(e, proj) == [values |-> proj.keys, artifacts |-> References(e, proj), step |-> proj]

BundleHash(e, proj) ==
  [version |-> version[e], values |-> SelectProjectedValues(e, proj),
   artifacts |-> References(e, proj), step |-> proj]

CachedAt(h) == {i \in DOMAIN cache : cache[i].hash = h}

\* get's LRU touch; set's insertion, then eviction of the oldest.
Touched(h) == LET i == CHOOSE i \in CachedAt(h) : TRUE IN Append(RemoveAt(cache, i), cache[i])
Inserted(h, env) ==
  LET longer == Append(cache, [hash |-> h, envelope |-> env])
  IN IF Len(longer) > MaxCacheEntries THEN Tail(longer) ELSE longer

\* materializeProjectedContext inside the claim; the full-state size is always
\* measured on the run that is claiming.
ClaimWithContext(e) ==
  /\ ~over[e] /\ Len(claims[e]) < ClaimLimit
  /\ \E proj \in Projections :
       LET hash == BundleHash(e, proj)
           hit == CachedAt(hash) # {}
           env == IF hit THEN cache[CHOOSE i \in CachedAt(hash) : TRUE].envelope ELSE Materialize(e, proj)
           ok == /\ Resolvable(e, proj) /\ Projectable(e, proj)
                 /\ hit \/ EnvelopeBytes(env) <= MaxEnvelope
       IN /\ claims' = [claims EXCEPT ![e] = Append(@,
                [ok |-> ok, envelope |-> env, reused |-> hit, stateBytes |-> SizeOf(state[e]),
                 usage |-> "open", state |-> state[e], version |-> version[e], applied |-> applied[e], proj |-> proj])]
          /\ cache' = IF ~ok THEN cache ELSE IF hit THEN Touched(hash) ELSE Inserted(hash, env)
  /\ UNCHANGED <<state, version, over, applied, writer>>

\* completeEfficiency at result acceptance: what the runtime reported, if it
\* reported anything, completes the record made at the claim; a record that
\* does not parse (no context bundle: a failed claim) is left as it is.
CompleteEvidence(e) ==
  /\ \E i \in DOMAIN claims[e] :
       /\ claims[e][i].ok /\ claims[e][i].usage = "open"
       /\ \E usage \in {"reported", "not_reported"} : claims' = [claims EXCEPT ![e][i].usage = usage]
  /\ UNCHANGED <<state, version, over, applied, writer, cache>>

EndRunState(e) ==
  /\ ~over[e] /\ over' = [over EXCEPT ![e] = TRUE]
  /\ UNCHANGED <<state, version, applied, writer, cache, claims>>

\* A restart starts with an empty cache.
RestartCache ==
  /\ cache # <<>> /\ cache' = <<>>
  /\ UNCHANGED <<state, version, over, applied, writer, claims>>

ContextInit ==
  /\ state = [e \in Runs |-> BlankState] /\ version = [e \in Runs |-> 0]
  /\ over = [e \in Runs |-> FALSE]
  /\ applied = [e \in Runs |-> [p \in Producers |-> <<>>]]
  /\ writer = [w \in Writers |-> [at |-> "new", run |-> CHOOSE e \in Runs : TRUE, version |-> 0,
                                  seen |-> BlankState, patch |-> [set |-> BlankState, delete |-> <<>>, ok |-> TRUE]]]
  /\ cache = <<>> /\ claims = [e \in Runs |-> <<>>]

ContextNext ==
  \/ \E w \in Writers : ReadState(w) \/ Mutate(w)
  \/ \E e \in Runs : ClaimWithContext(e) \/ CompleteEvidence(e) \/ EndRunState(e) \/ \E p \in Producers : ApplyOutput(e, p)
  \/ RestartCache

ContextSpec == ContextInit /\ [][ContextNext]_contextVars

-----------------------------------------------------------------------------
(***************************************************************************)
(* What an attempt is shown is what its own run held when it was claimed:  *)
(* the selected values at that version, and only artifacts that its own    *)
(* run's applied results registered, cached or not, whatever other run     *)
(* filled the cache.                                                       *)
(***************************************************************************)
EnvelopeIsOwnAndFresh ==
  \A e \in Runs : \A i \in DOMAIN claims[e] :
    LET c == claims[e][i] IN c.ok =>
      /\ c.envelope.version = c.version
      /\ \A k \in StateKeys : c.envelope.values[k] = IF k \in c.proj.keys THEN c.state[k] ELSE Absent
      /\ \A a \in c.envelope.artifacts : a.run = e /\ c.applied[a.step] # <<>>
      /\ c.proj.keys \subseteq Present(c.state)
      /\ EnvelopeBytes(c.envelope) <= MaxEnvelope
      /\ c.stateBytes = SizeOf(c.state)

\* A mutation that was applied patched exactly the state its caller had read.
NoLostUpdate ==
  \A w \in Writers : writer'[w].at = "applied" /\ writer[w].at = "read" =>
    state'[writer[w].run] = ApplyStatePatch(writer[w].seen, writer'[w].patch)

(***************************************************************************)
(* The semantic version counts the changes of the state, an ended run's    *)
(* state never changes, and one result's controlled writes land together   *)
(* or not at all.                                                          *)
(***************************************************************************)
StateChangesAreCounted ==
  \A e \in Runs :
    /\ version'[e] = version[e] + (IF state'[e] = state[e] THEN 0 ELSE 1)
    /\ state'[e] # state[e] => ~over[e] /\ WithinBounds(state'[e])
    /\ \A p \in Producers : applied'[e][p] # applied[e][p] /\ state'[e] # state[e] =>
         \A i \in DOMAIN Mappings[p] :
           state'[e][Mappings[p][i].key] = applied'[e][p][1].values[Mappings[p][i].from]
=============================================================================
