----------------------------- MODULE Connections -----------------------------
(***************************************************************************)
(* Runtime connections: an operator-owned card, its immutable revisions,   *)
(* the probe that tests the current revision, the claims that freeze one   *)
(* for an attempt, and the guided onboarding that creates a connection and *)
(* then tests it.  Every authority change is one transaction on the locked *)
(* card row; a test is not: it claims a revision, reads the card, runs the *)
(* probe outside any transaction and only then writes the card.            *)
(*                                                                         *)
(* Connection 1 is the default id of the runtime kind, 2, 3, ... are the   *)
(* suffixed ids a reconnect may allocate.  A profile keeps the fields the  *)
(* rules tell apart.                                                       *)
(***************************************************************************)
EXTENDS Naturals, Sequences, FiniteSets, FiniteSetsExt

CONSTANTS
    MaxConns,      \* ids are 1..MaxConns
    Profiles,      \* profiles an operator submits
    Tests,         \* concurrent testConnection calls
    OneProcess,    \* TRUE: all calls reach one orchestrator process
    Attempts,      \* attempts that claim a connection
    Onboards,      \* onboard-runtime commands, by idempotency key
    CapabilityKeys,  \* RUNTIME_CAPABILITY_KEYS
    MaxArgs,       \* CLI_BOUNDS.argsMaxCount
    MaxProbeTime,  \* CLI_BOUNDS.probeWallTimeMsMax
    RevLimit,      \* bound: revisions of all connections together
    ClockLimit     \* bound: time, in units of PROBE_MIN_INTERVAL_MS

ASSUME ConnectionAssumption ==
    /\ MaxConns \in Nat \ {0} /\ RevLimit \in Nat \ {0} /\ ClockLimit \in Nat \ {0}
    /\ OneProcess \in BOOLEAN /\ MaxArgs \in Nat /\ MaxProbeTime \in Nat

VARIABLES
    card,        \* runtime_connections row (of: revision its evidence is about)
    revisions,   \* connection_revisions, append-only
    test,        \* testConnection calls in progress
    claim,       \* references frozen in attempts
    onboard,     \* onboard-runtime commands
    now

connVars == <<card, revisions, test, claim, onboard, now>>

Conns == 1..MaxConns

StatusStates == {"NONE", "DRAFT", "AVAILABLE", "AUTH_REQUIRED", "UNAVAILABLE",
                 "DEGRADED", "REVOKED"}

CliKinds == {"generic-cli", "codex", "claude", "opencode"}

RuntimeKinds == CliKinds \cup {"http-worker", "kafka-worker"}

\* Arguments and env references are bounded, and name, never carry, a value.
FixedArgsParse(n) == n \in 0..MaxArgs
EnvReferencesParse(kinds) == kinds \subseteq {"reference"}

\* parseCliProbe: an absent bound is 0, a given one must be within its limit,
\* and the exit codes that mean "sign in" are listed once each.
CliProbeParses(q) ==
    /\ FixedArgsParse(q.args)
    /\ q.wallTime \in 0..MaxProbeTime
    /\ \A i, j \in 1..Len(q.authExitCodes) :
          q.authExitCodes[i] = q.authExitCodes[j] => i = j

\* parseCliProfile: never a command looked up on a path.
CliProfileParses(p) ==
    /\ p.kind \in CliKinds /\ p.command = "absolute" /\ FixedArgsParse(p.args)
    /\ p.cwd \in {"none", "absolute"}
    /\ EnvReferencesParse(p.env) /\ CliProbeParses(p.probe)

\* parseCredentialRefs: only env references are a credential.
CredentialRefsParse(p) == p.credentialRefs \subseteq {"env"}

\* parseCapabilities.
CapabilitiesParse(f) ==
    DOMAIN f \subseteq CapabilityKeys /\ \A k \in DOMAIN f : f[k] \in {"on", "off", "absent"}

\* parseConnectionProfile.
ParsesAsProfile(p) ==
    /\ p.kind \in RuntimeKinds
    /\ CredentialRefsParse(p) /\ CapabilitiesParse(p.declared)
    /\ p.cli => CliProfileParses(p)
    /\ p.kind = "generic-cli" => p.cli

Accepted == {p \in Profiles : ParsesAsProfile(p)}

\* Detection may confirm or downgrade a capability, never add one.
ResolveCapabilities(declared, detected) ==
    [k \in DOMAIN declared |->
        CASE declared[k] # "on"  -> "absent"
          [] detected[k] = "off" -> "off"
          [] OTHER               -> "on"]

NothingDetected(p) == [k \in DOMAIN p.declared |-> "absent"]

Freeze(p) == [profile |-> p,
              capabilities |-> ResolveCapabilities(p.declared, NothingDetected(p))]

ParsesAsRevision(r) ==
    /\ r.profile \in Accepted
    /\ \A k \in DOMAIN r.capabilities :
          r.capabilities[k] = "on" => r.profile.declared[k] = "on"

Draft == [state |-> "DRAFT", testedAt |-> 0, of |-> 0]

NoTest == [pc |-> "idle", conn |-> 1, rev |-> 0, read |-> "NONE", at |-> 0, next |-> "NONE"]

\* buildConnectionReference: what an attempt freezes of a revision.
BuildConnectionReference(c, n, r) ==
    [conn |-> c, rev |-> n, kind |-> r.profile.kind, capabilities |-> r.capabilities]

\* parseConnectionReference, when the frozen reference is read back.
ParsesAsReference(f) ==
    /\ f.conn \in Conns /\ f.rev > 0 /\ f.kind \in RuntimeKinds
    /\ CapabilitiesParse(f.capabilities)

NoReference == [conn |-> 1, rev |-> 0, kind |-> "http-worker", capabilities |-> <<>>]
NoClaim == [pc |-> "none", ref |-> NoReference]

ConnInit ==
    /\ card = [c \in Conns |-> [Draft EXCEPT !.state = "NONE"]]
    /\ revisions = [c \in Conns |-> <<>>]
    /\ test = [t \in Tests |-> NoTest]
    /\ claim = [a \in Attempts |-> NoClaim]
    /\ onboard = [k \in Onboards |-> [pc |-> "none", conn |-> 0, audit |-> 0]]
    /\ now = 1

Exists(c)   == card[c].state # "NONE"
Claimable(c) == Exists(c) /\ card[c].state # "REVOKED"
Current(c)  == Len(revisions[c])

WithinLimit == Cardinality({r \in Conns \X (1..RevLimit) : r[2] <= Current(r[1])}) < RevLimit

Insert(c, p) ==
    /\ WithinLimit
    /\ p \in Accepted
    /\ ~Exists(c)
    /\ card' = [card EXCEPT ![c] = Draft]
    /\ revisions' = [revisions EXCEPT ![c] = <<Freeze(p)>>]

CreateConnection(c, p) ==
    /\ Insert(c, p)
    /\ UNCHANGED <<test, claim, onboard, now>>

ReviseConnection(c, p) ==
    /\ Claimable(c) /\ WithinLimit
    /\ p \in Accepted
    /\ revisions' = [revisions EXCEPT ![c] = Append(@, Freeze(p))]
    /\ card' = [card EXCEPT ![c] = Draft]
    /\ UNCHANGED <<test, claim, onboard, now>>

RevokeConnection(c) ==
    /\ Exists(c)
    /\ card' = [card EXCEPT ![c].state = "REVOKED"]
    /\ UNCHANGED <<revisions, test, claim, onboard, now>>

(***************************************************************************)
(* Testing a connection.                                                   *)
(***************************************************************************)
\* Mutant: every call runs a probe of its own.
NeverInFlight(c) == TRUE

\* Calls that find a probe of the connection in flight share its promise.
NotInFlight(c) == OneProcess => \A t \in Tests : test[t].pc = "idle" \/ test[t].conn # c

StartTest(t, c) ==
    /\ test[t].pc = "idle"
    /\ NotInFlight(c)
    /\ Claimable(c)
    /\ revisions[c][Current(c)].profile.cli
    /\ test' = [test EXCEPT ![t] = [NoTest EXCEPT !.pc = "claimed", !.conn = c,
                                                  !.rev = Current(c)]]

RateLimited(c) == card[c].testedAt # 0 /\ now - card[c].testedAt < 1

\* The transition looks only at whether the state it starts from is terminal.
StatusRead(c) == IF card[c].state = "REVOKED" THEN "REVOKED" ELSE "DRAFT"

ReadStatus(t) ==
    LET c == test[t].conn IN
    /\ test[t].pc = "claimed"
    /\ test' = [test EXCEPT ![t] =
                  IF RateLimited(c) THEN NoTest
                  ELSE [@ EXCEPT !.pc = "probing", !.read = StatusRead(c), !.at = now]]
    /\ UNCHANGED <<card, revisions, claim, onboard, now>>

\* What the command did, and the reason code the probe settles with: an
\* output over the bound is malformed although the process was killed for it.
Exits == {"unresolved-env", "missing", "oversized", "timeout", "auth-code", "nonzero",
          "no-version", "ok"}

ProbeReason(p, x) ==
    CASE x = "missing"                   -> "missing-executable"
      [] x \in {"unresolved-env"}        -> "command-failed"
      [] x \in {"oversized"}             -> "malformed-output"
      [] x = "timeout"                   -> "timeout"
      [] x = "auth-code"                 -> "auth-required"
      [] x = "nonzero"                   -> IF p.authAnyNonZero THEN "auth-required"
                                            ELSE "command-failed"
      [] x = "no-version"                -> IF p.expectsVersion THEN "malformed-output"
                                            ELSE "none"
      [] OTHER                           -> "none"

\* The auth probe runs only after a good primary probe and only its failure
\* counts; a version other than the pinned one degrades a good outcome.
TestOutcome(p, x, auth, version) ==
    LET primary == ProbeReason(p, x)
        reason  == IF p.authProbe /\ primary = "none" THEN ProbeReason(p, auth) ELSE primary
    IN  CASE reason = "none" /\ p.expectsVersion /\ p.pinned # 0 /\ version # p.pinned -> "degraded"
          [] reason = "none"          -> "ok"
          [] reason = "auth-required" -> "authRequired"
          [] OTHER                    -> "failed"

ApplyStatusTransition(state, outcome) ==
    CASE state = "REVOKED"          -> "REVOKED"
      [] outcome = "ok"             -> "AVAILABLE"
      [] outcome = "authRequired"   -> "AUTH_REQUIRED"
      [] outcome = "degraded"       -> "DEGRADED"
      [] OTHER                      -> "UNAVAILABLE"

\* Every outcome a probe of the profile can have.
Outcomes == [p \in Profiles |->
               {TestOutcome(p, x, auth, version) : x, auth \in Exits, version \in 1..2}]

EndProbe(t) ==
    /\ test[t].pc = "probing"
    /\ \E o \in Outcomes[revisions[test[t].conn][test[t].rev].profile] :
           test' = [test EXCEPT ![t].pc = "probed",
                                ![t].next = ApplyStatusTransition(test[t].read, o)]
    /\ UNCHANGED <<card, revisions, claim, onboard, now>>

\* Mutant: the evidence is written whatever happened while the probe ran.
MayWriteAlways(t) == TRUE

MayWrite(t) ==
    LET c == test[t].conn IN card[c].state # "REVOKED" /\ Current(c) = test[t].rev

PersistTest(t) ==
    /\ test[t].pc = "probed"
    /\ card' = IF MayWrite(t)
               THEN [card EXCEPT ![test[t].conn] =
                       [state |-> test[t].next, testedAt |-> test[t].at, of |-> test[t].rev]]
               ELSE card
    /\ test' = [test EXCEPT ![t] = NoTest]
    /\ UNCHANGED <<revisions, claim, onboard, now>>

(***************************************************************************)
(* Claims and the dispatch-time check.                                     *)
(***************************************************************************)
ClaimRevision(a, c) ==
    /\ claim[a].pc = "none"
    /\ Claimable(c)
    /\ ParsesAsRevision(revisions[c][Current(c)])
    /\ claim' = [claim EXCEPT ![a] =
                   [pc |-> "claimed",
                    ref |-> BuildConnectionReference(c, Current(c), revisions[c][Current(c)])]]
    /\ UNCHANGED <<card, revisions, test, onboard, now>>

AssertConnectionNotRevoked(a) ==
    /\ claim[a].pc = "claimed"
    /\ claim' = [claim EXCEPT ![a].pc =
                   IF ParsesAsReference(claim[a].ref) /\ Claimable(claim[a].ref.conn)
                   THEN "dispatched" ELSE "denied"]
    /\ UNCHANGED <<card, revisions, test, onboard, now>>

(***************************************************************************)
(* Guided onboarding: choose an id, create the connection, test it.  The   *)
(* create and the test are commands of their own, each with its own key.   *)
(***************************************************************************)
AllocateReconnectConnectionId(taken) == Min((2..MaxConns) \ taken)

ChooseId(k) ==
    LET taken == {c \in Conns : Exists(c)} IN
    /\ onboard[k].pc \in {"none", "failed"}
    /\ card[1].state = "REVOKED" => (2..MaxConns) \ taken # {}
    /\ onboard' = [onboard EXCEPT ![k].pc = "chosen",
                                  ![k].conn = IF card[1].state = "REVOKED"
                                              THEN AllocateReconnectConnectionId(taken) ELSE 1]
    /\ UNCHANGED <<card, revisions, test, claim, now>>

OnboardCreate(k, p) ==
    LET o == onboard[k] IN
    /\ o.pc = "chosen"
    /\ \/ /\ o.audit = 0                          \* executed
          /\ Insert(o.conn, p)
          /\ onboard' = [onboard EXCEPT ![k].pc = "created", ![k].audit = o.conn]
       \/ /\ o.audit = 0 /\ Exists(o.conn)        \* CONNECTION_ALREADY_EXISTS
          /\ onboard' = [onboard EXCEPT ![k].pc = "failed"]
          /\ UNCHANGED <<card, revisions>>
       \/ /\ o.audit # 0                          \* duplicate, or IDEMPOTENCY_CONFLICT
          /\ onboard' = [onboard EXCEPT ![k].pc = IF o.audit = o.conn THEN "created"
                                                                      ELSE "failed"]
          /\ UNCHANGED <<card, revisions>>
    /\ UNCHANGED <<test, claim, now>>

OnboardTest(k, t) ==
    /\ onboard[k].pc = "created"
    /\ \/ /\ StartTest(t, onboard[k].conn)
          /\ onboard' = [onboard EXCEPT ![k].pc = "done"]
       \/ /\ ~Claimable(onboard[k].conn)
          /\ onboard' = [onboard EXCEPT ![k].pc = "failed"]
          /\ UNCHANGED test
    /\ UNCHANGED <<card, revisions, claim, now>>

ConnTick ==
    /\ now < ClockLimit
    /\ now' = now + 1
    /\ UNCHANGED <<card, revisions, test, claim, onboard>>

ConnNext ==
    \/ \E c \in Conns, p \in Profiles : CreateConnection(c, p) \/ ReviseConnection(c, p)
    \/ \E c \in Conns : RevokeConnection(c)
    \/ \E t \in Tests, c \in Conns :
          StartTest(t, c) /\ UNCHANGED <<card, revisions, claim, onboard, now>>
    \/ \E t \in Tests : ReadStatus(t) \/ EndProbe(t) \/ PersistTest(t)
    \/ \E a \in Attempts, c \in Conns : ClaimRevision(a, c)
    \/ \E a \in Attempts : AssertConnectionNotRevoked(a)
    \/ \E k \in Onboards : ChooseId(k)
    \/ \E k \in Onboards, p \in Profiles : OnboardCreate(k, p)
    \/ \E k \in Onboards, t \in Tests : OnboardTest(k, t)
    \/ ConnTick

ConnSpec == ConnInit /\ [][ConnNext]_connVars

(***************************************************************************)
(* Properties.                                                             *)
(***************************************************************************)
\* Cards, revisions, tests, claims and onboarding commands have their types.
ConnTypeOK ==
    /\ card \in [Conns -> [state : StatusStates, testedAt : 0..ClockLimit, of : 0..RevLimit]]
    /\ \A c \in Conns : Len(revisions[c]) \in 0..RevLimit /\ (Exists(c) <=> revisions[c] # <<>>)
    /\ \A t \in Tests : test[t].pc \in {"idle", "claimed", "probing", "probed"}
    /\ \A a \in Attempts : claim[a].pc \in {"none", "claimed", "dispatched", "denied"}
    /\ \A k \in Onboards : onboard[k].conn \in 0..MaxConns /\ onboard[k].audit \in 0..MaxConns
    /\ now \in 1..ClockLimit

\* The test evidence a live card shows is of its current revision: an edit
\* clears it and a probe that an edit overtook writes nothing
\* (reviseConnectionWithManager, runTestConnection).
CardShowsCurrentRevision ==
    \A c \in Conns : Claimable(c) /\ card[c].testedAt # 0 => card[c].of = Current(c)

\* Every stored revision still parses when a claim reads it back, and what an
\* attempt froze stays what the revision it names says
\* (freezeConnectionRevision, parseConnectionRevision, claimRevision).
ClaimsStayCoherent ==
    /\ \A c \in Conns : \A n \in 1..Current(c) : ParsesAsRevision(revisions[c][n])
    /\ \A a \in Attempts : claim[a].pc # "none" =>
          /\ ParsesAsReference(claim[a].ref)
          /\ claim[a].ref.rev \in 1..Current(claim[a].ref.conn)
          /\ claim[a].ref.capabilities =
                revisions[claim[a].ref.conn][claim[a].ref.rev].capabilities

\* Revocation is terminal: no edit, late probe or onboarding brings the card
\* back or gives it another revision (revokeConnection).
RevokedIsTerminal ==
    \A c \in Conns : card[c].state = "REVOKED" =>
       card'[c].state = "REVOKED" /\ revisions'[c] = revisions[c]

\* Within one process a card never goes back to the outcome of a test that
\* began earlier than the one it shows (testConnection, inFlightTests).
NewestTestWins ==
    \A c \in Conns : card'[c].of = card[c].of /\ card[c].of # 0 =>
       card'[c].testedAt >= card[c].testedAt
=============================================================================
