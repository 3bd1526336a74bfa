------------------------------ MODULE AuthFlows ------------------------------
(***************************************************************************)
(* Provider sign-in through one runtime connection.  Beginning a flow      *)
(* starts a management server for the connection's current revision, asks  *)
(* it to authorise, and keeps it alive for the callback that completes the *)
(* flow.  Flows and servers live in the memory of one process; the         *)
(* connection is a database row other requests revise and revoke.          *)
(*                                                                         *)
(* A begin call starts at most one server and registers at most one flow,  *)
(* so it names both.                                                       *)
(***************************************************************************)
EXTENDS Naturals, FiniteSets

CONSTANTS
    Begins,        \* beginAuthFlow calls
    Providers,
    Methods,       \* auth methods (index and fingerprint)
    Completes,     \* completeAuthFlow calls
    MaxFlows,      \* MAX_ACTIVE_FLOWS
    AuthRevLimit,  \* bound: revisions of the connection
    NoFlow

ASSUME AuthAssumption ==
    /\ MaxFlows \in Nat \ {0} /\ AuthRevLimit \in Nat \ {0}
    /\ NoFlow \notin Begins

VARIABLES
    authorized,  \* the connection row: current revision, revoked
    begin,       \* begin calls: provider, method, revision resolved, pc
    server,      \* the management server a begin call started
    flow,        \* registered flows, by the begin call that made them
    complete,    \* complete calls: the flow asked for, pc
    down         \* onModuleDestroy has run

authVars == <<authorized, begin, server, flow, complete, down>>

Unregistered == [live |-> FALSE, rev |-> 0]

AuthInit ==
    /\ authorized = [rev |-> 1, revoked |-> FALSE]
    /\ begin \in [Begins -> {[pc |-> "new", provider |-> p, method |-> m, rev |-> 0] :
                               p \in Providers, m \in Methods}]
    /\ server = [b \in Begins |-> "none"]
    /\ flow = [b \in Begins |-> Unregistered]
    /\ complete = [k \in Completes |-> [pc |-> "new", flow |-> NoFlow]]
    /\ down = FALSE

RegisteredFlows == {b \in Begins : flow[b].live}
FlowsOf(p) == {b \in RegisteredFlows : begin[b].provider = p}

\* Calls inside the section the (connection, provider) mutex protects.
InsideBegin == {b \in Begins : begin[b].pc \in {"resolved", "evicted", "started", "authorized"}}

MutexFree(b) == \A c \in InsideBegin : begin[c].provider # begin[b].provider

(***************************************************************************)
(* beginAuthFlow.                                                          *)
(***************************************************************************)
ResolveRevision(b) ==
    /\ begin[b].pc = "new" /\ ~down
    /\ MutexFree(b)
    /\ begin' = [begin EXCEPT ![b].pc = IF authorized.revoked THEN "refused" ELSE "resolved",
                              ![b].rev = authorized.rev]
    /\ UNCHANGED <<authorized, server, flow, complete, down>>

\* Removing a flow and closing its server.
CloseServers(S) == [b \in Begins |-> IF b \in S THEN "closed" ELSE server[b]]
DropFlows(S)  == [b \in Begins |-> IF b \in S THEN Unregistered ELSE flow[b]]

EvictStaleFor(b) ==
    LET stale == {f \in FlowsOf(begin[b].provider) : flow[f].rev # begin[b].rev} IN
    /\ begin[b].pc = "resolved"
    /\ flow' = DropFlows(stale)
    /\ server' = CloseServers(stale)
    /\ begin' = [begin EXCEPT ![b].pc = "evicted"]
    /\ UNCHANGED <<authorized, complete, down>>

Compatible(b, f) == flow[f].rev = begin[b].rev /\ begin[f].method = begin[b].method

\* An active flow of the target is returned or refused before any server starts.
Classify(b) ==
    LET existing == FlowsOf(begin[b].provider) IN
    /\ begin[b].pc = "evicted"
    /\ \/ /\ existing # {}
          /\ begin' = [begin EXCEPT ![b].pc =
                         IF \E f \in existing : Compatible(b, f) THEN "resumed" ELSE "refused"]
          /\ UNCHANGED server
       \/ /\ existing = {}
          /\ begin' = [begin EXCEPT ![b].pc = "started"]
          /\ server' = [server EXCEPT ![b] = "live"]
       \/ /\ existing = {}                        \* the server did not become ready
          /\ begin' = [begin EXCEPT ![b].pc = "refused"]
          /\ server' = [server EXCEPT ![b] = "closed"]
    /\ UNCHANGED <<authorized, flow, complete, down>>

\* The fresh snapshot must hold the method, with its fingerprint, an OAuth
\* method without prompts; otherwise, and on a server error, the server stops.
Authorize(b) ==
    /\ begin[b].pc = "started"
    /\ \E ok \in BOOLEAN :
          /\ begin' = [begin EXCEPT ![b].pc = IF ok THEN "authorized" ELSE "refused"]
          /\ server' = [server EXCEPT ![b] = IF ok THEN @ ELSE "closed"]
    /\ UNCHANGED <<authorized, flow, complete, down>>

LimitReached == Cardinality(RegisteredFlows) >= MaxFlows

Register(b) ==
    /\ begin[b].pc = "authorized"
    /\ IF FlowsOf(begin[b].provider) # {} \/ LimitReached
       THEN /\ begin' = [begin EXCEPT ![b].pc =
                 IF \E f \in FlowsOf(begin[b].provider) : Compatible(b, f)
                 THEN "resumed" ELSE "refused"]
            /\ server' = [server EXCEPT ![b] = "closed"]
            /\ UNCHANGED flow
       ELSE /\ begin' = [begin EXCEPT ![b].pc = "registered"]
            /\ flow' = [flow EXCEPT ![b] = [live |-> TRUE, rev |-> begin[b].rev]]
            /\ UNCHANGED server
    /\ UNCHANGED <<authorized, complete, down>>

(***************************************************************************)
(* completeAuthFlow, cancel, resume, expiry, shutdown.                     *)
(***************************************************************************)
\* The authority is read again before the callback; a stale flow is destroyed.
Fence(k, f) ==
    LET stale == flow[f].live /\ (flow[f].rev # authorized.rev \/ authorized.revoked) IN
    /\ complete[k].pc = "new" /\ ~down
    /\ begin[f].pc = "registered"
    /\ complete' = [complete EXCEPT ![k] = [pc |-> IF stale THEN "stale" ELSE "fenced",
                                            flow |-> f]]
    /\ flow' = IF stale THEN DropFlows({f}) ELSE flow
    /\ server' = IF stale THEN CloseServers({f}) ELSE server
    /\ UNCHANGED <<authorized, begin, down>>

\* Whoever removes the flow owns its server.
Callback(k) ==
    LET f == complete[k].flow IN
    /\ complete[k].pc = "fenced"
    /\ complete' = [complete EXCEPT ![k].pc = IF flow[f].live THEN "calling" ELSE "not found"]
    /\ flow' = DropFlows({f})
    /\ UNCHANGED <<authorized, begin, server, down>>

EndCallback(k) ==
    /\ complete[k].pc = "calling"
    /\ \E connected \in BOOLEAN :
          complete' = [complete EXCEPT ![k].pc = IF connected THEN "connected" ELSE "failed"]
    /\ server' = CloseServers({complete[k].flow})
    /\ UNCHANGED <<authorized, begin, flow, down>>

\* cancel, and expire: the timer every registered flow has.
RemoveFlow(f) ==
    /\ flow[f].live
    /\ flow' = DropFlows({f})
    /\ server' = CloseServers({f})
    /\ UNCHANGED <<authorized, begin, complete, down>>

CancelAuthFlow(f) == ~down /\ RemoveFlow(f)
Expire(f)         == ~down /\ RemoveFlow(f)

\* A reload destroys the flows that have lost their authority.
GetActiveAuthFlows ==
    LET stale == {f \in RegisteredFlows : authorized.revoked \/ flow[f].rev # authorized.rev} IN
    /\ ~down /\ stale # {}
    /\ flow' = DropFlows(stale)
    /\ server' = CloseServers(stale)
    /\ UNCHANGED <<authorized, begin, complete, down>>

CloseAll ==
    /\ ~down
    /\ down' = TRUE
    /\ flow' = DropFlows(RegisteredFlows)
    /\ server' = CloseServers(RegisteredFlows)
    /\ UNCHANGED <<authorized, begin, complete>>

\* What reviseConnection and revokeConnection do to the row.
ChangeAuthority ==
    /\ ~authorized.revoked
    /\ \/ authorized.rev < AuthRevLimit /\ authorized' = [authorized EXCEPT !.rev = @ + 1]
       \/ authorized' = [authorized EXCEPT !.revoked = TRUE]
    /\ UNCHANGED <<begin, server, flow, complete, down>>

BeginStep(b) ==
    ResolveRevision(b) \/ EvictStaleFor(b) \/ Classify(b) \/ Authorize(b) \/ Register(b)

AuthNext ==
    \/ \E b \in Begins : BeginStep(b)
    \/ \E k \in Completes, f \in Begins : Fence(k, f)
    \/ \E k \in Completes : Callback(k) \/ EndCallback(k)
    \/ \E f \in Begins : CancelAuthFlow(f)
    \/ \E f \in Begins : Expire(f)
    \/ GetActiveAuthFlows \/ CloseAll \/ ChangeAuthority

AuthSpec == AuthInit /\ [][AuthNext]_authVars

(***************************************************************************)
(* Properties.                                                             *)
(***************************************************************************)
\* Calls, servers and flows have their types, and a registered flow is the
\* flow of a call that registered it.
AuthTypeOK ==
    /\ authorized \in [rev : 1..AuthRevLimit, revoked : BOOLEAN]
    /\ \A b \in Begins : begin[b].rev \in 0..AuthRevLimit
    /\ server \in [Begins -> {"none", "live", "closed"}]
    /\ flow \in [Begins -> [live : BOOLEAN, rev : 0..AuthRevLimit]]
    /\ \A b \in RegisteredFlows : begin[b].pc = "registered" /\ flow[b].rev = begin[b].rev
    /\ down \in BOOLEAN

\* No management server outlives its owner: a running one belongs to the call
\* that started it, to the flow it authorised, or to the call completing that
\* flow; and a registered flow's server is running (opencode-auth-flow.service,
\* beginAuthFlow's close on every path).
ServersHaveOwners ==
    /\ \A b \in Begins : server[b] = "live" =>
          \/ begin[b].pc \in {"started", "authorized"}
          \/ flow[b].live
          \/ \E k \in Completes : complete[k].flow = b /\ complete[k].pc = "calling"
    /\ \A b \in RegisteredFlows : server[b] = "live"

\* Concurrent begins authorise once: at most one flow of a provider is
\* registered or being made, also across a revision change
\* (beginAuthFlow, beginLocks).
OneSignInPerProvider ==
    \A p \in Providers :
        Cardinality(FlowsOf(p) \cup {b \in Begins : /\ begin[b].provider = p
                                                    /\ begin[b].pc \in {"started", "authorized"}})
            <= 1

\* Registered flows never exceed MAX_ACTIVE_FLOWS, however many calls passed
\* their checks together (begin).
FlowsAreBounded == Cardinality(RegisteredFlows) <= MaxFlows

\* A server that was started stops again unless the process goes down first:
\* the operator may never come back (expire).
ServersStop == \A b \in Begins : server[b] = "live" ~> (server[b] = "closed" \/ down)

\* No callback reaches the provider for a revision that is no longer current
\* or a connection that is revoked (completeAuthFlow's comment).
StaleFlowNeverCallsBack ==
    [][\A k \in Completes : complete'[k].pc = "calling" /\ complete[k].pc # "calling" =>
          LET f == complete'[k].flow IN flow[f].rev = authorized.rev /\ ~authorized.revoked]_authVars
=============================================================================
