---------------------------- MODULE ModelSources ----------------------------
(***************************************************************************)
(* Model sources: operator-configured catalogue endpoints with the         *)
(* evidence of the last test or refresh.  A command is one transaction,    *)
(* but no command locks the row: a test reads it, talks to the endpoint,   *)
(* and saves the evidence by primary key.                                  *)
(***************************************************************************)
EXTENDS Naturals, FiniteSets

CONSTANTS
    SourceNames,    \* source ids an operator uses
    Probes,         \* concurrent test and refresh commands
    ModelCounts,    \* sizes of catalogues
    SourceOverlap,  \* TRUE: edits commit while a probe of the source runs
    EditLimit       \* bound: rows and edits

ASSUME SourceAssumption ==
    /\ ModelCounts \subseteq Nat /\ EditLimit \in Nat /\ SourceOverlap \in BOOLEAN

VARIABLES
    sourceRow,   \* model_sources (id: primary key; config: the edit that set the
                 \* configuration; of: the configuration the evidence is of)
    probing,     \* commands between the read and the save
    sourceEdits  \* edits so far; the last one numbers the configuration

sourceVars == <<sourceRow, probing, sourceEdits>>

NoSource == [exists |-> FALSE, id |-> 0, config |-> 0, url |-> "none", credential |-> FALSE,
          status |-> "UNKNOWN", count |-> 0, of |-> 0]

\* What normalizeModelSourceBaseUrl tells apart.
Urls == {"https", "ftp", "userinfo", "none"}

ParsesAsSource(url) == url = "https"

SourceInit ==
    /\ sourceRow = [s \in SourceNames |-> NoSource]
    /\ probing = [p \in Probes |-> [pc |-> "idle", kind |-> "test", row |-> NoSource,
                                    source |-> CHOOSE s \in SourceNames : TRUE]]
    /\ sourceEdits = 0

\* TRUE when no probe of the source is between its read and its save.
SourceQuiet(s) == SourceOverlap \/ \A p \in Probes : probing[p].pc = "idle" \/ probing[p].source # s

Configured(id, url, credential) ==
    [NoSource EXCEPT !.exists = TRUE, !.id = id, !.config = sourceEdits + 1, !.url = url,
                  !.credential = credential]

CreateSource(s, url, credential) ==
    /\ sourceEdits < EditLimit
    /\ ParsesAsSource(url)
    /\ ~sourceRow[s].exists
    /\ sourceRow' = [sourceRow EXCEPT ![s] = Configured(sourceEdits + 1, url, credential)]
    /\ sourceEdits' = sourceEdits + 1
    /\ UNCHANGED probing

UpdateSource(s, url, credential) ==
    /\ sourceEdits < EditLimit /\ SourceQuiet(s)
    /\ sourceRow[s].exists
    /\ ParsesAsSource(url)
    /\ sourceRow' = [sourceRow EXCEPT ![s] = Configured(@.id, url, credential)]
    /\ sourceEdits' = sourceEdits + 1
    /\ UNCHANGED probing

DeleteSource(s) ==
    /\ sourceRow[s].exists
    /\ sourceRow' = [sourceRow EXCEPT ![s] = NoSource]
    /\ UNCHANGED <<probing, sourceEdits>>

ReadSource(p, s, kind) ==
    /\ probing[p].pc = "idle"
    /\ sourceRow[s].exists
    /\ probing' = [probing EXCEPT ![p] = [pc |-> "read", kind |-> kind, row |-> sourceRow[s],
                                          source |-> s]]
    /\ UNCHANGED <<sourceRow, sourceEdits>>

\* What the endpoint and the bounded fetch make of one request.
ProbeAnswers == {"models", "credential-unset", "rejected", "timeout", "unreachable",
            "too-many-redirects", "unsafe-redirect", "oversized", "not-json", "no-data"}

\* An unset credential reference fails before the request.
MayAnswer(row, a) == a = "credential-unset" => row.credential

DiscoveryReason(a) ==
    CASE a \in {"credential-unset", "rejected"}              -> "auth-required"
      [] a \in {"too-many-redirects", "unsafe-redirect"}     -> "unsupported-redirect"
      [] a \in {"not-json", "no-data"}                       -> "malformed"
      [] a = "models"                                        -> "none"
      [] OTHER                                               -> a

StatusOf(a) ==
    CASE DiscoveryReason(a) = "none"          -> "AVAILABLE"
      [] DiscoveryReason(a) = "auth-required" -> "AUTH_REQUIRED"
      [] OTHER                                -> "UNAVAILABLE"

\* The save names the primary key: a row deleted since then, even when one of
\* the same source id replaced it, makes it fail and roll back.
Saved(p, a, n) ==
    LET s == probing[p].source
        r == probing[p].row
    IN  IF sourceRow[s].exists /\ sourceRow[s].id = r.id
        THEN [sourceRow EXCEPT ![s].status = StatusOf(a), ![s].of = r.config,
                               ![s].count = IF a = "models" THEN n ELSE @]
        ELSE sourceRow

SaveEvidence(p) ==
    /\ probing[p].pc = "read"
    /\ \E a \in ProbeAnswers, n \in ModelCounts :
          /\ MayAnswer(probing[p].row, a)
          /\ sourceRow' = Saved(p, a, n)
    /\ probing' = [probing EXCEPT ![p].pc = "idle", ![p].row = NoSource]
    /\ UNCHANGED sourceEdits

SourceNext ==
    \/ \E s \in SourceNames, url \in Urls, credential \in BOOLEAN :
          CreateSource(s, url, credential) \/ UpdateSource(s, url, credential)
    \/ \E s \in SourceNames : DeleteSource(s)
    \/ \E p \in Probes, s \in SourceNames, kind \in {"test", "refresh"} : ReadSource(p, s, kind)
    \/ \E p \in Probes : SaveEvidence(p)

SourceSpec == SourceInit /\ [][SourceNext]_sourceVars

\* A source shows only evidence of the configuration it has: an edit resets
\* what a test of the previous one found (updateWithManager).
EvidenceIsOfConfiguration ==
    \A s \in SourceNames : sourceRow[s].of \in {0, sourceRow[s].config}
=============================================================================
