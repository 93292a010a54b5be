--------------------------- MODULE RegistryStatus ---------------------------
(***************************************************************************)
(* The status of one project record on its way from the Registry to a      *)
(* chain: the report endpoint (apps/api/src/routes/cre-reports.ts), the    *)
(* workflow that every node of the oracle network runs on the same cron    *)
(* trigger (packages/cre-workflow/src/workflow.ts), and the contract that  *)
(* keeps the latest report (StatusReceiver).  The record is the version    *)
(* history of VersionHistory.                                              *)
(*                                                                         *)
(* Nodes ask independently and may ask again; answers get lost; a signed   *)
(* report may be delivered late, twice or never, in any order, and to a    *)
(* receiver it is not addressed to.  Two clocks are read: the database     *)
(* clock by the endpoint, block.timestamp by the contract.                 *)
(***************************************************************************)
EXTENDS VersionHistory, StatusReceiver, FiniteSets

CONSTANTS
    Execution,  \* scheduled executions, one idempotency key each
    Elsewhere,  \* executions configured for another receiver
    Other,      \* that receiver
    Node,       \* nodes of the oracle network
    Agreement,  \* identical observations a consensus needs
    Ttl,        \* ttlSeconds of the workflow configuration
    Skew,       \* how far block.timestamp and the database clock may differ
    NoAnswer    \* a node that has no answer yet; a key that has no report

ASSUME StatusAssumption ==
    /\ Content \subseteq ContentHash \ {ZeroHash}
    /\ Elsewhere \subseteq Execution
    /\ Other \in Destination \ {This}
    /\ Agreement \in Nat \ {0} /\ Ttl \in Nat \ {0} /\ Skew \in Nat
    /\ NoAnswer \notin StatusReport

VARIABLES
    health,   \* what the record's evidence says: fresh, needs_review, unavailable
    clock,    \* clock_timestamp() of the database, in seconds
    reports,  \* core.cre_reports, by the idempotency key that made each
    handling, \* the request that holds the project barrier, if any
    answers,  \* what each node has received in each execution
    signed,   \* reports the network has signed
    lastGood  \* when each version was last in force with fresh evidence

statusVars == <<history, health, clock, reports, handling, answers, signed, lastGood,
                mirror, chainTime>>

Health == {"fresh", "needs_review", "unavailable"}
Handling == [execution: Execution, node: Node, report: StatusReport]

Stored == {reports[e] : e \in Execution} \ {NoAnswer}

\* The record really is what status 1 says it is.
GoodNow == Latest > 0 /\ history[Latest].status = "published" /\ health = "fresh"

Init ==
    /\ HistoryInit
    /\ health = "fresh"
    /\ clock = 1 /\ chainTime = 1
    /\ reports = [e \in Execution |-> NoAnswer]
    /\ handling = NoAnswer
    /\ answers = [e \in Execution |-> [n \in Node |-> NoAnswer]]
    /\ signed = {}
    /\ mirror = EmptyMirror
    /\ lastGood = [v \in 1 .. VersionBound |-> 0]

---------------------------------------------------------------------------
(* The Registry.  Publication and revocation need rows the endpoint has    *)
(* locked and wait for it; evidence may turn without asking for the        *)
(* barrier, because a credential expires or a connection is suspended.     *)

ChangeHistory ==
    /\ handling = NoAnswer
    /\ HistoryNext
    /\ UNCHANGED <<health, clock, reports, handling, answers, signed, mirror, chainTime>>

ChangeHealth(h) ==
    /\ health' = h
    /\ UNCHANGED <<history, clock, reports, handling, answers, signed, mirror, chainTime>>

---------------------------------------------------------------------------
(* POST /projects/:id/cre-reports *)

\* ORDER BY version DESC LIMIT 1 over published, revoked and superseded rows.
ReportedVersion_Mutation ==
    LET V == {v \in 1 .. Latest : history[v].status # "revoked"}
    IN  IF V = {} THEN Latest ELSE CHOOSE v \in V : \A w \in V : w <= v
ReportedVersion == Latest

StatusOf(v) ==
    IF history[v].status = "revoked" THEN REVOKED
    ELSE IF history[v].status = "superseded" \/ health = "needs_review" THEN NEEDS_RE_REVIEW
    ELSE IF health = "unavailable" THEN UNAVAILABLE
    ELSE CURRENT

\* One more than the largest sequence reported for the project.
NextSequence ==
    1 + CHOOSE s \in {0} \cup {r.sequence : r \in Stored} : \A r \in Stored : r.sequence <= s

\* withIdempotency, under the advisory lock on the key.
KeyUnused(e) == reports[e] = NoAnswer

\* Under the key lock and the project barrier, which others do not wait for
\* (503): read the version, then one clock for health and observedAt.
Evaluate(e, n) ==
    /\ KeyUnused(e)
    /\ handling = NoAnswer
    /\ Latest > 0
    /\ handling' = [execution |-> e, node |-> n, report |->
            [destination |-> IF e \in Elsewhere THEN Other ELSE This,
             version |-> ReportedVersion, content |-> history[ReportedVersion].content,
             observedAt |-> clock, validUntil |-> clock + Ttl,
             sequence |-> NextSequence, status |-> StatusOf(ReportedVersion)]]
    /\ UNCHANGED <<history, health, clock, reports, answers, signed, mirror, chainTime>>

\* The report carries the time of the evaluation, not of this later moment.
Dated_Mutation(r) == [r EXCEPT !.observedAt = clock, !.validUntil = clock + Ttl]
Dated(r) == r

\* CRE_OBSERVATION_EXPIRED, or a lost connection: nothing is stored and the
\* key is free again.
GiveUp ==
    /\ handling # NoAnswer
    /\ handling' = NoAnswer
    /\ UNCHANGED <<history, health, clock, reports, answers, signed, mirror, chainTime>>

\* The report is stored with its key; the node may not hear of it.
Store(heard) ==
    LET r == Dated(handling.report)
    IN  /\ handling # NoAnswer
        /\ r.validUntil > clock
        /\ reports' = [reports EXCEPT ![handling.execution] = r]
        /\ answers' = IF heard
                      THEN [answers EXCEPT ![handling.execution][handling.node] = r]
                      ELSE answers
        /\ handling' = NoAnswer
        /\ UNCHANGED <<history, health, clock, signed, mirror, chainTime>>

\* The same key again: the stored response.
Replay(e, n) ==
    /\ reports[e] # NoAnswer
    /\ answers' = [answers EXCEPT ![e][n] = reports[e]]
    /\ UNCHANGED <<history, health, clock, reports, handling, signed, mirror, chainTime>>

---------------------------------------------------------------------------
(* The workflow and the chain *)

\* What validateReport asks of the agreed report: addressed to the configured
\* receiver, a content hash, a positive lifetime within the TTL.
Valid(e, r) ==
    /\ r.destination = (IF e \in Elsewhere THEN Other ELSE This)
    /\ r.content # ZeroHash
    /\ r.observedAt > 0 /\ r.validUntil > r.observedAt
    /\ r.validUntil - r.observedAt <= Ttl

\* Identical consensus of enough nodes, then the signature.
Sign(e, r) ==
    /\ Cardinality({n \in Node : answers[e][n] = r}) >= Agreement
    /\ Valid(e, r)
    /\ signed' = signed \cup {r}
    /\ UNCHANGED <<history, health, clock, reports, handling, answers, mirror, chainTime>>

\* Whoever has a signed report may bring it to the forwarder at any time.
Deliver(r) ==
    /\ OnReport(r)
    /\ UNCHANGED <<history, health, clock, reports, handling, answers, signed>>

Tick ==
    /\ clock < MaxTime
    /\ clock + 1 <= chainTime + Skew
    /\ clock' = clock + 1
    /\ UNCHANGED <<history, health, reports, handling, answers, signed, mirror, chainTime>>

\* A block: its timestamp may run ahead of the database clock or behind it.
Block ==
    /\ chainTime < MaxTime + Skew
    /\ chainTime + 1 <= clock + Skew
    /\ chainTime' = chainTime + 1
    /\ UNCHANGED <<history, health, clock, reports, handling, answers, signed, mirror>>

---------------------------------------------------------------------------
Step ==
    \/ ChangeHistory
    \/ \E h \in Health : ChangeHealth(h)
    \/ \E e \in Execution, n \in Node : Evaluate(e, n) \/ Replay(e, n)
    \/ GiveUp
    \/ \E heard \in BOOLEAN : Store(heard)
    \/ \E e \in Execution : \E r \in Stored : Sign(e, r)
    \/ \E r \in signed : Deliver(r)
    \/ Tick
    \/ Block

\* lastGood is kept for the properties only.
Remember ==
    lastGood' = IF GoodNow' THEN [lastGood EXCEPT ![Latest'] = clock'] ELSE lastGood

Next == Step /\ Remember

Spec == Init /\ [][Next]_statusVars

---------------------------------------------------------------------------
(* Properties *)

TypeOK ==
    /\ HistoryTypeOK
    /\ health \in Health
    /\ clock \in Nat /\ chainTime \in Nat
    /\ reports \in [Execution -> StatusReport \cup {NoAnswer}]
    /\ \A r \in Stored : WellFormed(r)
    /\ handling \in Handling \cup {NoAnswer}
    /\ answers \in [Execution -> [Node -> StatusReport \cup {NoAnswer}]]
    /\ signed \subseteq Stored
    /\ mirror \in StatusReport
    /\ lastGood \in [1 .. VersionBound -> Nat]

(* One scheduled execution has one report: whatever nodes ask, whenever,   *)
(* and however often, they are given the same bytes, or the network could  *)
(* not agree (workflow.ts:61, "Repeated node requests retrieve the same    *)
(* report").  A second evaluation under the same key would also use up a   *)
(* sequence number.                                                        *)
OneReportPerExecution ==
    /\ TypeOK
    /\ \A e \in Execution : \A n \in Node : answers[e][n] \in {NoAnswer, reports[e]}

(* The receiver's defences never turn on the Registry itself: a report     *)
(* with a higher sequence is never an older observation, never about an    *)
(* older version, and never gives a version another content, so nothing    *)
(* but time can make the contract refuse it (OutOfOrderReport,             *)
(* VersionRollback, ContentHashConflict).  If it did, the mirror of the    *)
(* record would be stuck for good.                                         *)
NewerReportIsAdmissible ==
    \A r \in signed : r.sequence > mirror.sequence =>
        r.observedAt >= mirror.observedAt /\ SameRecord(r)

(* Once the chain has shown a revocation it does not take it back for the  *)
(* same version, whatever signed reports are still under way: only a newer *)
(* published version can make the record current again.                    *)
RevocationSticks ==
    [][(mirror.status = REVOKED /\ mirror'.status = CURRENT)
            => mirror'.version > mirror.version]_statusVars

(* A consumer who reads isCurrent relies on evidence that was good for     *)
(* that very version no longer ago than the lifetime of a report and the   *)
(* difference between the clocks: "A slow assessment spends its own TTL;   *)
(* never relabel old health as a fresh observation" (cre-reports.ts:124).  *)
CurrentIsRecent == IsCurrent => clock < lastGood[mirror.version] + Ttl + Skew

(* What a consumer relies on: the nodes of one execution report the same,  *)
(* and what the contract calls current is recent.                          *)
ReportsCanBeReliedOn == OneReportPerExecution /\ CurrentIsRecent
=============================================================================
