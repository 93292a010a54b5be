--------------------------- MODULE ReadinessGate ---------------------------
(***************************************************************************)
(* Readiness and the decision at a gate (apps/api/src/routes/readiness.ts, *)
(* packages/policy, packages/domain/src/readiness.ts) on the registries of *)
(* ReviewRegistry.  An assessment evaluates a policy set in force against  *)
(* the evidence on file; a person then asks for a message to sign and      *)
(* submits the signed decision.                                            *)
(*                                                                         *)
(* An assessment and a submission are two steps each: what they read and   *)
(* the stamp their transaction began with, then what they write.  The      *)
(* latest decision is the one whose transaction began last, whichever was  *)
(* written last.                                                           *)
(*                                                                         *)
(* Abstracted: claims, grades and ages down to what a requirement can tell *)
(* apart (EvidenceType); one jurisdiction, one gate, one project; hashes;  *)
(* rationale (always given) and the text of conditions; the signals that   *)
(* migration 0052 leaves for a person when a newer policy comes in force.  *)
(***************************************************************************)
EXTENDS ReviewRegistry

CONSTANTS
    Requirement,
    Requires,       \* the requirements of each policy version
    Evidence,       \* what may be on file for the requirements
    Payload,        \* decisions people sign or submit; see PayloadType
    Session,        \* assessments and submissions that may run at the same time
    Ttl,            \* for how long a signature request can be used
    MaxAssessments, \* bound: assessments in all
    MaxRequests     \* bound: signature requests in all

\* What a requirement reads.  claim is the worst of its claims, in the order the
\* engine looks: missing, evidence gone stale, grade too low, no date, too old.
EvidenceType ==
    [applies: {"yes", "no", "unknown"},
     claim: {"missing", "stale", "weak", "undated", "old", "sound"},
     attested: BOOLEAN, conflict: BOOLEAN, watched: {"yes", "no", "unknown"}]

\* A decision with the conditions that go with it and the assessment it rests on.
PayloadType == [decision: {"go", "hold", "rework", "stop"}, conditioned: BOOLEAN, on: 1..MaxAssessments]

ASSUME ReadinessAssumption ==
    /\ Evidence \subseteq [Requirement -> EvidenceType]
    /\ \A c \in Content : c.kind = "policy_set" => Requires[c.version] \subseteq Requirement
    /\ Payload \subseteq PayloadType
    /\ Ttl \in Nat \ {0}

VARIABLES
    evidence,     \* the project's claims, attestations and conflicts
    reviewedAt,   \* the stamp of the last claim or case step
    signers,      \* people whose active wallet is the one that signs
    assessments,  \* core.compliance_assessments
    requests,     \* core.gate_decision_signature_requests
    sessions,     \* assessments and submissions in flight
    gateDecisions \* core.gate_decisions

gateVars == <<evidence, reviewedAt, signers, assessments, requests, sessions, gateDecisions>>

NoSession == [step |-> "idle", policy |-> 0, at |-> 0, results |-> <<>>,
              by |-> "nobody", request |-> 0, payload |-> <<>>]

GateInit ==
    /\ evidence \in Evidence
    /\ reviewedAt = 0
    /\ signers = Person
    /\ assessments = <<>>
    /\ requests = <<>>
    /\ sessions = [s \in Session |-> NoSession]
    /\ gateDecisions = <<>>

\* evaluateRequirement.  A profile that is missing or suspended leaves no basis.
Status(f, profile) ==
    IF f.applies = "no" THEN "not_applicable"
    ELSE IF f.applies = "unknown" \/ f.watched = "unknown" \/ profile \in {"none", "suspended"} THEN "not_evaluable"
    ELSE IF f.claim \in {"missing", "stale", "weak"} \/ ~f.attested THEN "gap"
    ELSE IF f.claim = "undated" THEN "not_evaluable"
    ELSE IF f.claim = "old" \/ f.conflict THEN "gap"
    ELSE IF f.watched = "yes" THEN "watch"
    ELSE "ok"

\* POST .../readiness-assessments, under any policy set in force, old ones too.
AssessBegins(s, i) ==
    LET needed == Requires[registry[i].content.version]
    IN  /\ sessions[s] = NoSession
        /\ PolicyInForce(i)
        /\ Tick
        /\ sessions' = [sessions EXCEPT ![s] =
              [NoSession EXCEPT !.step = "assessing", !.policy = i, !.at = clock + 1,
                                !.results = [r \in needed |-> Status(evidence[r], ProfileAt(clock + 1))]]]
        /\ UNCHANGED <<evidence, reviewedAt, signers, assessments, requests, gateDecisions>>
AssessCommits(s) ==
    /\ sessions[s].step = "assessing"
    /\ Len(assessments) < MaxAssessments
    /\ assessments' = Append(assessments, [policy |-> sessions[s].policy, at |-> sessions[s].at,
                                           results |-> sessions[s].results])
    /\ sessions' = [sessions EXCEPT ![s] = NoSession]
    /\ UNCHANGED <<clock, evidence, reviewedAt, signers, requests, gateDecisions>>

StatusesOf(results) == {results[r] : r \in DOMAIN results} \ {"not_applicable"}
Blocking == {"gap", "not_evaluable"}

\* checkGateDecision: what is not a go may always be recorded.
MayDecide(pl) ==
    pl.decision = "go" =>
        /\ StatusesOf(assessments[pl.on].results) \cap Blocking = {}
        /\ "watch" \in StatusesOf(assessments[pl.on].results) => pl.conditioned

\* POST .../gate-decisions/signature-requests
AsksToSign(p, pl) ==
    /\ Len(requests) < MaxRequests
    /\ pl.on \in DOMAIN assessments
    /\ MayDecide(pl)
    /\ requests' = Append(requests, [by |-> p, payload |-> pl, at |-> clock, used |-> FALSE])
    /\ UNCHANGED <<clock, evidence, reviewedAt, signers, assessments, sessions, gateDecisions>>

\* POST .../gate-decisions: whatever decision and request the caller names.
DecisionBegins(s, p, r, pl) ==
    /\ sessions[s] = NoSession
    /\ pl.on \in DOMAIN assessments
    /\ MayDecide(pl)
    /\ Tick
    /\ sessions' = [sessions EXCEPT ![s] = [NoSession EXCEPT !.step = "deciding", !.at = clock + 1,
                                                             !.by = p, !.request = r, !.payload = pl]]
    /\ UNCHANGED <<evidence, reviewedAt, signers, assessments, requests, gateDecisions>>

\* The update that consumes a request finds it unused, the caller's own and
\* not expired when the transaction began.
Usable_Again(s) == requests[s.request].by = s.by /\ requests[s.request].at + Ttl > s.at
Usable(s) ==
    LET q == requests[s.request] IN ~q.used /\ q.by = s.by /\ q.at + Ttl > s.at

\* The signed decision is the submitted one and the signer's wallet is current:
\* recorded, or refused with nothing kept.
DecisionCommits(s) ==
    LET x == sessions[s]
        stands == Usable(x) /\ requests[x.request].payload = x.payload /\ x.by \in signers
    IN  /\ x.step = "deciding"
        /\ requests' = IF stands THEN [requests EXCEPT ![x.request].used = TRUE] ELSE requests
        /\ gateDecisions' = IF stands
                            THEN Append(gateDecisions, [payload |-> x.payload, by |-> x.by, at |-> x.at,
                                                        request |-> x.request])
                            ELSE gateDecisions
        /\ sessions' = [sessions EXCEPT ![s] = NoSession]
        /\ UNCHANGED <<clock, evidence, reviewedAt, signers, assessments>>

\* A claim, a verification step or a wallet change made elsewhere.
EvidenceChanges(e) ==
    /\ e \in Evidence \ {evidence}
    /\ Tick
    /\ evidence' = e
    /\ reviewedAt' = clock + 1
    /\ UNCHANGED <<signers, assessments, requests, sessions, gateDecisions>>
SignerChanges(p) ==
    /\ signers' = signers \ {p}
    /\ signers' # signers
    /\ UNCHANGED <<clock, evidence, reviewedAt, assessments, requests, sessions, gateDecisions>>

GateStep ==
    \/ \E s \in Session, i \in DOMAIN registry : AssessBegins(s, i)
    \/ \E s \in Session : AssessCommits(s)
    \/ \E p \in Person, pl \in Payload : AsksToSign(p, pl)
    \/ \E s \in Session, p \in Person, r \in DOMAIN requests, pl \in Payload : DecisionBegins(s, p, r, pl)
    \/ \E s \in Session : DecisionCommits(s)
    \/ \E e \in Evidence : EvidenceChanges(e)
    \/ \E p \in Person : SignerChanges(p)

GateNext ==
    \/ GateStep /\ UNCHANGED <<proposals, registry, decisions>>
    \/ ReviewNext /\ UNCHANGED gateVars

-----------------------------------------------------------------------------
\* The decision the lifecycle reads: ordered by when its transaction began.
LatestDecision ==
    IF gateDecisions = <<>> THEN "none"
    ELSE LET last == CHOOSE i \in DOMAIN gateDecisions :
                        \A j \in DOMAIN gateDecisions : gateDecisions[j].at <= gateDecisions[i].at
         IN  gateDecisions[last].payload.decision

GateTypeOK ==
    /\ ReviewTypeOK
    /\ evidence \in Evidence /\ signers \subseteq Person /\ reviewedAt \in 0..MaxClock
    /\ \A i \in DOMAIN assessments : assessments[i].policy \in DOMAIN registry
    /\ \A i \in DOMAIN gateDecisions : gateDecisions[i].payload \in Payload

\* Whoever submits what and however often, a decision on file is the one its
\* maker asked to sign, made within the life of that request and only once;
\* and a go rests on an assessment that no applicable requirement blocked.
DecisionsAsSigned ==
    \A i \in DOMAIN gateDecisions :
        LET g == gateDecisions[i] q == requests[g.request]
        IN  /\ q.used /\ q.by = g.by /\ q.payload = g.payload /\ g.at < q.at + Ttl
            /\ \A j \in DOMAIN gateDecisions : gateDecisions[j].request = g.request => i = j
            /\ g.payload.decision = "go" => StatusesOf(assessments[g.payload.on].results) \cap Blocking = {}

\* "A single gap or not_evaluable makes go impossible" (packages/domain/src/
\* readiness.ts), and an assessment of nothing is not_evaluable.
GoNeedsReadiness ==
    \A i \in DOMAIN gateDecisions :
        gateDecisions[i].payload.decision = "go" =>
            StatusesOf(assessments[gateDecisions[i].payload.on].results) # {}
=============================================================================
