---------------------------- MODULE Verification ----------------------------
(***************************************************************************)
(* Review of claims: a reviewer is assigned to a case, drafts an           *)
(* attestation over claims of the case and signs it; the signature, its    *)
(* revocation and its correction move the claims it covers; a dispute or a *)
(* shaken basis takes an attestation out of standing.                      *)
(*                                                                         *)
(* Signing, revoking and resolving a dispute are transactions of several   *)
(* statements: each read, row lock and write is a step of its own, a lock  *)
(* is held until the commit, and other transactions see what is committed. *)
(* Everything else takes its locks and commits in one step. A request that *)
(* is refused, and a deadlock victim, changes nothing.                     *)
(*                                                                         *)
(* Abstracted: one project and one schema key; findings, citations,        *)
(* limitations, wallets and versions of rows (a stale If-Match is refused);*)
(* ids count up in the order rows are inserted.                            *)
(***************************************************************************)
EXTENDS Naturals, FiniteSets, Sequences, FiniteSetsExt

CONSTANTS
  Case, Claim, Attestation, Request, Dispute, \* ids of rows: sets 1..n
  Reviewer, Officer,        \* people who sign, people who assign and decide
  Submitter,                \* who submitted each claim, or Unknown
  Tier,                     \* the evidence tier of each claim: "high" or "low"
  FirstClaims,              \* the claims that exist at the start
  Bodies, Disclosure,       \* scopes and types of drafts; conflicts an assigner discloses
  Expiring,                 \* reviewers whose credential passes its expiry date
  Tx,                       \* transactions at once
  MaxAssignments            \* bound: assignments of a case

VARIABLES
  cases,       \* core.verification_cases and their assignments, oldest first
  claims,      \* core.claims
  attestations,\* core.verification_attestations
  requests,    \* core.attestation_signature_requests
  disputes,    \* core.attestation_disputes
  credentials, \* core.credentials, one per reviewer
  issuer,      \* the state of the authority that issued them
  schemaCurrent, \* no later version of the attestation schema is active
  signals,     \* core.evidence_stale_signals by origin: on public records, on the project
  tx           \* the open transactions: what each has read, locked and written

reviewVars == <<cases, claims, attestations, requests, disputes, credentials, issuer, schemaCurrent,
                signals, tx>>

Unknown == "unknown"
NoPerson  == "nobody"
None    == 0
Idle    == [op |-> "idle"]

attestationMachine ==
  [s \in {"draft", "signed", "active", "stale_candidate", "superseded", "revoked", "disputed"} |->
     CASE s = "draft"           -> {"signed"}
       [] s = "signed"          -> {"active", "superseded", "revoked", "disputed"}
       [] s = "active"          -> {"stale_candidate", "superseded", "revoked", "disputed"}
       [] s = "stale_candidate" -> {"active", "superseded", "revoked", "disputed"}
       [] s = "disputed"        -> {"active", "superseded", "revoked"}
       [] OTHER                 -> {}]

verificationCaseMachine ==
  [s \in {"assigned", "in_review", "changes_requested", "signed", "declined", "cancelled",
          "superseded", "revoked"} |->
     CASE s = "assigned"          -> {"in_review", "declined", "cancelled"}
       [] s = "in_review"         -> {"changes_requested", "signed", "cancelled"}
       [] s = "changes_requested" -> {"in_review", "cancelled"}
       [] s = "signed"            -> {"registered", "revoked", "superseded"}
       [] OTHER                   -> {}]

CREDENTIAL_STATUS_TRANSITIONS ==
  [s \in {"valid", "suspended", "expired", "revoked"} |->
     CASE s = "valid"     -> {"expired", "revoked", "suspended"}
       [] s = "suspended" -> {"valid", "expired", "revoked"}
       [] s = "expired"   -> {"revoked"}
       [] OTHER           -> {}]

STANDING_ATTESTATION_STATES == {"signed", "active"}
UnderReview == {"assigned", "in_review", "changes_requested"}

\* What each type establishes, as the rank of the verification state.
STATE_ESTABLISHED_BY ==
  [t \in {"cryptographic_attestation", "professional_signoff", "independent_assurance"} |->
     CASE t = "cryptographic_attestation" -> 1
       [] t = "professional_signoff"      -> 2
       [] OTHER                           -> 3]

deriveVerificationState(types) == Max({0} \cup {STATE_ESTABLISHED_BY[t] : t \in types})

computeClaimGrade(rank, tier, types, conflicts) ==
  IF rank = 0 THEN "unverified"
  ELSE IF /\ rank = 3 /\ tier = "high" /\ conflicts = 0
          /\ {"professional_signoff", "independent_assurance"} \subseteq types THEN "verified"
  ELSE IF rank >= 2 /\ tier = "high" THEN "partially_verified"
  ELSE "self_reported"

NewClaim(tier) == [rank |-> 0, grade |-> "unverified", tier |-> tier, conflicts |-> 0,
                   stale |-> FALSE, successor |-> None]

ASSUME ClaimsAssumption ==
  /\ IsFiniteSet(FirstClaims) /\ FirstClaims = 1 .. Cardinality(FirstClaims)
  /\ Claim \subseteq Nat /\ FirstClaims \subseteq Claim
ASSUME BodiesAssumption == \A b \in Bodies : b.type \in DOMAIN STATE_ESTABLISHED_BY

ReviewInit ==
  /\ cases = <<>>
  /\ claims = [k \in FirstClaims |-> NewClaim(Tier[k])]
  /\ attestations = <<>>
  /\ requests = <<>>
  /\ disputes = <<>>
  /\ credentials = [r \in Reviewer |-> [status |-> "valid", suspendedBy |-> NoPerson]]
  /\ issuer = "accepted"
  /\ schemaCurrent = TRUE
  /\ signals = [records |-> <<>>, project |-> <<>>]
  /\ tx = [t \in Tx |-> Idle]

-----------------------------------------------------------------------------
(* Open transactions. A row written, or locked, by one is not free for      *)
(* another; reads see what is committed and the reader's own writes.        *)

\* Row k added to f, or written over.
With(f, k, row) == [x \in DOMAIN f \cup {k} |-> IF x = k THEN row ELSE f[x]]

Open(t) == tx[t] # Idle
AttestationFree(a) == \A t \in Tx : Open(t) => a \notin DOMAIN tx[t].atts
CaseFree(c)        == \A t \in Tx : Open(t) => c \notin DOMAIN tx[t].cases
ClaimFree_Unlocked(k) == TRUE
ClaimFree(k)       == \A t \in Tx : Open(t) => k \notin DOMAIN tx[t].marks
RowFree(op, row)   == \A t \in Tx : ~(Open(t) /\ tx[t].op = op /\ tx[t].row = row)

Started(op, row, a) == [op |-> op, row |-> row, att |-> a, writing |-> FALSE, outcome |-> "none",
                        todo |-> {}, atts |-> <<>>, cases |-> <<>>, marks |-> <<>>]

Begin(t, transaction) == tx[t] = Idle /\ tx' = [tx EXCEPT ![t] = transaction]

Rollback(t) == tx' = [tx EXCEPT ![t] = Idle]

SeenState(t, a) == IF a \in DOMAIN tx[t].atts THEN tx[t].atts[a] ELSE attestations[a].state

standingAttestationTypes(t, k) ==
  {attestations[a].type : a \in {b \in DOMAIN attestations :
     k \in attestations[b].scope /\ SeenState(t, b) \in STANDING_ATTESTATION_STATES}}

WithStates(states) ==
  [a \in DOMAIN attestations |->
     IF a \in DOMAIN states THEN [attestations[a] EXCEPT !.state = states[a]] ELSE attestations[a]]

-----------------------------------------------------------------------------
(* The basis a review stands on.                                            *)

Holder(c, i) == cases[c].assigned[i].reviewer
Latest(c) == Len(cases[c].assigned)
AssignmentActive(c, i) == ~cases[c].assigned[i].revoked

loadEvidenceSubmitters(scope) == {Submitter[k] : k \in scope} \ {Unknown}

basisBlocked(reviewer) == credentials[reviewer].status # "valid" \/ issuer # "accepted"

reviewIndependence(reviewer, assigner, scope) ==
  [violated |-> reviewer = assigner \/ reviewer \in loadEvidenceSubmitters(scope),
   reviewed |-> reviewer # assigner /\ \A k \in scope : Submitter[k] \notin {Unknown, reviewer}]

assignReviewer(reviewer, assigner, scope, disclosed) ==
  LET review == reviewIndependence(reviewer, assigner, scope) IN
  [allowed |-> ~basisBlocked(reviewer) /\ ~review.violated,
   row |-> [reviewer |-> reviewer, reviewed |-> review.reviewed, conflict |-> disclosed,
            revoked |-> FALSE]]

buildEvidenceSnapshot(scope) == [k \in scope |-> claims[k].grade]

CreateCase(officer, reviewer, scope, disclosed) ==
  LET c == Len(cases) + 1
      assignment == assignReviewer(reviewer, officer, scope, disclosed) IN
  /\ c \in Case
  /\ scope # {} /\ scope \subseteq DOMAIN claims
  /\ assignment.allowed
  /\ cases' = Append(cases, [state |-> "assigned", claims |-> scope, assigned |-> <<assignment.row>>,
                             snapshot |-> buildEvidenceSnapshot(scope)])
  /\ UNCHANGED <<claims, attestations, requests, disputes, credentials, issuer, schemaCurrent, signals, tx>>

TransitionCase(c, to) ==
  /\ c \in DOMAIN cases /\ CaseFree(c)
  /\ to \in {"in_review", "changes_requested", "declined", "cancelled"}
  /\ to \in verificationCaseMachine[cases[c].state]
  /\ cases' = [cases EXCEPT ![c].state = to]
  /\ UNCHANGED <<claims, attestations, requests, disputes, credentials, issuer, schemaCurrent, signals, tx>>

\* lockAssignment: the assignment and its case, and the case still has work to reassign.
lockAssignment(c) == c \in DOMAIN cases /\ CaseFree(c) /\ cases[c].state \in UnderReview

RevokeAssignment(c) ==
  /\ lockAssignment(c)
  /\ AssignmentActive(c, Latest(c))
  /\ cases' = [cases EXCEPT ![c].assigned[Latest(c)].revoked = TRUE]
  /\ UNCHANGED <<claims, attestations, requests, disputes, credentials, issuer, schemaCurrent, signals, tx>>

Reassign(c, officer, reviewer, disclosed) ==
  LET assignment == assignReviewer(reviewer, officer, cases[c].claims, disclosed) IN
  /\ lockAssignment(c)
  /\ Latest(c) < MaxAssignments
  /\ assignment.allowed
  /\ cases' = [cases EXCEPT ![c].assigned =
                 Append([cases[c].assigned EXCEPT ![Latest(c)].revoked = TRUE], assignment.row)]
  /\ UNCHANGED <<claims, attestations, requests, disputes, credentials, issuer, schemaCurrent, signals, tx>>

-----------------------------------------------------------------------------
(* Drafting and signing.                                                    *)

assertSupersedable(predecessor, scope) ==
  /\ "superseded" \in attestationMachine[attestations[predecessor].state]
  /\ attestations[predecessor].scope \subseteq scope

checkAttestationSignable(c, i, scope, type) ==
  /\ scope # {} /\ schemaCurrent
  /\ AssignmentActive(c, i)
  /\ credentials[Holder(c, i)].status = "valid"
  /\ cases[c].assigned[i].conflict # "unresolved"
  /\ type = "independent_assurance" => Holder(c, i) \notin loadEvidenceSubmitters(scope)
  /\ cases[c].assigned[i].reviewed

DraftRow(c, i, scope, type, predecessor) ==
  [state |-> "draft", case |-> c, assignment |-> i, scope |-> scope, type |-> type,
   supersedes |-> predecessor, snapshot |-> cases[c].snapshot]

\* The drafter is the person assigned: any assignment of the case that is still active.
DraftAttestation(c, i, scope, type, predecessor) ==
  LET a == Len(attestations) + 1 IN
  /\ a \in Attestation
  /\ c \in DOMAIN cases /\ i \in DOMAIN cases[c].assigned
  /\ cases[c].state \in UnderReview
  /\ scope \subseteq cases[c].claims
  /\ checkAttestationSignable(c, i, scope, type)
  /\ ~basisBlocked(Holder(c, i))
  /\ predecessor # None => assertSupersedable(predecessor, scope)
  /\ cases[c].state = "assigned" => CaseFree(c)
  /\ attestations' = Append(attestations, DraftRow(c, i, scope, type, predecessor))
  /\ cases' = [cases EXCEPT ![c].state = IF @ = "assigned" THEN "in_review" ELSE @]
  /\ UNCHANGED <<claims, requests, disputes, credentials, issuer, schemaCurrent, signals, tx>>

authorizeSignatureRequest(a) ==
  LET att == attestations[a] IN
  /\ att.state = "draft"
  /\ cases[att.case].state \in UnderReview
  /\ AssignmentActive(att.case, att.assignment)
  /\ credentials[Holder(att.case, att.assignment)].status = "valid"
  /\ cases[att.case].assigned[att.assignment].conflict # "unresolved"

RequestSignature(a) ==
  /\ Len(requests) + 1 \in Request
  /\ a \in DOMAIN attestations
  /\ authorizeSignatureRequest(a)
  /\ requests' = Append(requests, [att |-> a, snapshot |-> attestations[a].snapshot, state |-> "open"])
  /\ UNCHANGED <<cases, claims, attestations, disputes, credentials, issuer, schemaCurrent, signals, tx>>

\* The request is consumed and the facts are read: only the request row is locked. One that
\* expires is one nobody submits.
SignReads(t, q) ==
  /\ q \in DOMAIN requests /\ requests[q].state = "open" /\ RowFree("sign", q)
  /\ LET a == requests[q].att
         c == attestations[a].case IN
     /\ cases[c].snapshot = requests[q].snapshot
     /\ ~basisBlocked(Holder(c, attestations[a].assignment))
     /\ AssignmentActive(c, attestations[a].assignment)
     /\ Begin(t, Started("sign", q, a))
  /\ UNCHANGED <<cases, claims, attestations, requests, disputes, credentials, issuer, schemaCurrent, signals>>

\* Whether the predecessor can be superseded is judged again under its lock, and the unique
\* index admits one successor that is not a draft.
supersedePredecessor(a) ==
  LET predecessor == attestations[a].supersedes IN
  /\ "superseded" \in attestationMachine[attestations[predecessor].state]
  /\ \A b \in DOMAIN attestations \ {a} :
       attestations[b].supersedes = predecessor => attestations[b].state = "draft"

\* The attestation a signature replaces, if any.
Replaced(a) == {attestations[a].supersedes} \ {None}

\* protect_signed_attestation: a body that is signed takes no other signature.
protect_signed_attestation(a) == attestations[a].state = "draft"

SignWrites(t) ==
  LET a == tx[t].att
      c == attestations[a].case
      held == {a} \cup Replaced(a)
      following == {attestations[b].case : b \in
        {r \in Replaced(a) : "superseded" \in verificationCaseMachine[cases[attestations[r].case].state]}} IN
  /\ Open(t) /\ tx[t].op = "sign" /\ ~tx[t].writing
  /\ \A b \in held : AttestationFree(b)
  /\ \A b \in held : CaseFree(attestations[b].case)
  /\ IF protect_signed_attestation(a) /\ (Replaced(a) # {} => supersedePredecessor(a))
     THEN tx' = [tx EXCEPT ![t].writing = TRUE, ![t].todo = attestations[a].scope,
            ![t].atts = [b \in held |-> IF b = a THEN "signed" ELSE "superseded"],
            ![t].cases = [d \in following \cup {c} |-> IF d \in following THEN "superseded" ELSE "signed"]]
     ELSE Rollback(t)
  /\ UNCHANGED <<cases, claims, attestations, requests, disputes, credentials, issuer, schemaCurrent, signals>>

-----------------------------------------------------------------------------
(* Revocation, by the signer.                                               *)

RevokeAttestation(t, a) ==
  /\ a \in DOMAIN attestations /\ AttestationFree(a) /\ CaseFree(attestations[a].case)
  /\ "revoked" \in attestationMachine[attestations[a].state]
  /\ LET c == attestations[a].case IN
     Begin(t, [Started("revoke", None, a) EXCEPT
       !.writing = TRUE, !.todo = attestations[a].scope, !.atts = [b \in {a} |-> "revoked"],
       !.cases = [d \in {e \in {c} : "revoked" \in verificationCaseMachine[cases[e].state]} |-> "revoked"]])
  /\ UNCHANGED <<cases, claims, attestations, requests, disputes, credentials, issuer, schemaCurrent, signals>>

\* The claims of the scope in the order of their ids, each locked before its attestations are
\* read and until the commit.
reassessClaim(t) ==
  LET k == Min(tx[t].todo)
      types == standingAttestationTypes(t, k)
      rank == deriveVerificationState(types)
      grade == computeClaimGrade(rank, claims[k].tier, types, claims[k].conflicts) IN
  /\ Open(t) /\ tx[t].writing /\ tx[t].todo # {}
  /\ ClaimFree(k)
  /\ tx' = [tx EXCEPT ![t].todo = @ \ {k}, ![t].marks = With(@, k, [rank |-> rank, grade |-> grade])]
  /\ UNCHANGED <<cases, claims, attestations, requests, disputes, credentials, issuer, schemaCurrent, signals>>

CommitReview(t) ==
  /\ Open(t) /\ tx[t].op \in {"sign", "revoke"} /\ tx[t].writing /\ tx[t].todo = {}
  /\ attestations' = WithStates(tx[t].atts)
  /\ cases' = [c \in DOMAIN cases |-> IF c \in DOMAIN tx[t].cases
                                      THEN [cases[c] EXCEPT !.state = tx[t].cases[c]] ELSE cases[c]]
  /\ claims' = [k \in DOMAIN claims |-> IF k \in DOMAIN tx[t].marks
       THEN [claims[k] EXCEPT !.rank = tx[t].marks[k].rank, !.grade = tx[t].marks[k].grade]
       ELSE claims[k]]
  /\ requests' = IF tx[t].op = "sign" THEN [requests EXCEPT ![tx[t].row].state = "used"] ELSE requests
  /\ Rollback(t)
  /\ UNCHANGED <<disputes, credentials, issuer, schemaCurrent, signals>>

-----------------------------------------------------------------------------
(* Disputes.                                                                *)

RaiseDispute(a) ==
  /\ Len(disputes) + 1 \in Dispute
  /\ a \in DOMAIN attestations /\ AttestationFree(a)
  /\ attestations[a].state = "disputed" \/ "disputed" \in attestationMachine[attestations[a].state]
  /\ disputes' = Append(disputes, [att |-> a, outcome |-> "open"])
  /\ attestations' = [attestations EXCEPT ![a].state = "disputed"]
  /\ UNCHANGED <<cases, claims, requests, credentials, issuer, schemaCurrent, signals, tx>>

Remaining(d) == {e \in DOMAIN disputes \ {d} :
                   disputes[e].att = disputes[d].att /\ disputes[e].outcome = "open"}

\* Only the dispute is locked; the others are counted as they are committed.
ResolveReads(t, d, outcome) ==
  /\ d \in DOMAIN disputes /\ disputes[d].outcome = "open" /\ RowFree("resolve", d)
  /\ Begin(t, [Started("resolve", d, disputes[d].att) EXCEPT
               !.writing = outcome = "dismissed" /\ Remaining(d) = {}, !.outcome = outcome])
  /\ UNCHANGED <<cases, claims, attestations, requests, disputes, credentials, issuer, schemaCurrent, signals>>

\* UPDATE ... SET state = 'active' WHERE ... AND state = 'disputed'
Restored(a) == IF attestations[a].state = "disputed" THEN "active" ELSE attestations[a].state

ResolveWrites(t) ==
  /\ Open(t) /\ tx[t].op = "resolve"
  /\ tx[t].writing => AttestationFree(tx[t].att)
  /\ attestations' = IF tx[t].writing
                     THEN [attestations EXCEPT ![tx[t].att].state = Restored(tx[t].att)] ELSE attestations
  /\ disputes' = [disputes EXCEPT ![tx[t].row].outcome = tx[t].outcome]
  /\ Rollback(t)
  /\ UNCHANGED <<cases, claims, requests, credentials, issuer, schemaCurrent, signals>>

-----------------------------------------------------------------------------
(* A shaken basis: only active attestations go to re-review, each leaving   *)
(* a signal on the records and, if none is open, a suspension proposal.     *)

Opened(rows, origins) ==
  [a \in DOMAIN rows \cup origins |-> IF a \in DOMAIN rows THEN rows[a] ELSE "open"]

Unsettle(shaken) ==
  LET proposing == IF \E a \in DOMAIN signals.project : signals.project[a] = "open" THEN {}
                   ELSE IF shaken \subseteq DOMAIN signals.project THEN {}
                   ELSE {Min(shaken \ DOMAIN signals.project)} IN
  /\ \A a \in shaken : AttestationFree(a)
  /\ attestations' = WithStates([a \in shaken |-> "stale_candidate"])
  /\ signals' = [records |-> Opened(signals.records, shaken),
                 project |-> Opened(signals.project, proposing)]

Active == {a \in DOMAIN attestations : attestations[a].state = "active"}

RecordConflict(k) ==
  /\ k \in DOMAIN claims /\ ClaimFree(k) /\ claims[k].conflicts = 0
  /\ claims' = [claims EXCEPT ![k].conflicts = 1,
       ![k].grade = computeClaimGrade(claims[k].rank, claims[k].tier,
                      {attestations[a].type : a \in {b \in DOMAIN attestations :
                         k \in attestations[b].scope
                         /\ attestations[b].state \in STANDING_ATTESTATION_STATES}}, 1)]
  /\ UNCHANGED <<cases, attestations, requests, disputes, credentials, issuer, schemaCurrent, signals, tx>>

CorrectClaim(k) ==
  LET new == Max(DOMAIN claims) + 1 IN
  /\ new \in Claim
  /\ k \in DOMAIN claims /\ ClaimFree(k) /\ claims[k].successor = None
  /\ claims' = With([claims EXCEPT ![k].successor = new, ![k].stale = TRUE], new, NewClaim(Tier[new]))
  /\ Unsettle({a \in Active : k \in attestations[a].scope /\ ~claims[k].stale})
  /\ UNCHANGED <<cases, requests, disputes, credentials, issuer, schemaCurrent, tx>>

ChangeCredential(r, to, actor) ==
  /\ actor # r
  /\ to \in CREDENTIAL_STATUS_TRANSITIONS[credentials[r].status]
  /\ credentials[r].status = "suspended" /\ to = "valid" => actor # credentials[r].suspendedBy
  /\ credentials' = [credentials EXCEPT ![r].status = to,
                       ![r].suspendedBy = IF to = "suspended" THEN actor ELSE @]
  /\ Unsettle(IF to = "valid" THEN {}
              ELSE {a \in Active : Holder(attestations[a].case, attestations[a].assignment) = r})
  /\ UNCHANGED <<cases, claims, requests, disputes, issuer, schemaCurrent, tx>>

\* The sweep reads the expiry date and leaves the credential alone.
sweep_credential_expiry(r) ==
  LET due == {a \in Active : Holder(attestations[a].case, attestations[a].assignment) = r} IN
  /\ r \in Expiring /\ due # {}
  /\ Unsettle(due)
  /\ UNCHANGED <<cases, claims, requests, disputes, credentials, issuer, schemaCurrent, tx>>

SchemaSuperseded ==
  /\ schemaCurrent
  /\ schemaCurrent' = FALSE
  /\ Unsettle(Active)
  /\ UNCHANGED <<cases, claims, requests, disputes, credentials, issuer, tx>>

\* The authority that issued the credentials is suspended or accepted again.
IssuerChanges ==
  /\ issuer' = IF issuer = "accepted" THEN "suspended" ELSE "accepted"
  /\ UNCHANGED <<cases, claims, attestations, requests, disputes, credentials, schemaCurrent, signals, tx>>

ResolveSignal(target, a) ==
  /\ a \in DOMAIN signals[target] /\ signals[target][a] = "open"
  /\ signals' = [signals EXCEPT ![target][a] = "closed"]
  /\ UNCHANGED <<cases, claims, attestations, requests, disputes, credentials, issuer, schemaCurrent, tx>>

-----------------------------------------------------------------------------
Reviews ==
  \/ \E o \in Officer \cup Reviewer, r \in Reviewer, s \in {b.scope : b \in Bodies}, d \in Disclosure :
       CreateCase(o, r, s, d)
  \/ \E c \in Case, i \in 1..MaxAssignments, b \in Bodies, p \in {None} \cup DOMAIN attestations :
       DraftAttestation(c, i, b.scope, b.type, p)
  \/ \E a \in Attestation : RequestSignature(a)
  \/ \E t \in Tx : \/ \E q \in Request : SignReads(t, q)
                   \/ \E a \in Attestation : RevokeAttestation(t, a)
                   \/ SignWrites(t) \/ reassessClaim(t) \/ CommitReview(t)

Disputes ==
  \/ \E a \in Attestation : RaiseDispute(a)
  \/ \E t \in Tx : \/ \E d \in Dispute, o \in {"upheld", "dismissed"} : ResolveReads(t, d, o)
                   \/ ResolveWrites(t)

CaseChanges ==
  \E c \in DOMAIN cases :
    \/ \E to \in {"in_review", "changes_requested", "declined", "cancelled"} : TransitionCase(c, to)
    \/ RevokeAssignment(c)
    \/ \E o \in Officer, r \in Reviewer, d \in Disclosure : Reassign(c, o, r, d)

BasisChanges ==
  \/ \E k \in Claim : RecordConflict(k) \/ CorrectClaim(k)
  \/ \E r \in Reviewer : \/ \E to \in {"valid", "suspended", "expired", "revoked"}, o \in Officer \cup Reviewer :
                              ChangeCredential(r, to, o)
                         \/ sweep_credential_expiry(r)
  \/ SchemaSuperseded \/ IssuerChanges

Signals == \E target \in {"records", "project"}, a \in Attestation : ResolveSignal(target, a)

ReviewNext == Reviews \/ Disputes \/ CaseChanges \/ BasisChanges \/ Signals
ReviewSpec == ReviewInit /\ [][ReviewNext]_reviewVars

-----------------------------------------------------------------------------
(* Properties.                                                              *)

Closed == {"superseded", "revoked"}
Covering(k) == {a \in DOMAIN attestations : k \in attestations[a].scope}

\* A claim stands neither higher than the attestations nobody has withdrawn nor lower than any
\* that is signed, and is verified only with every conflict settled, whatever signatures,
\* revocations and corrections of overlapping scopes commit side by side (reassessClaim).
ClaimsBacked ==
  \A k \in DOMAIN claims :
    /\ claims[k].rank <= deriveVerificationState(
         {attestations[a].type : a \in {b \in Covering(k) : attestations[b].state \notin Closed \cup {"draft"}}})
    /\ \A a \in Covering(k) : attestations[a].state = "signed"
                              => claims[k].rank >= STATE_ESTABLISHED_BY[attestations[a].type]
    /\ claims[k].grade = "verified" => claims[k].conflicts = 0

\* An attestation is superseded exactly when one signed correction of it exists, and that one
\* covers every claim it covered: no claim is left on a judgment that was replaced
\* (supersedePredecessor, attestations_one_signed_successor).
CorrectionsCover ==
  \A a \in DOMAIN attestations :
    LET corrections == {b \in DOMAIN attestations :
                          attestations[b].supersedes = a /\ attestations[b].state # "draft"} IN
    /\ attestations[a].state = "superseded" <=> corrections # {}
    /\ Cardinality(corrections) <= 1
    /\ \A b \in corrections : attestations[a].scope \subseteq attestations[b].scope

\* No claim stands on a judgment that is gone, whichever way it went.
ClaimsStand == ClaimsBacked /\ CorrectionsCover
=============================================================================
