------------------------ MODULE RegistryPublication ------------------------
(***************************************************************************)
(* Publishing one Registry entry (apps/api/src/routes/registry-drafts.ts   *)
(* and registry.ts): a draft, its publication or rejection by a second     *)
(* person, revocation, and the batches that take the versions to the       *)
(* chain.                                                                  *)
(*                                                                         *)
(* Every request is one PostgreSQL transaction at READ COMMITTED, so two   *)
(* requests interleave between statements and see what committed before    *)
(* each of them.  A request that changes rows only in its last statements  *)
(* and reads nothing after them commits in one step; row and advisory      *)
(* locks it took are held until then.  A lock that is taken is a guard of  *)
(* whoever waits for it.  Idempotency keys and the audit and outbox rows   *)
(* written beside each change are left out.                                *)
(*                                                                         *)
(* The entry is about a project or about an attestation (subject.type).    *)
(* Of the project lifecycle four states are kept, and of the attestation's *)
(* states those a published one moves through; a correction takes it out   *)
(* of "signed, active" for good like a revocation does.                    *)
(***************************************************************************)
EXTENDS Naturals, Sequences, FiniteSets

CONSTANTS
    RegistryType, \* what the entry may be about: "project", "verification"
    Draft,        \* the drafts ever made for the entry's public key
    Person,       \* drafters and approvers
    Request,      \* publish requests that may run at the same time
    Builder,      \* anchor-batch requests that may run at the same time
    Evidence,     \* bound on the snapshots the evidence goes through
    NoDraft       \* the draft of an idle request

ASSUME PublicationAssumption ==
    /\ RegistryType \subseteq {"project", "verification"}
    /\ Evidence \in Nat
    /\ NoDraft \notin Draft
    /\ Person # {}

VARIABLES
    subject,    \* the project row or the attestation row, and the evidence
    restricted, \* an active disclosure restriction (blackout) covers publishing
    drafts,     \* core.registry_publication_drafts
    versions,   \* core.registry_entry_versions of the entry, by version number
    requests,   \* the publish requests in flight
    builds,     \* the batch requests in flight: the leaves each has read
    batched     \* chain.anchor_batch_leaves: versions that are in a batch

publicationVars == <<subject, restricted, drafts, versions, requests, builds, batched>>

Project == subject.type = "project"
Lifecycle == {"draft", "registered", "suspended", "closure"}
Attestation == {"signed", "active", "stale_candidate", "disputed", "revoked"}
SubjectState == Lifecycle \cup Attestation

VersionStatus == {"published", "revoked", "superseded"}
Version == [status: VersionStatus, draft: Draft, stated: SubjectState, approver: Person]
DraftRow == [state: {"none", "pending", "published", "rejected"}, version: Nat,
             by: Person, ledger: BOOLEAN, snapshot: Nat, claimed: SubjectState]
RequestRow == [pc: {"idle", "asked", "locked", "checked", "numbered"},
               draft: Draft \cup {NoDraft}, approver: Person, expected: Nat,
               stated: SubjectState, previous: Nat]

Latest == Len(versions)

\* No publish request is in flight under this name.
Idle == [pc |-> "idle", draft |-> NoDraft, approver |-> CHOOSE p \in Person : TRUE,
         expected |-> 0, stated |-> CHOOSE s \in SubjectState : TRUE, previous |-> 0]

Blank == [state |-> "none", version |-> 0, by |-> CHOOSE p \in Person : TRUE,
          ledger |-> FALSE, snapshot |-> 0, claimed |-> CHOOSE s \in SubjectState : TRUE]

PublicationInit ==
    /\ subject \in {[type |-> type, prior |-> "registered", evidence |-> 0,
                     state |-> IF type = "project" THEN "draft" ELSE "signed"]
                        : type \in RegistryType}
    /\ restricted = FALSE
    /\ drafts = [d \in Draft |-> Blank]
    /\ versions = <<>>
    /\ requests = [r \in Request |-> Idle]
    /\ builds = [b \in Builder |-> {}]
    /\ batched = {}

---------------------------------------------------------------------------
(* Locks, each held from the statement that takes it until the request ends *)

InTransaction(r) == requests[r].pc \in {"locked", "checked", "numbered"}

\* SELECT ... FOR UPDATE on the draft row.
DraftFree(d) == \A r \in Request : InTransaction(r) => requests[r].draft # d

\* SELECT ... FOR UPDATE on the project row, taken for project entries only.
ProjectFree == Project => \A r \in Request : ~InTransaction(r)

\* The project's evidence barrier, taken for drafts that carry a ledger.
EvidenceFree ==
    \A r \in Request : InTransaction(r) => ~drafts[requests[r].draft].ledger

\* The advisory lock shared by restriction checks and restriction changes.
RestrictionFree_Mutation == TRUE
RestrictionFree == \A r \in Request : requests[r].pc \notin {"checked", "numbered"}

\* pg_advisory_xact_lock('anchor-batch:' tenant).
BatchFree == \A b \in Builder : builds[b] = {}

---------------------------------------------------------------------------
(* Drafts *)

\* The status a publication would state, decided by the server.
PublishedStatus ==
    IF Project /\ subject.state = "draft" THEN "registered" ELSE subject.state
AcceptedStatuses == {subject.state, PublishedStatus}

\* A subject a version may be about: any project, a standing attestation.
Publishable == Project \/ subject.state \in {"signed", "active"}

\* Partial unique index registry_drafts_one_pending_idx.
NonePending == \A d \in Draft : drafts[d].state # "pending"

\* POST /registry-entries.
Propose(d, p, ledger, claimed) ==
    /\ drafts[d].state = "none"
    /\ NonePending
    /\ Publishable
    /\ claimed \in AcceptedStatuses
    /\ ledger => Project
    /\ drafts' = [drafts EXCEPT ![d] =
            [state |-> "pending", version |-> 1, by |-> p, ledger |-> ledger,
             snapshot |-> subject.evidence, claimed |-> claimed]]
    /\ UNCHANGED <<subject, restricted, versions, requests, builds, batched>>

\* POST /registry-entries/drafts/:id/reject; needs no second person.
Reject(d) ==
    /\ DraftFree(d)
    /\ drafts[d].state = "pending"
    /\ drafts' = [drafts EXCEPT ![d].state = "rejected", ![d].version = @ + 1]
    /\ UNCHANGED <<subject, restricted, versions, requests, builds, batched>>

---------------------------------------------------------------------------
(* POST /registry-entries/drafts/:id/publish *)

End(r) == requests' = [requests EXCEPT ![r] = Idle]

\* The approver has read the draft and names its version in If-Match.
Ask(r, d, p) ==
    /\ requests[r].pc = "idle"
    /\ drafts[d].state = "pending"
    /\ requests' = [requests EXCEPT ![r] =
            [Idle EXCEPT !.pc = "asked", !.draft = d, !.approver = p,
                         !.expected = drafts[d].version]]
    /\ UNCHANGED <<subject, restricted, drafts, versions, builds, batched>>

\* What must still hold of the row once it is locked: If-Match, undecided, and
\* an approver who did not draft it.
Approvable_Mutation(q) == drafts[q.draft].by # q.approver
Approvable(q) ==
    /\ drafts[q.draft].version = q.expected
    /\ drafts[q.draft].state = "pending"
    /\ drafts[q.draft].by # q.approver

LockDraft(r) ==
    /\ requests[r].pc = "asked"
    /\ DraftFree(requests[r].draft)
    /\ ProjectFree
    /\ IF Approvable(requests[r])
       THEN requests' = [requests EXCEPT ![r].pc = "locked"]
       ELSE End(r)
    /\ UNCHANGED <<subject, restricted, drafts, versions, builds, batched>>

\* The draft still says what the subject is now, and publishing is allowed.
StillPublishable(d) ==
    /\ Publishable
    /\ ~restricted
    /\ drafts[d].snapshot = subject.evidence
    /\ drafts[d].claimed \in AcceptedStatuses

Recheck(r) ==
    /\ requests[r].pc = "locked"
    /\ IF StillPublishable(requests[r].draft)
       THEN requests' = [requests EXCEPT ![r].pc = "checked", ![r].stated = PublishedStatus]
       ELSE End(r)
    /\ UNCHANGED <<subject, restricted, drafts, versions, builds, batched>>

\* SELECT of the previous version, which it does not lock.
ReadPrevious(r) ==
    /\ requests[r].pc = "checked"
    /\ requests' = [requests EXCEPT ![r].pc = "numbered", ![r].previous = Latest]
    /\ UNCHANGED <<subject, restricted, drafts, versions, builds, batched>>

\* The previous version is relabelled, whatever its status is by now.
Supersede(v) == [w \in DOMAIN versions |->
    IF w = v THEN [versions[w] EXCEPT !.status = "superseded"] ELSE versions[w]]

\* Insert, supersede, decide the draft, register the project; commit.
\* UNIQUE (entry_id, version) refuses a number that is taken.
Publish(r) ==
    LET q == requests[r]
    IN  /\ q.pc = "numbered"
        /\ End(r)
        /\ IF q.previous = Latest
           THEN /\ versions' = Append(Supersede(q.previous),
                        [status |-> "published", draft |-> q.draft,
                         stated |-> q.stated, approver |-> q.approver])
                /\ drafts' = [drafts EXCEPT ![q.draft].state = "published",
                                            ![q.draft].version = @ + 1]
                /\ subject' = [subject EXCEPT !.state =
                        IF Project /\ @ = "draft" THEN "registered" ELSE @]
           ELSE UNCHANGED <<versions, drafts, subject>>
        /\ UNCHANGED <<restricted, builds, batched>>

\* The connection or the process is lost: PostgreSQL rolls back.
Abort(r) ==
    /\ InTransaction(r)
    /\ End(r)
    /\ UNCHANGED <<subject, restricted, drafts, versions, builds, batched>>

\* POST /registry-entries/:id/revoke of the version named in If-Match.
InForce_Mutation == {v \in DOMAIN versions : versions[v].status \in {"published", "superseded"}}
InForce == {v \in DOMAIN versions : versions[v].status = "published"}

Revoke(expected) ==
    /\ expected \in InForce
    /\ \A v \in InForce : v <= expected
    /\ versions' = [versions EXCEPT ![expected].status = "revoked"]
    /\ UNCHANGED <<subject, restricted, drafts, requests, builds, batched>>

---------------------------------------------------------------------------
(* The other writers a publication meets *)

\* A claim, artifact or receipt is written; its trigger waits for the barrier.
ChangeEvidence ==
    /\ Project
    /\ subject.evidence < Evidence
    /\ EvidenceFree
    /\ subject' = [subject EXCEPT !.evidence = @ + 1]
    /\ UNCHANGED <<restricted, drafts, versions, requests, builds, batched>>

\* POST /projects/:id/lifecycle-transitions.
MoveLifecycle(to) ==
    /\ Project
    /\ ProjectFree
    /\ \/ subject.state = "registered" /\ to = "closure"
       \/ subject.state \in {"registered", "closure"} /\ to = "suspended"
       \/ subject.state = "suspended" /\ to \in {subject.prior, "closure"}
    /\ subject' = [subject EXCEPT
            !.state = to,
            !.prior = IF to = "suspended" THEN subject.state ELSE @]
    /\ UNCHANGED <<restricted, drafts, versions, requests, builds, batched>>

\* A disclosure restriction is activated or released.
ToggleRestriction ==
    /\ RestrictionFree
    /\ restricted' = ~restricted
    /\ UNCHANGED <<subject, drafts, versions, requests, builds, batched>>

\* The attestation behind a verification entry is disputed, stands again once
\* the dispute is dismissed, loses evidence, or is withdrawn by its signer:
\* none of these asks for a lock of the publication.
MoveAttestation(to) ==
    /\ ~Project
    /\ \/ subject.state \in {"signed", "active", "stale_candidate"} /\ to = "disputed"
       \/ subject.state = "disputed" /\ to = "active"
       \/ subject.state = "active" /\ to = "stale_candidate"
       \/ subject.state # "revoked" /\ to = "revoked"
    /\ subject' = [subject EXCEPT !.state = to]
    /\ UNCHANGED <<restricted, drafts, versions, requests, builds, batched>>

---------------------------------------------------------------------------
(* POST /anchor-batches *)

\* Under the lock: the versions that are in no batch yet.
ReadUnanchored(b) ==
    /\ builds[b] = {}
    /\ BatchFree
    /\ DOMAIN versions \ batched # {}
    /\ builds' = [builds EXCEPT ![b] = DOMAIN versions \ batched]
    /\ UNCHANGED <<subject, restricted, drafts, versions, requests, batched>>

\* Commit, unless the unique index on entry_version_id refuses a leaf.
CommitBatch(b) ==
    /\ builds[b] # {}
    /\ builds' = [builds EXCEPT ![b] = {}]
    /\ batched' = IF builds[b] \cap batched = {} THEN batched \cup builds[b] ELSE batched
    /\ UNCHANGED <<subject, restricted, drafts, versions, requests>>

---------------------------------------------------------------------------
PublicationNext ==
    \/ \E d \in Draft, p \in Person, ledger \in BOOLEAN, claimed \in SubjectState :
            Propose(d, p, ledger, claimed)
    \/ \E d \in Draft : Reject(d)
    \/ \E r \in Request :
        \/ \E d \in Draft, p \in Person : Ask(r, d, p)
        \/ LockDraft(r) \/ Recheck(r) \/ ReadPrevious(r) \/ Publish(r) \/ Abort(r)
    \/ \E expected \in DOMAIN versions : Revoke(expected)
    \/ ChangeEvidence
    \/ \E to \in Lifecycle : MoveLifecycle(to)
    \/ ToggleRestriction
    \/ \E to \in Attestation : MoveAttestation(to)
    \/ \E b \in Builder : ReadUnanchored(b) \/ CommitBatch(b)

PublicationSpec == PublicationInit /\ [][PublicationNext]_publicationVars

---------------------------------------------------------------------------
(* Properties *)

PublicationTypeOK ==
    /\ subject \in [type: RegistryType, state: IF Project THEN Lifecycle ELSE Attestation,
                    prior: {"registered", "closure"}, evidence: 0 .. Evidence]
    /\ restricted \in BOOLEAN
    /\ drafts \in [Draft -> DraftRow]
    /\ versions \in Seq(Version)
    /\ requests \in [Request -> RequestRow]
    /\ builds \in [Builder -> SUBSET DOMAIN versions]
    /\ batched \subseteq DOMAIN versions

(* One approval makes one version: a published draft stands behind exactly *)
(* one version, a draft in any other state behind none, and nobody         *)
(* approved their own.  Two approvers may hold the same draft at once, and *)
(* a rejection may land between an approver's reading and the publication  *)
(* (lockDraft and the checks after it).                                    *)
EachApprovalPublishesOnce ==
    /\ PublicationTypeOK
    /\ \A d \in Draft :
        Cardinality({v \in DOMAIN versions : versions[v].draft = d})
            = IF drafts[d].state = "published" THEN 1 ELSE 0
    /\ \A v \in DOMAIN versions : versions[v].approver # drafts[versions[v].draft].by

(* The number a publication computed is still free when it commits, so     *)
(* UNIQUE (entry_id, version) never refuses one and the version it         *)
(* supersedes is the latest: the previous version is read without a lock,  *)
(* and for a verification entry nothing but the index that allows one      *)
(* pending draft per key keeps a second publication away.                  *)
NumbersNeverCollide ==
    \A r \in Request : requests[r].pc = "numbered" => requests[r].previous = Latest

(* A batch never meets a leaf that another batch took since it read which  *)
(* versions have none: the unique index of 0041 would fail the whole       *)
(* request, and without it one version would be in two roots               *)
(* (buildAnchorBatch, the advisory lock of POST /anchor-batches).          *)
BatchesNeverCollide == \A b \in Builder : builds[b] \cap batched = {}

(* One approval, one version, one number, one batch: what two requests     *)
(* computed from unlocked reads is still free when each of them commits    *)
(* (registry.ts:241, registry.ts:482).                                     *)
PublishedOnce == EachApprovalPublishesOnce /\ NumbersNeverCollide /\ BatchesNeverCollide

(* A version states its subject as it is at that moment: the project       *)
(* lifecycle in the version is the one committed with it, and a draft with *)
(* an evidence ledger is about the evidence as it stands.  Several         *)
(* statements and other people's requests lie between the check of the     *)
(* draft and the commit (comment at registry.ts:151-162).                  *)
ProjectStatedAsItIs ==
    [][\A r \in Request :
        (Project /\ Len(versions') > Latest /\ requests[r] # requests'[r]) =>
            /\ versions'[Len(versions')].stated = subject'.state
            /\ drafts[requests[r].draft].ledger
                   => drafts[requests[r].draft].snapshot = subject.evidence]_publicationVars

(* Nothing is published while a blackout on it is active: a restriction    *)
(* activated after a publication checked for one waits until it has ended  *)
(* (assertActionNotRestricted, 11.12).                                     *)
NothingPublishedInBlackout == [][Len(versions') > Latest => ~restricted]_publicationVars

(* What was checked before the publication still holds when it commits.    *)
PublishedAsItStands == ProjectStatedAsItIs /\ NothingPublishedInBlackout

(* "Only a signed or active attestation can be published"                  *)
(* (registry-publication.ts:223).  The attestation is read without a lock, *)
(* so its signer can withdraw it before the publication commits.           *)
OnlyStandingAttestations == [][Len(versions') > Latest => Publishable']_publicationVars

\* The entry's history, as a reader of the Registry sees it.
History == INSTANCE VersionHistory WITH
    Content <- Draft,
    VersionBound <- Cardinality(Draft),
    history <- [v \in DOMAIN versions |->
        [status |-> versions[v].status, content |-> versions[v].draft]]

(* The concurrent requests together behave like the version history: one   *)
(* version after another, each approval at most once, revocation of the    *)
(* version in force only.                                                  *)
KeepsVersionHistory == History!HistorySpec
=============================================================================
