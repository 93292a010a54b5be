--------------------------- MODULE ReviewRegistry ---------------------------
(***************************************************************************)
(* The review registries (apps/api/src/routes/review-registry.ts): one     *)
(* person proposes a version of an item, another approves or rejects it,   *)
(* and approval writes the row that signing and readiness read.  The       *)
(* operator's seeding (bootstrap-registry.ts) writes the same rows with no *)
(* proposal.                                                               *)
(*                                                                         *)
(* A decision holds its proposal's row and looks for the version before it *)
(* writes it: the seeding may write it in between.  A proposal is one      *)
(* step; of two for one item the unique index refuses the second.          *)
(*                                                                         *)
(* Abstracted: what an item says beyond the fields that decide its fate    *)
(* (a rule set, a credential's scope: they are valid or never proposed),   *)
(* audit rows, roles, the item version (the position among the item's      *)
(* proposals).  Time is a counter that also orders transactions.           *)
(***************************************************************************)
EXTENDS Naturals, Sequences, FiniteSets

CONSTANTS
    Person,       \* proposers, deciders, holders of credentials, gate approvers
    Content,      \* what may be proposed; see ContentType
    Seeded,       \* what the operator may seed, a subset of Content
    Decider,      \* decisions that may run at the same time
    MaxProposals, \* bound: proposals in all
    MaxClock      \* bound: stamps taken in all

\* kind and key name the item; version the row (0 for a kind whose versions
\* are numbered at approval); holder is whom a credential is about; state,
\* basis are what a jurisdiction profile says; from and until are instants.
ContentType ==
    [kind: {"credential", "attestation_schema", "policy_set", "jurisdiction_profile", "claim_type"},
     key: STRING, version: Nat, holder: Person \cup {"nobody"},
     state: {"approved", "stale", "suspended"}, basis: BOOLEAN, from: Nat, until: Nat]

ASSUME ReviewAssumption ==
    /\ Content \subseteq ContentType
    /\ Seeded \subseteq Content
    /\ "nobody" \notin Person
    /\ MaxClock \in Nat \ {0}
    /\ \A c \in Seeded : c.kind \in {"credential", "attestation_schema", "policy_set"}

VARIABLES
    clock,     \* the stamp of the transaction that began last
    proposals, \* core.registry_proposals
    registry,  \* the rows of the five registries, in the order they were written
    decisions  \* decisions in flight

reviewVars == <<clock, proposals, registry, decisions>>

Idle == [step |-> "idle", proposal |-> 0, by |-> "nobody"]

ReviewInit ==
    /\ clock = 1
    /\ proposals = <<>>
    /\ registry = <<>>
    /\ decisions = [d \in Decider |-> Idle]

Tick == clock < MaxClock /\ clock' = clock + 1

SameItem(c, d) == c.kind = d.kind /\ c.key = d.key

\* One row per named version.  Profiles and claim types have no such name.
Registered(c) ==
    /\ c.kind \notin {"jurisdiction_profile", "claim_type"}
    /\ \E i \in DOMAIN registry : SameItem(registry[i].content, c) /\ registry[i].content.version = c.version

VersionsOf(c) == {i \in DOMAIN registry : SameItem(registry[i].content, c)}
NewestOf(c) == {registry[i].content : i \in {j \in VersionsOf(c) : \A k \in VersionsOf(c) : k <= j}}

\* jurisdictionProfileMachine, the drafting states left out.
ProfileMoves ==
    {<<"approved", "stale">>, <<"approved", "suspended">>, <<"stale", "approved">>,
     <<"stale", "suspended">>, <<"suspended", "approved">>}

\* validateJurisdictionProfile, and the trigger of migration 0047 behind it:
\* the first version is approved, versions take effect in order, and a version
\* changes the state by the machine or, keeping it, the basis.
ProfileFollows(c) ==
    IF VersionsOf(c) = {} THEN c.state = "approved"
    ELSE \E newest \in NewestOf(c) :
         /\ c.from >= newest.from
         /\ \/ c.state = newest.state /\ c.basis # newest.basis
            \/ <<newest.state, c.state>> \in ProfileMoves

\* validateCatalogKeyAndDate
CatalogFollows(c) == VersionsOf(c) = {} \/ \E newest \in NewestOf(c) : c.from >= newest.from

\* validateCredential: not one that has expired.
CredentialHolds(c) == c.until = 0 \/ c.until > clock

\* What a kind asks of a version, when it is proposed and again when approved.
MayStand(c) ==
    CASE c.kind = "jurisdiction_profile" -> ProfileFollows(c)
      [] c.kind = "claim_type" -> CatalogFollows(c)
      [] c.kind = "credential" -> CredentialHolds(c)
      [] OTHER -> TRUE

Pending(c) == \E i \in DOMAIN proposals : proposals[i].state = "pending" /\ SameItem(proposals[i].content, c)

\* POST .../proposals
Proposes(p, c) ==
    /\ Len(proposals) < MaxProposals
    /\ MayStand(c) /\ ~Registered(c) /\ ~Pending(c)
    /\ proposals' = Append(proposals, [content |-> c, by |-> p, state |-> "pending",
                                       decidedBy |-> "nobody", row |-> 0])
    /\ UNCHANGED <<clock, registry, decisions>>

Locked(i) == \E d \in Decider : decisions[d].step = "checked" /\ decisions[d].proposal = i

\* The two-person rule of the route, and the CHECK of migration 0043.
SecondPerson(p, i) == p # proposals[i].by

\* POST .../decision, rejecting.
Rejects(p, i) ==
    /\ proposals[i].state = "pending" /\ ~Locked(i)
    /\ SecondPerson(p, i)
    /\ proposals' = [proposals EXCEPT ![i].state = "rejected", ![i].decidedBy = p]
    /\ UNCHANGED <<clock, registry, decisions>>

\* POST .../decision, approving: the proposal is locked, the holder of a
\* credential kept out, and the version looked for.
Approves(d, p, i) ==
    /\ decisions[d] = Idle
    /\ proposals[i].state = "pending" /\ ~Locked(i)
    /\ SecondPerson(p, i)
    /\ p # proposals[i].content.holder
    /\ ~Registered(proposals[i].content)
    /\ decisions' = [decisions EXCEPT ![d] = [step |-> "checked", proposal |-> i, by |-> p]]
    /\ UNCHANGED <<clock, proposals, registry>>

\* The unique constraint on a version; credentials have none.
Insertable_Always(c) == TRUE
Insertable(c) == c.kind = "credential" \/ ~Registered(c)

\* The row an approval writes names its proposal and is in force.
Written(c, i) == [content |-> c, proposal |-> i, effective |-> TRUE]

\* materializeApproved and the update of the proposal, or the answer that the
\* version exists or no longer stands, which leaves the proposal pending.
Materializes(d) ==
    LET i == decisions[d].proposal
        c == proposals[i].content
        writes == MayStand(c) /\ Insertable(c)
    IN  /\ decisions[d].step = "checked"
        /\ decisions' = [decisions EXCEPT ![d] = Idle]
        /\ registry' = IF writes THEN Append(registry, Written(c, i))
                                 ELSE registry
        /\ proposals' = IF writes THEN [proposals EXCEPT ![i].state = "approved",
                                                         ![i].decidedBy = decisions[d].by,
                                                         ![i].row = Len(registry) + 1]
                                  ELSE proposals
        /\ UNCHANGED clock

\* The bootstrap CLI writes a version with no proposal, as a draft or approved
\* by the operator's word; a draft it wrote it can put in force later.
Seeds(c, effective) ==
    /\ c \in Seeded
    /\ IF c.kind = "credential" THEN ~Registered(c) /\ CredentialHolds(c) /\ effective ELSE Insertable(c)
    /\ registry' = Append(registry, [content |-> c, proposal |-> 0, effective |-> effective])
    /\ UNCHANGED <<clock, proposals, decisions>>
SeedApproved(i) ==
    /\ ~registry[i].effective
    /\ registry' = [registry EXCEPT ![i].effective = TRUE]
    /\ UNCHANGED <<clock, proposals, decisions>>

ReviewNext ==
    \/ \E p \in Person, c \in Content : Proposes(p, c)
    \/ \E p \in Person, i \in DOMAIN proposals : Rejects(p, i)
    \/ \E d \in Decider, p \in Person, i \in DOMAIN proposals : Approves(d, p, i)
    \/ \E d \in Decider : Materializes(d)
    \/ \E c \in Seeded, effective \in BOOLEAN : Seeds(c, effective)
    \/ \E i \in DOMAIN registry : SeedApproved(i)

-----------------------------------------------------------------------------
\* What readiness reads: a policy set that is in force, and the newest profile
\* version that has taken effect by an instant.
PolicyInForce(i) == registry[i].content.kind = "policy_set" /\ registry[i].effective
ProfilesBy(t) == SelectSeq(registry, LAMBDA row : row.content.kind = "jurisdiction_profile" /\ row.content.from <= t)
ProfileAt(t) == IF ProfilesBy(t) = <<>> THEN "none" ELSE ProfilesBy(t)[Len(ProfilesBy(t))].content.state

ReviewTypeOK ==
    /\ clock \in 1..MaxClock
    /\ \A i \in DOMAIN proposals :
          /\ proposals[i].content \in Content /\ proposals[i].by \in Person
          /\ proposals[i].state \in {"pending", "approved", "rejected"}
    /\ \A i \in DOMAIN registry : registry[i].content \in Content /\ registry[i].proposal \in 0..Len(proposals)

\* A row nobody seeded carries what one proposal said, and two people stand
\* behind it, neither of them the holder of the credential as its approver
\* (migration 0048 asks for the proposal at commit).
RowsAreReviewed ==
    \A i \in DOMAIN registry : registry[i].proposal # 0 =>
        LET p == proposals[registry[i].proposal]
        IN  /\ p.state = "approved" /\ p.row = i /\ p.content = registry[i].content
            /\ p.decidedBy \notin {p.by, p.content.holder}

\* A named version stands once, however approval and seeding meet.
OneRowEach ==
    \A i, j \in DOMAIN registry :
        LET a == registry[i].content b == registry[j].content
        IN  a.kind \in {"attestation_schema", "policy_set"} /\ SameItem(a, b) /\ a.version = b.version => i = j

\* Profile versions take effect in the order they were written, so the newest
\* that has taken effect, which readiness reads, is never one already replaced.
ProfilesInOrder ==
    \A i, j \in DOMAIN registry :
        LET a == registry[i].content b == registry[j].content
        IN  i < j /\ a.kind = "jurisdiction_profile" /\ SameItem(a, b) => a.from <= b.from

\* The registries hold only what was reviewed, once and in order.
RegistriesHold == RowsAreReviewed /\ OneRowEach /\ ProfilesInOrder
=============================================================================
