---------------------------- MODULE ProjectsProofs ----------------------------
(***************************************************************************)
(* Proofs about ProjectLifecycle and the two modules it extends, for any   *)
(* people, contents, policies, evidence, blackouts and commands: the       *)
(* registries hold what two people reviewed, decisions at the gate are     *)
(* those that were signed, and a project's history is one path.            *)
(***************************************************************************)
EXTENDS ProjectLifecycle, SequenceTheorems, TLAPS

ProjectsSpec == ProjectsInit /\ [][ProjectsNext]_projectVars

-----------------------------------------------------------------------------
(* The review registries.                                                   *)

ProposalRecord == [content: Content, by: Person, state: {"pending", "approved", "rejected"},
                   decidedBy: Person \cup {"nobody"}, row: Nat]
RegistryRecord == [content: Content, proposal: Nat, effective: BOOLEAN]
DecisionRecord == [step: {"idle", "checked"}, proposal: Nat, by: Person \cup {"nobody"}]

RegistriesTyped ==
    /\ clock \in 1..MaxClock
    /\ proposals \in Seq(ProposalRecord)
    /\ registry \in Seq(RegistryRecord)
    /\ decisions \in [Decider -> DecisionRecord]
    /\ \A i \in DOMAIN registry : registry[i].proposal \in 0..Len(proposals)

\* A decision in flight holds the row of a pending proposal, alone.
DecisionsFit ==
    /\ \A d \in Decider : decisions[d].step = "checked" =>
          LET p == proposals[decisions[d].proposal]
          IN  /\ decisions[d].proposal \in DOMAIN proposals
              /\ p.state = "pending"
              /\ decisions[d].by \notin {p.by, p.content.holder}
    /\ \A d, e \in Decider : decisions[d].step = "checked" /\ decisions[e].step = "checked"
                             /\ decisions[d].proposal = decisions[e].proposal => d = e

ReviewInv == RegistriesTyped /\ DecisionsFit /\ RegistriesHold

LEMMA AppendIs ==
    ASSUME NEW S, NEW s \in Seq(S), NEW e \in S
    PROVE  /\ Append(s, e) \in Seq(S)
           /\ Len(Append(s, e)) = Len(s) + 1
           /\ Append(s, e)[Len(s) + 1] = e
           /\ \A i \in 1..Len(s) : Append(s, e)[i] = s[i]
           /\ Len(s) \in Nat
           /\ DOMAIN s = 1..Len(s)
           /\ DOMAIN Append(s, e) = 1..(Len(s) + 1)
  BY AppendProperties, LenProperties

LEMMA SeqDomains ==
    ASSUME RegistriesTyped
    PROVE  /\ DOMAIN proposals = 1..Len(proposals) /\ Len(proposals) \in Nat
           /\ DOMAIN registry = 1..Len(registry) /\ Len(registry) \in Nat
           /\ \A i \in DOMAIN proposals : proposals[i] \in ProposalRecord
           /\ \A i \in DOMAIN registry : registry[i] \in RegistryRecord
  BY LenProperties, ElementOfSeq DEF RegistriesTyped

\* A new row says what its proposal says and repeats no named version.
RowFits(row, n) ==
    /\ row \in RegistryRecord
    /\ row.proposal # 0 =>
          LET p == proposals'[row.proposal]
          IN  /\ row.proposal \in DOMAIN proposals'
              /\ p.state = "approved" /\ p.row = n /\ p.content = row.content
              /\ p.decidedBy \notin {p.by, p.content.holder}
    /\ \A i \in DOMAIN registry :
          /\ row.content.kind \in {"attestation_schema", "policy_set"} /\ SameItem(registry[i].content, row.content)
                => registry[i].content.version # row.content.version
          /\ row.content.kind = "jurisdiction_profile" /\ SameItem(registry[i].content, row.content)
                => registry[i].content.from <= row.content.from

\* The proposals that rows stand on are decided, and stay as they are.
DecidedStay ==
    /\ Len(proposals) <= Len(proposals')
    /\ \A i \in DOMAIN proposals : proposals[i].state = "approved" => proposals'[i] = proposals[i]

LEMMA RowAppended ==
    ASSUME ReviewInv, NEW row, RowFits(row, Len(registry) + 1), registry' = Append(registry, row),
           DecidedStay, proposals' \in Seq(ProposalRecord)
    PROVE  /\ registry' \in Seq(RegistryRecord)
           /\ \A i \in DOMAIN registry' : registry'[i].proposal \in 0..Len(proposals')
           /\ RegistriesHold'
  <1>1. /\ registry' \in Seq(RegistryRecord) /\ registry'[Len(registry) + 1] = row
        /\ \A i \in 1..Len(registry) : registry'[i] = registry[i]
        /\ DOMAIN registry = 1..Len(registry)
        /\ DOMAIN registry' = 1..(Len(registry) + 1) /\ Len(registry) \in Nat
    BY AppendIs DEF ReviewInv, RegistriesTyped, RowFits
  <1>2. /\ DOMAIN proposals = 1..Len(proposals) /\ Len(proposals) \in Nat
        /\ DOMAIN proposals' = 1..Len(proposals') /\ Len(proposals') \in Nat
    BY SeqDomains, LenProperties DEF ReviewInv
  <1>3. \A i \in 1..Len(registry) : registry[i].proposal \in 0..Len(proposals)
    BY <1>1 DEF ReviewInv, RegistriesTyped
  <1>4. \A i \in DOMAIN registry' : registry'[i].proposal \in 0..Len(proposals')
    BY <1>1, <1>2, <1>3 DEF DecidedStay, RowFits, RegistryRecord
  <1>5. RowsAreReviewed'
    <2> SUFFICES ASSUME NEW i \in DOMAIN registry', registry'[i].proposal # 0
                 PROVE  LET p == proposals'[registry'[i].proposal]
                        IN  /\ p.state = "approved" /\ p.row = i /\ p.content = registry'[i].content
                            /\ p.decidedBy \notin {p.by, p.content.holder}
      BY DEF RowsAreReviewed
    <2>1. CASE i = Len(registry) + 1
      BY <2>1, <1>1 DEF RowFits
    <2>2. CASE i \in 1..Len(registry)
      <3>1. registry'[i] = registry[i] /\ registry[i].proposal \in 1..Len(proposals) /\ i \in DOMAIN registry
        BY <2>2, <1>1, <1>2, <1>3
      <3>2. LET p == proposals[registry[i].proposal]
            IN  /\ p.state = "approved" /\ p.row = i /\ p.content = registry[i].content
                /\ p.decidedBy \notin {p.by, p.content.holder}
        BY <3>1 DEF ReviewInv, RegistriesHold, RowsAreReviewed
      <3>3. proposals'[registry[i].proposal] = proposals[registry[i].proposal]
        BY <3>1, <3>2, <1>2 DEF DecidedStay
      <3> QED BY <3>1, <3>2, <3>3
    <2> QED BY <2>1, <2>2, <1>1
  <1>6. OneRowEach'
    BY <1>1 DEF ReviewInv, RegistriesHold, OneRowEach, RowFits, SameItem
  <1>7. ProfilesInOrder'
    BY <1>1 DEF ReviewInv, RegistriesHold, ProfilesInOrder, RowFits, SameItem
  <1> QED BY <1>1, <1>4, <1>5, <1>6, <1>7 DEF RegistriesHold

LEMMA RowsStay ==
    ASSUME ReviewInv, UNCHANGED registry, DecidedStay, proposals' \in Seq(ProposalRecord)
    PROVE  /\ \A i \in DOMAIN registry' : registry'[i].proposal \in 0..Len(proposals')
           /\ RegistriesHold'
  <1>1. /\ DOMAIN proposals = 1..Len(proposals) /\ Len(proposals) \in Nat
        /\ DOMAIN proposals' = 1..Len(proposals') /\ Len(proposals') \in Nat
    BY SeqDomains, LenProperties DEF ReviewInv
  <1>2. \A i \in DOMAIN registry : registry[i].proposal \in 0..Len(proposals)
    BY DEF ReviewInv, RegistriesTyped
  <1>3. RowsAreReviewed'
    BY <1>1, <1>2 DEF ReviewInv, RegistriesHold, RowsAreReviewed, DecidedStay
  <1>4. OneRowEach' /\ ProfilesInOrder'
    BY DEF ReviewInv, RegistriesHold, OneRowEach, ProfilesInOrder, SameItem
  <1> QED BY <1>1, <1>2, <1>3, <1>4 DEF RegistriesHold, DecidedStay

\* The newest version of an item takes effect no earlier than any older one.
LEMMA FollowsAll ==
    ASSUME ReviewInv, NEW c \in Content, c.kind = "jurisdiction_profile", ProfileFollows(c)
    PROVE  \A i \in DOMAIN registry : SameItem(registry[i].content, c) => registry[i].content.from <= c.from
  <1> SUFFICES ASSUME NEW i \in DOMAIN registry, SameItem(registry[i].content, c)
               PROVE  registry[i].content.from <= c.from
    OBVIOUS
  <1>1. i \in VersionsOf(c)
    BY DEF VersionsOf
  <1>2. PICK newest \in NewestOf(c) : c.from >= newest.from
    BY <1>1 DEF ProfileFollows
  <1>3. PICK j \in VersionsOf(c) : newest = registry[j].content /\ \A k \in VersionsOf(c) : k <= j
    BY <1>2 DEF NewestOf
  <1>4. /\ j \in DOMAIN registry /\ i <= j /\ SameItem(registry[j].content, c)
        /\ registry[i].content \in Content /\ registry[j].content \in Content
        /\ DOMAIN registry = 1..Len(registry)
    BY <1>1, <1>3, SeqDomains DEF VersionsOf, ReviewInv, RegistryRecord
  <1>5. registry[i].content.from \in Nat /\ registry[j].content.from \in Nat /\ c.from \in Nat
    BY <1>4, ReviewAssumption DEF ContentType
  <1>6. registry[i].content.from <= registry[j].content.from
    <2>1. CASE i = j  BY <2>1, <1>5
    <2>2. CASE i < j  BY <2>2, <1>4 DEF ReviewInv, RegistriesHold, ProfilesInOrder, SameItem
    <2> QED BY <2>1, <2>2, <1>4
  <1> QED BY <1>2, <1>3, <1>5, <1>6

\* What MayStand and Insertable ask makes the version fit the rows there are.
LEMMA StandingFits ==
    ASSUME ReviewInv, NEW c \in Content, c.kind = "jurisdiction_profile" => ProfileFollows(c),
           c.kind \in {"attestation_schema", "policy_set"} => ~Registered(c)
    PROVE  \A i \in DOMAIN registry :
              /\ c.kind \in {"attestation_schema", "policy_set"} /\ SameItem(registry[i].content, c)
                    => registry[i].content.version # c.version
              /\ c.kind = "jurisdiction_profile" /\ SameItem(registry[i].content, c)
                    => registry[i].content.from <= c.from
  BY FollowsAll DEF Registered

\* One proposal rewritten.
LEMMA ProposalSet ==
    ASSUME RegistriesTyped, NEW i \in DOMAIN proposals, NEW r \in ProposalRecord,
           proposals' = [proposals EXCEPT ![i] = r]
    PROVE  /\ proposals' \in Seq(ProposalRecord) /\ Len(proposals') = Len(proposals)
           /\ DOMAIN proposals' = DOMAIN proposals
           /\ proposals'[i] = r
           /\ \A j \in DOMAIN proposals : j # i => proposals'[j] = proposals[j]
  BY ExceptSeq DEF RegistriesTyped

LEMMA ReviewInitInv == ReviewInit => ReviewInv
  <1> SUFFICES ASSUME ReviewInit PROVE ReviewInv
    OBVIOUS
  <1>1. RegistriesTyped
    BY ReviewAssumption, EmptySeq DEF ReviewInit, RegistriesTyped, Idle, DecisionRecord
  <1>2. DecisionsFit
    BY DEF ReviewInit, DecisionsFit, Idle
  <1>3. DOMAIN registry = {}
    BY DEF ReviewInit
  <1>4. RegistriesHold
    BY <1>3 DEF RegistriesHold, RowsAreReviewed, OneRowEach, ProfilesInOrder
  <1> QED BY <1>1, <1>2, <1>4 DEF ReviewInv

LEMMA ProposesInv ==
    ASSUME ReviewInv, NEW p \in Person, NEW c \in Content, Proposes(p, c)
    PROVE  ReviewInv'
  <1> DEFINE r == [content |-> c, by |-> p, state |-> "pending", decidedBy |-> "nobody", row |-> 0]
  <1>1. r \in ProposalRecord
    BY DEF ProposalRecord
  <1> HIDE DEF r
  <1>2. /\ proposals' = Append(proposals, r)
        /\ UNCHANGED <<clock, registry, decisions>>
    BY DEF Proposes, r
  <1>3. proposals \in Seq(ProposalRecord)
    BY DEF ReviewInv, RegistriesTyped
  <1>4. /\ proposals' \in Seq(ProposalRecord) /\ Len(proposals') = Len(proposals) + 1
        /\ \A i \in 1..Len(proposals) : proposals'[i] = proposals[i]
        /\ Len(proposals) \in Nat /\ DOMAIN proposals = 1..Len(proposals)
        /\ DOMAIN proposals' = 1..(Len(proposals) + 1)
    BY <1>1, <1>2, <1>3, AppendIs
  <1>5. DecidedStay
    BY <1>4 DEF DecidedStay
  <1>6. /\ \A i \in DOMAIN registry' : registry'[i].proposal \in 0..Len(proposals')
        /\ RegistriesHold'
    BY <1>2, <1>4, <1>5, RowsStay
  <1>7. DecisionsFit'
    BY <1>2, <1>4 DEF ReviewInv, DecisionsFit
  <1>8. RegistriesTyped'
    BY <1>2, <1>4, <1>6 DEF ReviewInv, RegistriesTyped
  <1> QED BY <1>6, <1>7, <1>8 DEF ReviewInv

LEMMA RejectsInv ==
    ASSUME ReviewInv, NEW p \in Person, NEW i \in DOMAIN proposals, Rejects(p, i)
    PROVE  ReviewInv'
  <1> DEFINE r == [proposals[i] EXCEPT !.state = "rejected", !.decidedBy = p]
  <1>1. proposals[i] \in ProposalRecord
    BY SeqDomains DEF ReviewInv
  <1>2. r \in ProposalRecord
    BY <1>1 DEF ProposalRecord
  <1>3. proposals' = [proposals EXCEPT ![i] = r]
    BY <1>1 DEF Rejects, ProposalRecord
  <1> HIDE DEF r
  <1>4. /\ proposals' \in Seq(ProposalRecord) /\ Len(proposals') = Len(proposals)
        /\ DOMAIN proposals' = DOMAIN proposals
        /\ \A j \in DOMAIN proposals : j # i => proposals'[j] = proposals[j]
    BY <1>2, <1>3, ProposalSet DEF ReviewInv
  <1>5. UNCHANGED <<clock, registry, decisions>> /\ proposals[i].state = "pending" /\ ~Locked(i)
    BY DEF Rejects
  <1>6. DecidedStay
    BY <1>4, <1>5, SeqDomains DEF DecidedStay, ReviewInv
  <1>7. /\ \A k \in DOMAIN registry' : registry'[k].proposal \in 0..Len(proposals')
        /\ RegistriesHold'
    BY <1>5, <1>4, <1>6, RowsStay
  <1>8. DecisionsFit'
    BY <1>4, <1>5 DEF ReviewInv, DecisionsFit, Locked
  <1>9. RegistriesTyped'
    BY <1>4, <1>5, <1>7 DEF ReviewInv, RegistriesTyped
  <1> QED BY <1>7, <1>8, <1>9 DEF ReviewInv

LEMMA ApprovesInv ==
    ASSUME ReviewInv, NEW d \in Decider, NEW p \in Person, NEW i \in DOMAIN proposals, Approves(d, p, i)
    PROVE  ReviewInv'
  <1>1. UNCHANGED <<clock, proposals, registry>>
    BY DEF Approves
  <1>2. /\ decisions' \in [Decider -> DecisionRecord]
        /\ decisions'[d] = [step |-> "checked", proposal |-> i, by |-> p]
        /\ \A e \in Decider : e # d => decisions'[e] = decisions[e]
    <2>1. i \in Nat
      BY SeqDomains DEF ReviewInv
    <2>2. [step |-> "checked", proposal |-> i, by |-> p] \in DecisionRecord
      BY <2>1 DEF DecisionRecord
    <2> QED BY <2>2 DEF Approves, ReviewInv, RegistriesTyped
  <1>3. DecisionsFit'
    BY <1>1, <1>2 DEF ReviewInv, DecisionsFit, Approves, Locked, SecondPerson
  <1>4. RegistriesTyped' /\ RegistriesHold'
    BY <1>1, <1>2 DEF ReviewInv, RegistriesTyped, RegistriesHold, RowsAreReviewed, OneRowEach,
                      ProfilesInOrder, SameItem
  <1> QED BY <1>3, <1>4 DEF ReviewInv

LEMMA MaterializesInv ==
    ASSUME ReviewInv, NEW d \in Decider, Materializes(d)
    PROVE  ReviewInv'
  <1> PICK i : i = decisions[d].proposal
    OBVIOUS
  <1> PICK c : c = proposals[i].content
    OBVIOUS
  <1> DEFINE writes == MayStand(c) /\ Insertable(c)
             row == Written(c, i)
             r == [proposals[i] EXCEPT !.state = "approved", !.decidedBy = decisions[d].by,
                                       !.row = Len(registry) + 1]
  <1>1. /\ i \in DOMAIN proposals /\ proposals[i].state = "pending" /\ proposals[i] \in ProposalRecord
        /\ decisions[d] \in DecisionRecord
        /\ decisions[d].by \notin {proposals[i].by, c.holder}
        /\ c \in Content
        /\ DOMAIN proposals = 1..Len(proposals) /\ Len(proposals) \in Nat
        /\ Len(registry) \in Nat
    BY SeqDomains DEF Materializes, ReviewInv, DecisionsFit, RegistriesTyped, ProposalRecord
  <1>2. /\ UNCHANGED clock
        /\ decisions' = [decisions EXCEPT ![d] = Idle]
        /\ writes => registry' = Append(registry, row) /\ proposals' = [proposals EXCEPT ![i] = r]
        /\ ~writes => UNCHANGED <<registry, proposals>>
    BY <1>1 DEF Materializes, ProposalRecord
  <1>3. r \in ProposalRecord /\ r.state = "approved" /\ r.decidedBy = decisions[d].by
        /\ r.row = Len(registry) + 1 /\ r.content = c /\ r.by = proposals[i].by
    <2>1. PICK p \in ProposalRecord : p = proposals[i]
      BY <1>1
    <2>2. PICK who \in Person \cup {"nobody"} : who = decisions[d].by
      BY <1>1 DEF DecisionRecord
    <2>3. PICK n \in Nat : n = Len(registry) + 1
      BY <1>1
    <2>4. r = [p EXCEPT !.state = "approved", !.decidedBy = who, !.row = n]
      BY <2>1, <2>2, <2>3
    <2>5. c = p.content
      BY <2>1
    <2> HIDE DEF r
    <2>6. r \in ProposalRecord
      BY <2>4 DEF ProposalRecord
    <2>7. r.state = "approved" /\ r.decidedBy = who /\ r.row = n
      BY <2>4 DEF ProposalRecord
    <2>8. r.content = p.content /\ r.by = p.by
      BY <2>4 DEF ProposalRecord
    <2> QED BY <2>1, <2>2, <2>3, <2>5, <2>6, <2>7, <2>8
  <1>4. row \in RegistryRecord /\ row.proposal = i /\ row.content = c
    BY <1>1 DEF RegistryRecord, Written
  <1>5. writes => /\ c.kind = "jurisdiction_profile" => ProfileFollows(c)
                  /\ c.kind \in {"attestation_schema", "policy_set"} => ~Registered(c)
    BY DEF MayStand, Insertable
  <1>6. decisions' \in [Decider -> DecisionRecord] /\ decisions'[d] = Idle
        /\ \A e \in Decider : e # d => decisions'[e] = decisions[e]
    BY <1>2 DEF ReviewInv, RegistriesTyped, Idle, DecisionRecord
  <1> HIDE DEF writes, row, r
  <1>7. CASE writes
    <2>1. /\ proposals' \in Seq(ProposalRecord) /\ Len(proposals') = Len(proposals)
          /\ DOMAIN proposals' = DOMAIN proposals /\ proposals'[i] = r
          /\ \A j \in DOMAIN proposals : j # i => proposals'[j] = proposals[j]
      BY <1>1, <1>2, <1>3, <1>7, ProposalSet DEF ReviewInv
    <2>2. DecidedStay
      BY <1>1, <2>1 DEF DecidedStay
    <2>3. RowFits(row, Len(registry) + 1)
      <3>1. \A k \in DOMAIN registry :
              /\ c.kind \in {"attestation_schema", "policy_set"} /\ SameItem(registry[k].content, c)
                    => registry[k].content.version # c.version
              /\ c.kind = "jurisdiction_profile" /\ SameItem(registry[k].content, c)
                    => registry[k].content.from <= c.from
        BY <1>1, <1>5, <1>7, StandingFits
      <3> QED BY <3>1, <2>1, <1>1, <1>3, <1>4 DEF RowFits
    <2>4. /\ registry' \in Seq(RegistryRecord)
          /\ \A k \in DOMAIN registry' : registry'[k].proposal \in 0..Len(proposals')
          /\ RegistriesHold'
      BY <1>2, <1>7, <2>1, <2>2, <2>3, RowAppended
    <2>5. DecisionsFit'
      <3>1. \A e \in Decider : decisions'[e].step = "checked" =>
              /\ e # d /\ decisions'[e] = decisions[e]
              /\ decisions[e].proposal \in DOMAIN proposals /\ decisions[e].proposal # i
        BY <1>6 DEF ReviewInv, DecisionsFit, Idle, Materializes
      <3>2. \A e \in Decider : decisions'[e].step = "checked" =>
              proposals'[decisions'[e].proposal] = proposals[decisions[e].proposal]
        BY <3>1, <2>1
      <3> QED BY <3>1, <3>2, <2>1 DEF ReviewInv, DecisionsFit
    <2>6. RegistriesTyped'
      BY <1>2, <1>6, <2>1, <2>4 DEF ReviewInv, RegistriesTyped
    <2> QED BY <2>4, <2>5, <2>6 DEF ReviewInv
  <1>8. CASE ~writes
    <2>1. UNCHANGED <<registry, proposals, clock>>
      BY <1>2, <1>8
    <2>2. RegistriesTyped' /\ RegistriesHold'
      BY <2>1, <1>6 DEF ReviewInv, RegistriesTyped, RegistriesHold, RowsAreReviewed, OneRowEach,
                        ProfilesInOrder, SameItem
    <2>3. DecisionsFit'
      BY <1>6, <2>1 DEF ReviewInv, DecisionsFit, Idle
    <2> QED BY <2>2, <2>3 DEF ReviewInv
  <1> QED BY <1>7, <1>8

LEMMA SeedsInv ==
    ASSUME ReviewInv, NEW c \in Seeded, NEW effective \in BOOLEAN, Seeds(c, effective)
    PROVE  ReviewInv'
  <1> DEFINE row == [content |-> c, proposal |-> 0, effective |-> effective]
  <1>1. c \in Content /\ c.kind \in {"credential", "attestation_schema", "policy_set"}
    BY ReviewAssumption
  <1>2. row \in RegistryRecord /\ row.content = c /\ row.proposal = 0
    BY <1>1 DEF RegistryRecord
  <1>3. registry' = Append(registry, row) /\ UNCHANGED <<clock, proposals, decisions>>
    BY DEF Seeds
  <1> HIDE DEF row
  <1>4. c.kind \in {"attestation_schema", "policy_set"} => ~Registered(c)
    BY DEF Seeds, Insertable
  <1>5. RowFits(row, Len(registry) + 1)
    BY <1>1, <1>2, <1>4, StandingFits DEF RowFits
  <1>6. DecidedStay /\ proposals' \in Seq(ProposalRecord)
    BY <1>3, SeqDomains DEF DecidedStay, ReviewInv, RegistriesTyped
  <1>7. /\ registry' \in Seq(RegistryRecord)
        /\ \A k \in DOMAIN registry' : registry'[k].proposal \in 0..Len(proposals')
        /\ RegistriesHold'
    BY <1>3, <1>5, <1>6, RowAppended
  <1>8. RegistriesTyped' /\ DecisionsFit'
    BY <1>3, <1>7 DEF ReviewInv, RegistriesTyped, DecisionsFit
  <1> QED BY <1>7, <1>8 DEF ReviewInv

LEMMA SeedApprovedInv ==
    ASSUME ReviewInv, NEW i \in DOMAIN registry, SeedApproved(i)
    PROVE  ReviewInv'
  <1> DEFINE row == [registry[i] EXCEPT !.effective = TRUE]
  <1>1. registry[i] \in RegistryRecord /\ DOMAIN registry = 1..Len(registry)
    BY SeqDomains DEF ReviewInv
  <1>2. row \in RegistryRecord /\ row.content = registry[i].content /\ row.proposal = registry[i].proposal
    BY <1>1 DEF RegistryRecord
  <1>3. registry' = [registry EXCEPT ![i] = row] /\ UNCHANGED <<clock, proposals, decisions>>
    BY DEF SeedApproved
  <1> HIDE DEF row
  <1>4. /\ registry' \in Seq(RegistryRecord) /\ DOMAIN registry' = DOMAIN registry
        /\ \A k \in DOMAIN registry : /\ registry'[k].content = registry[k].content
                                      /\ registry'[k].proposal = registry[k].proposal
    BY <1>1, <1>2, <1>3, ExceptSeq DEF ReviewInv, RegistriesTyped
  <1>5. RegistriesTyped' /\ DecisionsFit'
    BY <1>3, <1>4 DEF ReviewInv, RegistriesTyped, DecisionsFit
  <1>6. RowsAreReviewed'
    BY <1>3, <1>4 DEF ReviewInv, RegistriesHold, RowsAreReviewed
  <1>7. OneRowEach' /\ ProfilesInOrder'
    BY <1>3, <1>4 DEF ReviewInv, RegistriesHold, OneRowEach, ProfilesInOrder, SameItem
  <1> QED BY <1>5, <1>6, <1>7 DEF ReviewInv, RegistriesHold

LEMMA ReviewKeeps ==
    ASSUME ReviewInv, ReviewNext
    PROVE  ReviewInv'
  BY ProposesInv, RejectsInv, ApprovesInv, MaterializesInv, SeedsInv, SeedApprovedInv DEF ReviewNext

LEMMA ReviewMoves ==
    ASSUME ReviewInv, ReviewNext
    PROVE  UNCHANGED clock /\ DOMAIN registry \subseteq DOMAIN registry'
  <1> USE DEF ReviewInv, RegistriesTyped
  <1>1. ASSUME NEW c \in Seeded, NEW effective \in BOOLEAN, Seeds(c, effective)
        PROVE  UNCHANGED clock /\ DOMAIN registry \subseteq DOMAIN registry'
    BY <1>1, AppendProperties, LenProperties, SeqDomains, ReviewAssumption DEF Seeds, RegistryRecord
  <1>2. ASSUME NEW d \in Decider, Materializes(d)
        PROVE  UNCHANGED clock /\ DOMAIN registry \subseteq DOMAIN registry'
    <2> PICK i : i = decisions[d].proposal
      OBVIOUS
    <2>1. i \in DOMAIN proposals /\ proposals[i].content \in Content
      BY <1>2, SeqDomains DEF Materializes, DecisionsFit, ProposalRecord
    <2>2. Written(proposals[i].content, i) \in RegistryRecord
      BY <2>1, SeqDomains DEF Written, RegistryRecord
    <2>3. registry' = Append(registry, Written(proposals[i].content, i)) \/ registry' = registry
      BY <1>2 DEF Materializes
    <2> QED BY <1>2, <2>2, <2>3, AppendProperties, LenProperties DEF Materializes
  <1> QED BY <1>1, <1>2 DEF ReviewNext, Proposes, Rejects, Approves, SeedApproved

-----------------------------------------------------------------------------
(* The gate.                                                                *)

Statuses == {"not_applicable", "not_evaluable", "gap", "watch", "ok"}
Results == UNION {[R -> Statuses] : R \in SUBSET Requirement}
AssessmentRecord == [policy: Nat, at: Nat, results: Results]
RequestRecord == [by: Person, payload: Payload, at: Nat, used: BOOLEAN]
GateDecisionRecord == [payload: Payload, by: Person, at: Nat, request: Nat]
Assessing == [step: {"assessing"}, policy: Nat, at: Nat, results: Results,
              by: {"nobody"}, request: {0}, payload: {<<>>}]
Deciding == [step: {"deciding"}, policy: {0}, at: Nat, results: {<<>>},
             by: Person, request: Nat, payload: Payload]

GateTyped ==
    /\ evidence \in Evidence
    /\ reviewedAt \in 0..MaxClock
    /\ signers \subseteq Person
    /\ assessments \in Seq(AssessmentRecord)
    /\ requests \in Seq(RequestRecord)
    /\ gateDecisions \in Seq(GateDecisionRecord)
    /\ sessions \in [Session -> {NoSession} \cup Assessing \cup Deciding]

\* A session assesses under a row that exists, or decides on an assessment and
\* a request that exist, as the rule for decisions allows.
SessionsFit ==
    \A s \in Session :
        /\ sessions[s].step = "assessing" => sessions[s].policy \in DOMAIN registry
        /\ sessions[s].step = "deciding" =>
              /\ sessions[s].payload.on \in DOMAIN assessments
              /\ sessions[s].request \in DOMAIN requests
              /\ MayDecide(sessions[s].payload)

RecordsFit ==
    /\ \A i \in DOMAIN assessments : assessments[i].policy \in DOMAIN registry
    /\ \A i \in DOMAIN gateDecisions : /\ gateDecisions[i].request \in DOMAIN requests
                                       /\ gateDecisions[i].payload.on \in DOMAIN assessments

GateInv == GateTyped /\ SessionsFit /\ RecordsFit /\ DecisionsAsSigned

LEMMA GateDomains ==
    ASSUME GateTyped
    PROVE  /\ DOMAIN assessments = 1..Len(assessments) /\ Len(assessments) \in Nat
           /\ DOMAIN requests = 1..Len(requests) /\ Len(requests) \in Nat
           /\ DOMAIN gateDecisions = 1..Len(gateDecisions) /\ Len(gateDecisions) \in Nat
           /\ \A i \in DOMAIN assessments : assessments[i] \in AssessmentRecord
           /\ \A i \in DOMAIN requests : requests[i] \in RequestRecord
           /\ \A i \in DOMAIN gateDecisions : gateDecisions[i] \in GateDecisionRecord
  BY LenProperties, ElementOfSeq DEF GateTyped

LEMMA GateStays ==
    ASSUME GateInv, UNCHANGED gateVars, DOMAIN registry \subseteq DOMAIN registry'
    PROVE  GateInv'
  <1>1. GateTyped'
    BY DEF GateInv, GateTyped, gateVars
  <1>2. SessionsFit' /\ RecordsFit'
    BY DEF GateInv, SessionsFit, RecordsFit, gateVars, MayDecide, StatusesOf
  <1>3. DecisionsAsSigned'
    BY DEF GateInv, DecisionsAsSigned, gateVars, StatusesOf
  <1> QED BY <1>1, <1>2, <1>3 DEF GateInv

LEMMA GateInitInv == ReviewInit /\ GateInit => GateInv
  <1> SUFFICES ASSUME ReviewInit, GateInit PROVE GateInv
    OBVIOUS
  <1>1. GateTyped
    <2>1. 0 \in 0..MaxClock
      BY ReviewAssumption
    <2> QED BY <2>1, EmptySeq DEF GateInit, GateTyped
  <1>2. DOMAIN assessments = {} /\ DOMAIN gateDecisions = {}
    BY DEF GateInit
  <1>3. SessionsFit /\ RecordsFit
    BY <1>2 DEF GateInit, SessionsFit, RecordsFit, NoSession
  <1>4. DecisionsAsSigned
    BY <1>2 DEF DecisionsAsSigned
  <1> QED BY <1>1, <1>3, <1>4 DEF GateInv

LEMMA AssessBeginsInv ==
    ASSUME ReviewInv, GateInv, NEW s \in Session, NEW i \in DOMAIN registry, AssessBegins(s, i),
           UNCHANGED registry
    PROVE  GateInv'
  <1> PICK needed : needed = Requires[registry[i].content.version]
    OBVIOUS
  <1> PICK results : results = [r \in needed |-> Status(evidence[r], ProfileAt(clock + 1))]
    OBVIOUS
  <1> DEFINE row == [NoSession EXCEPT !.step = "assessing", !.policy = i, !.at = clock + 1, !.results = results]
  <1>1. registry[i].content \in Content /\ registry[i].content.kind = "policy_set" /\ i \in Nat /\ clock \in Nat
    BY SeqDomains DEF ReviewInv, AssessBegins, PolicyInForce, RegistryRecord, RegistriesTyped
  <1>2. needed \in SUBSET Requirement
    BY <1>1, ReadinessAssumption
  <1>3. results \in Results
    <2>1. \A f, profile : Status(f, profile) \in Statuses
      BY DEF Status, Statuses
    <2>2. results \in [needed -> Statuses]
      BY <2>1
    <2> QED BY <1>2, <2>2 DEF Results
  <1>4. row \in Assessing /\ row.step = "assessing" /\ row.policy = i
    <2>1. PICK at \in Nat : at = clock + 1
      BY <1>1
    <2>2. row = [NoSession EXCEPT !.step = "assessing", !.policy = i, !.at = at, !.results = results]
      BY <2>1
    <2> HIDE DEF row
    <2>3. row.step = "assessing" /\ row.policy = i /\ row.at = at /\ row.results = results
      BY <2>2 DEF NoSession
    <2>4. row.by = "nobody" /\ row.request = 0 /\ row.payload = <<>>
      BY <2>2 DEF NoSession
    <2>5. DOMAIN row = {"step", "policy", "at", "results", "by", "request", "payload"}
      BY <2>2 DEF NoSession
    <2>6. row = [f \in DOMAIN row |-> row[f]]
      BY <2>2 DEF NoSession
    <2> QED BY <1>1, <1>3, <2>1, <2>3, <2>4, <2>5, <2>6 DEF Assessing
  <1>5. /\ sessions' = [sessions EXCEPT ![s] = row]
        /\ UNCHANGED <<evidence, reviewedAt, signers, assessments, requests, gateDecisions>>
    BY DEF AssessBegins
  <1> HIDE DEF row
  <1>6. /\ sessions' \in [Session -> {NoSession} \cup Assessing \cup Deciding]
        /\ sessions'[s] = row /\ \A t \in Session : t # s => sessions'[t] = sessions[t]
    BY <1>4, <1>5 DEF GateInv, GateTyped
  <1>7. GateTyped'
    BY <1>5, <1>6 DEF GateInv, GateTyped
  <1>8. SessionsFit' /\ RecordsFit'
    BY <1>4, <1>5, <1>6 DEF GateInv, SessionsFit, RecordsFit, MayDecide, StatusesOf
  <1>9. DecisionsAsSigned'
    BY <1>5 DEF GateInv, DecisionsAsSigned, StatusesOf
  <1> QED BY <1>7, <1>8, <1>9 DEF GateInv

LEMMA AssessCommitsInv ==
    ASSUME ReviewInv, GateInv, NEW s \in Session, AssessCommits(s), UNCHANGED registry
    PROVE  GateInv'
  <1> DEFINE row == [policy |-> sessions[s].policy, at |-> sessions[s].at, results |-> sessions[s].results]
  <1>1. /\ row \in AssessmentRecord /\ row.policy \in DOMAIN registry
    BY DEF AssessCommits, GateInv, GateTyped, SessionsFit, Assessing, Deciding, NoSession, AssessmentRecord
  <1>2. /\ assessments' = Append(assessments, row)
        /\ sessions' = [sessions EXCEPT ![s] = NoSession]
        /\ UNCHANGED <<evidence, reviewedAt, signers, requests, gateDecisions>>
    BY DEF AssessCommits
  <1> HIDE DEF row
  <1>3. /\ assessments' \in Seq(AssessmentRecord)
        /\ DOMAIN assessments = 1..Len(assessments) /\ Len(assessments) \in Nat
        /\ DOMAIN assessments' = 1..(Len(assessments) + 1)
        /\ assessments'[Len(assessments) + 1] = row
        /\ \A i \in 1..Len(assessments) : assessments'[i] = assessments[i]
    BY <1>1, <1>2, AppendIs DEF GateInv, GateTyped
  <1>4. \A i \in DOMAIN assessments : i \in DOMAIN assessments' /\ assessments'[i] = assessments[i]
    BY <1>3
  <1>5. /\ sessions' \in [Session -> {NoSession} \cup Assessing \cup Deciding]
        /\ sessions'[s] = NoSession /\ \A t \in Session : t # s => sessions'[t] = sessions[t]
    BY <1>2 DEF GateInv, GateTyped
  <1>6. GateTyped'
    BY <1>2, <1>3, <1>5 DEF GateInv, GateTyped
  <1>7. \A t \in Session : sessions'[t].step # "idle" => t # s /\ sessions'[t] = sessions[t]
    BY <1>5 DEF NoSession
  <1>8. SessionsFit'
    BY <1>2, <1>4, <1>7 DEF GateInv, SessionsFit, MayDecide, StatusesOf
  <1>9. RecordsFit'
    BY <1>1, <1>2, <1>3, <1>4 DEF GateInv, RecordsFit
  <1>10. DecisionsAsSigned'
    BY <1>2, <1>4 DEF GateInv, DecisionsAsSigned, RecordsFit, StatusesOf
  <1> QED BY <1>6, <1>8, <1>9, <1>10 DEF GateInv

LEMMA AsksToSignInv ==
    ASSUME ReviewInv, GateInv, NEW p \in Person, NEW pl \in Payload, AsksToSign(p, pl), UNCHANGED registry
    PROVE  GateInv'
  <1> DEFINE row == [by |-> p, payload |-> pl, at |-> clock, used |-> FALSE]
  <1>1. row \in RequestRecord
    BY DEF RequestRecord, ReviewInv, RegistriesTyped
  <1>2. /\ requests' = Append(requests, row)
        /\ UNCHANGED <<evidence, reviewedAt, signers, assessments, sessions, gateDecisions>>
    BY DEF AsksToSign
  <1> HIDE DEF row
  <1>3. /\ requests' \in Seq(RequestRecord)
        /\ DOMAIN requests = 1..Len(requests) /\ Len(requests) \in Nat
        /\ DOMAIN requests' = 1..(Len(requests) + 1)
        /\ \A i \in 1..Len(requests) : requests'[i] = requests[i]
    BY <1>1, <1>2, AppendIs DEF GateInv, GateTyped
  <1>4. \A i \in DOMAIN requests : i \in DOMAIN requests' /\ requests'[i] = requests[i]
    BY <1>3
  <1>5. GateTyped'
    BY <1>2, <1>3 DEF GateInv, GateTyped
  <1>6. SessionsFit' /\ RecordsFit'
    BY <1>2, <1>4 DEF GateInv, SessionsFit, RecordsFit, MayDecide, StatusesOf
  <1>7. DecisionsAsSigned'
    BY <1>2, <1>4 DEF GateInv, DecisionsAsSigned, RecordsFit, StatusesOf
  <1> QED BY <1>5, <1>6, <1>7 DEF GateInv

LEMMA DecisionBeginsInv ==
    ASSUME ReviewInv, GateInv, NEW s \in Session, NEW p \in Person, NEW r \in DOMAIN requests,
           NEW pl \in Payload, DecisionBegins(s, p, r, pl), UNCHANGED registry
    PROVE  GateInv'
  <1> PICK at : at = clock + 1
    OBVIOUS
  <1> DEFINE row == [NoSession EXCEPT !.step = "deciding", !.at = at, !.by = p, !.request = r, !.payload = pl]
  <1>1. at \in Nat /\ r \in Nat
    BY GateDomains DEF ReviewInv, RegistriesTyped, GateInv
  <1>2. row.step = "deciding" /\ row.at = at /\ row.by = p
    BY DEF NoSession
  <1>3. row.request = r /\ row.payload = pl /\ row.policy = 0 /\ row.results = <<>>
    BY DEF NoSession
  <1>4. DOMAIN row = {"step", "policy", "at", "results", "by", "request", "payload"}
    BY DEF NoSession
  <1>5. row = [f \in DOMAIN row |-> row[f]]
    BY DEF NoSession
  <1>6. /\ sessions' = [sessions EXCEPT ![s] = row]
        /\ UNCHANGED <<evidence, reviewedAt, signers, assessments, requests, gateDecisions>>
    BY DEF DecisionBegins
  <1> HIDE DEF row
  <1>7. row \in Deciding
    BY <1>1, <1>2, <1>3, <1>4, <1>5 DEF Deciding
  <1>8. /\ sessions' \in [Session -> {NoSession} \cup Assessing \cup Deciding]
        /\ sessions'[s] = row /\ \A t \in Session : t # s => sessions'[t] = sessions[t]
    BY <1>6, <1>7 DEF GateInv, GateTyped
  <1>9. GateTyped'
    BY <1>6, <1>8 DEF GateInv, GateTyped
  <1>10. pl.on \in DOMAIN assessments /\ MayDecide(pl)
    BY DEF DecisionBegins
  <1>11. SessionsFit' /\ RecordsFit'
    BY <1>2, <1>3, <1>6, <1>8, <1>10 DEF GateInv, SessionsFit, RecordsFit, MayDecide, StatusesOf
  <1>12. DecisionsAsSigned'
    BY <1>6 DEF GateInv, DecisionsAsSigned, StatusesOf
  <1> QED BY <1>9, <1>11, <1>12 DEF GateInv

LEMMA DecisionCommitsInv ==
    ASSUME ReviewInv, GateInv, NEW s \in Session, DecisionCommits(s), UNCHANGED registry
    PROVE  GateInv'
  <1> PICK x : x = sessions[s]
    OBVIOUS
  <1> DEFINE stands == Usable(x) /\ requests[x.request].payload = x.payload /\ x.by \in signers
  <1>1. /\ x \in Deciding /\ x.step = "deciding"
        /\ x.payload.on \in DOMAIN assessments /\ x.request \in DOMAIN requests /\ MayDecide(x.payload)
    BY DEF DecisionCommits, GateInv, GateTyped, SessionsFit, NoSession, Assessing
  <1> PICK q : q = requests[x.request]
    OBVIOUS
  <1>2. q \in RequestRecord
    BY <1>1, GateDomains DEF GateInv
  <1> DEFINE used == [q EXCEPT !.used = TRUE]
             g == [payload |-> x.payload, by |-> x.by, at |-> x.at, request |-> x.request]
  <1>3. /\ used \in RequestRecord /\ used.used /\ used.by = q.by /\ used.payload = q.payload /\ used.at = q.at
    BY <1>2 DEF RequestRecord
  <1>4. g \in GateDecisionRecord
    BY <1>1 DEF GateDecisionRecord, Deciding
  <1>5. /\ sessions' = [sessions EXCEPT ![s] = NoSession]
        /\ UNCHANGED <<evidence, reviewedAt, signers, assessments>>
        /\ stands => /\ requests' = [requests EXCEPT ![x.request] = used]
                     /\ gateDecisions' = Append(gateDecisions, g)
        /\ ~stands => UNCHANGED <<requests, gateDecisions>>
    BY <1>1 DEF DecisionCommits
  <1>6. stands => ~q.used /\ q.by = x.by /\ x.at < q.at + Ttl /\ q.payload = x.payload
    BY <1>1, <1>2, ReadinessAssumption DEF Usable, Deciding, RequestRecord
  <1> HIDE DEF stands, used, g
  <1>7. /\ sessions' \in [Session -> {NoSession} \cup Assessing \cup Deciding]
        /\ \A t \in Session : sessions'[t].step # "idle" => t # s /\ sessions'[t] = sessions[t]
    BY <1>5 DEF GateInv, GateTyped, NoSession
  <1>8. CASE stands
    <2>1. /\ requests' \in Seq(RequestRecord) /\ DOMAIN requests' = DOMAIN requests
          /\ requests'[x.request] = used
          /\ \A r \in DOMAIN requests : r # x.request => requests'[r] = requests[r]
      <3>1. requests \in Seq(RequestRecord) /\ DOMAIN requests = 1..Len(requests)
        BY GateDomains DEF GateInv, GateTyped
      <3>2. requests' = [requests EXCEPT ![x.request] = used] /\ x.request \in 1..Len(requests)
        BY <1>1, <1>5, <1>8, <3>1
      <3>3. PICK n : n = x.request
        OBVIOUS
      <3>4. /\ requests' \in Seq(RequestRecord) /\ Len(requests') = Len(requests)
            /\ \A r \in 1..Len(requests) : requests'[r] = IF r = n THEN used ELSE requests[r]
        BY <1>3, <3>1, <3>2, <3>3, ExceptSeq
      <3> QED BY <3>1, <3>2, <3>3, <3>4, LenProperties
    <2>2. /\ gateDecisions' \in Seq(GateDecisionRecord)
          /\ Len(gateDecisions) \in Nat /\ DOMAIN gateDecisions = 1..Len(gateDecisions)
          /\ DOMAIN gateDecisions' = 1..(Len(gateDecisions) + 1)
          /\ gateDecisions'[Len(gateDecisions) + 1] = g
          /\ \A i \in 1..Len(gateDecisions) : gateDecisions'[i] = gateDecisions[i]
      <3>1. gateDecisions \in Seq(GateDecisionRecord)
        BY DEF GateInv, GateTyped
      <3>2. gateDecisions' = Append(gateDecisions, g)
        BY <1>5, <1>8
      <3> QED BY <1>4, <3>1, <3>2, AppendIs
    <2>3. GateTyped'
      BY <1>5, <1>7, <2>1, <2>2 DEF GateInv, GateTyped
    <2>4. SessionsFit'
      BY <1>5, <1>7, <2>1 DEF GateInv, SessionsFit, MayDecide, StatusesOf
    <2>5. RecordsFit'
      BY <1>1, <1>5, <2>1, <2>2 DEF GateInv, RecordsFit, g
    <2>6. \A i \in DOMAIN gateDecisions :
            /\ requests[gateDecisions[i].request].used
            /\ gateDecisions[i].request \in DOMAIN requests /\ gateDecisions[i].request # x.request
            /\ requests'[gateDecisions[i].request] = requests[gateDecisions[i].request]
      BY <1>6, <1>8, <2>1 DEF GateInv, DecisionsAsSigned, RecordsFit
    <2>7. DecisionsAsSigned'
      <3> SUFFICES ASSUME NEW i \in DOMAIN gateDecisions'
                   PROVE  LET h == gateDecisions'[i] w == requests'[h.request]
                          IN  /\ w.used /\ w.by = h.by /\ w.payload = h.payload /\ h.at < w.at + Ttl
                              /\ \A j \in DOMAIN gateDecisions' : gateDecisions'[j].request = h.request => i = j
                              /\ h.payload.decision = "go"
                                   => StatusesOf(assessments[h.payload.on].results) \cap Blocking = {}
        BY <1>5 DEF DecisionsAsSigned, StatusesOf
      <3>1. CASE i = Len(gateDecisions) + 1
        BY <3>1, <1>1, <1>3, <1>6, <1>8, <2>1, <2>2, <2>6, SMTT(30) DEF MayDecide, g
      <3>2. CASE i \in 1..Len(gateDecisions)
        <4>1. gateDecisions'[i] = gateDecisions[i] /\ i \in DOMAIN gateDecisions
          BY <3>2, <2>2
        <4>2. \A j \in DOMAIN gateDecisions' : gateDecisions'[j].request = gateDecisions[i].request => i = j
          BY <4>1, <2>2, <2>6 DEF GateInv, DecisionsAsSigned, g
        <4> QED BY <4>1, <4>2, <2>6 DEF GateInv, DecisionsAsSigned
      <3> QED BY <3>1, <3>2, <2>2
    <2> QED BY <2>3, <2>4, <2>5, <2>7 DEF GateInv
  <1>9. CASE ~stands
    <2>1. UNCHANGED <<requests, gateDecisions>>
      BY <1>5, <1>9
    <2>2. GateTyped'
      BY <1>5, <1>7, <2>1 DEF GateInv, GateTyped
    <2>3. SessionsFit' /\ RecordsFit'
      BY <1>5, <1>7, <2>1 DEF GateInv, SessionsFit, RecordsFit, MayDecide, StatusesOf
    <2>4. DecisionsAsSigned'
      BY <1>5, <2>1 DEF GateInv, DecisionsAsSigned, StatusesOf
    <2> QED BY <2>2, <2>3, <2>4 DEF GateInv
  <1> QED BY <1>8, <1>9

\* What a step changes of the clock alone keeps the registries.
LEMMA ReviewStays ==
    ASSUME ReviewInv, UNCHANGED <<proposals, registry, decisions>>, clock' \in 1..MaxClock
    PROVE  ReviewInv'
  BY DEF ReviewInv, RegistriesTyped, DecisionsFit, RegistriesHold, RowsAreReviewed, OneRowEach,
         ProfilesInOrder, SameItem

LEMMA Ticks ==
    ASSUME ReviewInv, Tick
    PROVE  clock' \in 1..MaxClock /\ clock' = clock + 1 /\ clock \in Nat
  BY ReviewAssumption DEF ReviewInv, RegistriesTyped, Tick

LEMMA GateStepKeeps ==
    ASSUME ReviewInv, GateInv, GateStep, UNCHANGED <<proposals, registry, decisions>>
    PROVE  ReviewInv' /\ GateInv'
  <1>1. clock' \in 1..MaxClock
    BY Ticks DEF GateStep, AssessBegins, AssessCommits, AsksToSign, DecisionBegins, DecisionCommits,
                 EvidenceChanges, SignerChanges, ReviewInv, RegistriesTyped
  <1>2. ReviewInv'
    BY <1>1, ReviewStays
  <1>3. ASSUME NEW e \in Evidence, EvidenceChanges(e)
        PROVE  GateInv'
    <2>1. reviewedAt' \in 0..MaxClock
      BY <1>3, Ticks DEF EvidenceChanges
    <2>2. GateTyped'
      BY <1>3, <2>1 DEF EvidenceChanges, GateInv, GateTyped
    <2>3. SessionsFit' /\ RecordsFit' /\ DecisionsAsSigned'
      BY <1>3 DEF EvidenceChanges, GateInv, SessionsFit, RecordsFit, DecisionsAsSigned, MayDecide, StatusesOf
    <2> QED BY <2>2, <2>3 DEF GateInv
  <1>4. ASSUME NEW p \in Person, SignerChanges(p)
        PROVE  GateInv'
    <2>1. GateTyped'
      BY <1>4 DEF SignerChanges, GateInv, GateTyped
    <2>2. SessionsFit' /\ RecordsFit' /\ DecisionsAsSigned'
      BY <1>4 DEF SignerChanges, GateInv, SessionsFit, RecordsFit, DecisionsAsSigned, MayDecide, StatusesOf
    <2> QED BY <2>1, <2>2 DEF GateInv
  <1> QED BY <1>2, <1>3, <1>4, AssessBeginsInv, AssessCommitsInv, AsksToSignInv, DecisionBeginsInv,
             DecisionCommitsInv DEF GateStep

LEMMA GateNextKeeps ==
    ASSUME ReviewInv, GateInv, GateNext
    PROVE  ReviewInv' /\ GateInv'
  BY GateStepKeeps, ReviewKeeps, ReviewMoves, GateStays DEF GateNext

-----------------------------------------------------------------------------
(* The lifecycle.                                                           *)

CommandRecord == [step: {"idle", "asked", "locked", "judged"}, kind: {"move", "publish"},
                  by: Person \cup {"nobody"}, to: State, expected: Nat, at: Nat]
TransitionRecord == [from: State, to: State, by: Person, at: Nat]

LifecycleTyped ==
    /\ project \in [state: State, prior: State, suspendedBy: Person \cup {"nobody"}, version: 1..MaxVersion]
    /\ transitions \in Seq(TransitionRecord)
    /\ facts \in [Precondition -> {"pending", "confirmed"}]
    /\ commands \in [Command -> CommandRecord]
    /\ restrictions \in [Restriction -> {"none", "draft", "active", "released", "superseded"}]

Held(c) == commands[c].step \in {"locked", "judged"}

\* What the guard found that cannot change while the project's row is held.
Judged(x) ==
    /\ x.kind = "move" =>
          \/ x.to = "suspended"
          \/ /\ <<project.state, x.to>> # <<"draft", "registered">>
             /\ project.state = "suspended" =>
                   x.by # project.suspendedBy /\ x.to \in {project.prior, "closure"}
    /\ ~Restricted(x)

\* A command's stamp is later than every transition the version it names has
\* seen; a command that holds the row does so on the version it read, and what
\* it was judged by still stands.
CommandFits(x) ==
    /\ x.by \in Person /\ x.at <= clock /\ x.expected <= project.version
    /\ x.kind = "publish" => x.to = "registered"
    /\ x.kind = "move" /\ x.expected = project.version =>
          \A i \in DOMAIN transitions : transitions[i].at < x.at
    /\ x.step \in {"locked", "judged"} /\ x.kind = "move" =>
          x.expected = project.version /\ <<project.state, x.to>> \in Moves
    /\ x.step = "judged" => Judged(x)

CommandsFit ==
    /\ \A c \in Command : commands[c].step # "idle" => CommandFits(commands[c])
    /\ \A c, d \in Command : Held(c) /\ Held(d) => c = d

\* The path, and what the project's row says of its end.
PathStands ==
    /\ project.state = IF transitions = <<>> THEN "draft" ELSE transitions[Len(transitions)].to
    /\ \A i \in DOMAIN transitions :
          /\ transitions[i].to # "draft" /\ transitions[i].at <= clock
          /\ transitions[i].from = IF i = 1 THEN "draft" ELSE transitions[i - 1].to
          /\ i > 1 => transitions[i].at > transitions[i - 1].at
          /\ transitions[i].from = "suspended" =>
                /\ transitions[i].to \in {transitions[i - 1].from, "closure"}
                /\ transitions[i].by # transitions[i - 1].by
    /\ project.state = "suspended" =>
          /\ transitions[Len(transitions)].from = project.prior
          /\ transitions[Len(transitions)].by = project.suspendedBy

LifecycleInv == LifecycleTyped /\ CommandsFit /\ PathStands

ProjectsInv == ReviewInv /\ GateInv /\ LifecycleInv

LEMMA MovesShape ==
    ASSUME NEW a, NEW b, <<a, b>> \in Moves
    PROVE  b # "draft" /\ b \in State /\ a \in State /\ (a = "draft" => b = "registered")
  BY DEF Moves, Suspendable, OfferingFamily, State

LEMMA LifecycleInitInv == ReviewInit /\ LifecycleInit => LifecycleInv
  <1> SUFFICES ASSUME ReviewInit, LifecycleInit PROVE LifecycleInv
    OBVIOUS
  <1>1. LifecycleTyped
    BY LifecycleAssumption, EmptySeq DEF LifecycleInit, LifecycleTyped, State, NoCommand, CommandRecord
  <1>2. CommandsFit
    BY DEF LifecycleInit, CommandsFit, NoCommand, Held
  <1>3. PathStands
    BY DEF LifecycleInit, PathStands
  <1> QED BY <1>1, <1>2, <1>3 DEF LifecycleInv

LEMMA TransitionDomain ==
    ASSUME LifecycleTyped
    PROVE  /\ DOMAIN transitions = 1..Len(transitions) /\ Len(transitions) \in Nat
           /\ \A i \in DOMAIN transitions : transitions[i] \in TransitionRecord
           /\ transitions = <<>> <=> Len(transitions) = 0
  BY LenProperties, ElementOfSeq, EmptySeq DEF LifecycleTyped

\* The path depends on the clock only as a bound that grows.
LEMMA PathStays ==
    ASSUME ReviewInv, LifecycleInv, UNCHANGED transitions, UNCHANGED <<project.state, project.prior, project.suspendedBy>>,
           clock' \in Nat, clock <= clock'
    PROVE  PathStands'
  <1>1. \A i \in DOMAIN transitions : transitions[i].at \in Nat /\ clock \in Nat
    BY TransitionDomain DEF LifecycleInv, TransitionRecord, ReviewInv, RegistriesTyped
  <1>2. \A i \in DOMAIN transitions : transitions[i].at <= clock'
    BY <1>1 DEF LifecycleInv, PathStands
  <1> QED BY <1>2 DEF LifecycleInv, PathStands

\* A command that fits goes on fitting while the row stands and no restriction
\* becomes active.
LEMMA FitStays ==
    ASSUME ReviewInv, LifecycleInv, NEW x \in CommandRecord, CommandFits(x),
           UNCHANGED <<project, transitions>>, clock' \in Nat, clock <= clock',
           \/ x.step # "judged"
           \/ \A r \in Restriction : restrictions'[r] = "active" => restrictions[r] = "active"
    PROVE  CommandFits(x)'
  <1>1. x.at <= clock'
    BY DEF CommandFits, CommandRecord, ReviewInv, RegistriesTyped
  <1>2. x.step = "judged" => Judged(x)'
    BY DEF CommandFits, Judged, Restricted
  <1> QED BY <1>1, <1>2 DEF CommandFits

LEMMA CommandSet ==
    ASSUME LifecycleTyped, NEW c \in Command, NEW x \in CommandRecord, commands' = [commands EXCEPT ![c] = x]
    PROVE  /\ commands' \in [Command -> CommandRecord]
           /\ commands'[c] = x
           /\ \A d \in Command : d # c => commands'[d] = commands[d]
           /\ \A d \in Command : commands[d] \in CommandRecord
  BY DEF LifecycleTyped

LEMMA LifecycleStays ==
    ASSUME ReviewInv, LifecycleInv, UNCHANGED lifecycleVars, clock' \in Nat, clock <= clock'
    PROVE  LifecycleInv'
  <1>1. LifecycleTyped'
    BY DEF lifecycleVars, LifecycleInv, LifecycleTyped
  <1>2. PathStands'
    BY PathStays DEF lifecycleVars
  <1>3. \A c \in Command : commands[c].step # "idle" => CommandFits(commands[c])'
    <2> SUFFICES ASSUME NEW c \in Command, commands[c].step # "idle" PROVE CommandFits(commands[c])'
      OBVIOUS
    <2>1. PICK x \in CommandRecord : x = commands[c]
      BY DEF LifecycleInv, LifecycleTyped
    <2>2. CommandFits(x)
      BY <2>1 DEF LifecycleInv, CommandsFit
    <2>3. CommandFits(x)'
      BY <2>2, FitStays DEF lifecycleVars
    <2> QED BY <2>1, <2>3 DEF lifecycleVars
  <1>4. CommandsFit'
    BY <1>3 DEF lifecycleVars, LifecycleInv, CommandsFit, Held
  <1> QED BY <1>1, <1>2, <1>4 DEF LifecycleInv

\* The steps of one command that leave the project as it is.
LEMMA CommandSteps ==
    ASSUME ReviewInv, LifecycleInv, NEW c \in Command, NEW x \in CommandRecord,
           commands' = [commands EXCEPT ![c] = x],
           UNCHANGED <<project, transitions, facts, restrictions>>, clock' \in Nat, clock <= clock',
           x.step # "idle" => CommandFits(x)',
           x.step \in {"locked", "judged"} => \A d \in Command : Held(d) => d = c
    PROVE  LifecycleInv'
  <1>1. /\ commands' \in [Command -> CommandRecord]
        /\ commands'[c] = x
        /\ \A d \in Command : d # c => commands'[d] = commands[d]
        /\ \A d \in Command : commands[d] \in CommandRecord
    BY CommandSet DEF LifecycleInv
  <1>2. LifecycleTyped'
    BY <1>1 DEF LifecycleInv, LifecycleTyped
  <1>3. PathStands'
    BY PathStays
  <1>4. ASSUME NEW d \in Command, commands'[d].step # "idle"
        PROVE  CommandFits(commands[d])'
    <2>1. CASE d = c
      BY <2>1, <1>1, <1>4
    <2>2. CASE d # c
      <3>1. PICK y \in CommandRecord : y = commands[d]
        BY <1>1
      <3>2. y = commands'[d]
        BY <3>1, <2>2, <1>1
      <3>3. CommandFits(y)
        BY <3>1, <3>2, <1>4 DEF LifecycleInv, CommandsFit
      <3>4. CommandFits(y)'
        BY <3>3, FitStays
      <3> QED BY <3>2, <3>4
    <2> QED BY <2>1, <2>2
  <1>5. \A d, e \in Command : Held(d)' /\ Held(e)' => d = e
    BY <1>1 DEF LifecycleInv, CommandsFit, Held
  <1> QED BY <1>2, <1>3, <1>4, <1>5 DEF LifecycleInv, CommandsFit

LEMMA Clocks ==
    ASSUME ReviewInv
    PROVE  clock \in Nat /\ clock <= clock
  BY DEF ReviewInv, RegistriesTyped

LEMMA AsksInv ==
    ASSUME ReviewInv, LifecycleInv, NEW c \in Command, NEW p \in Person, NEW kind \in {"move", "publish"},
           NEW to \in Target, Asks(c, p, kind, to)
    PROVE  LifecycleInv'
  <1> PICK at : at = clock + 1
    OBVIOUS
  <1> PICK version : version = project.version
    OBVIOUS
  <1> DEFINE x == [step |-> "asked", kind |-> kind, by |-> p, to |-> to, expected |-> version, at |-> at]
  <1>1. clock' = at /\ at \in Nat /\ clock \in Nat /\ clock <= clock' /\ version \in Nat
    BY Ticks DEF Asks, LifecycleInv, LifecycleTyped
  <1>2. x \in CommandRecord
    BY <1>1, LifecycleAssumption DEF CommandRecord
  <1>3. \A i \in DOMAIN transitions : transitions[i].at \in Nat /\ transitions[i].at <= clock
    BY TransitionDomain DEF LifecycleInv, PathStands, TransitionRecord
  <1>4. commands' = [commands EXCEPT ![c] = x] /\ UNCHANGED <<project, transitions, facts, restrictions>>
    BY DEF Asks
  <1>5. x.by \in Person /\ x.at <= clock' /\ x.expected <= project'.version
        /\ (x.kind = "publish" => x.to = "registered") /\ x.step = "asked" /\ x.at = at
    BY <1>1, <1>4 DEF Asks
  <1> HIDE DEF x
  <1>6. CommandFits(x)'
    BY <1>1, <1>3, <1>4, <1>5 DEF CommandFits
  <1> QED BY <1>1, <1>2, <1>4, <1>5, <1>6, CommandSteps

LEMMA LocksInv ==
    ASSUME ReviewInv, LifecycleInv, NEW c \in Command, Locks(c)
    PROVE  LifecycleInv'
  <1>1. PICK x \in CommandRecord : x = commands[c]
    BY DEF LifecycleInv, LifecycleTyped
  <1>2. /\ UNCHANGED <<clock, project, transitions, facts, restrictions>>
        /\ clock' \in Nat /\ clock <= clock'
    BY Clocks DEF Locks
  <1>3. x.step = "asked" /\ CommandFits(x) /\ \A d \in Command : ~Held(d)
    BY <1>1 DEF Locks, LifecycleInv, CommandsFit, RowFree, Held
  <1>4. CASE VersionMatches(x) /\ (x.kind = "publish" \/ <<project.state, x.to>> \in Moves)
    <2> PICK y : y = [x EXCEPT !.step = "locked"]
      OBVIOUS
    <2>1. y \in CommandRecord
      BY DEF CommandRecord
    <2>2. y.step = "locked" /\ y.kind = x.kind /\ y.by = x.by /\ y.to = x.to /\ y.expected = x.expected /\ y.at = x.at
      BY DEF CommandRecord
    <2>3. commands' = [commands EXCEPT ![c] = y]
      BY <1>1, <1>4 DEF Locks
    <2>4. CommandFits(y)'
      BY <1>2, <1>3, <1>4, <2>2 DEF CommandFits, VersionMatches
    <2> QED BY <1>2, <1>3, <2>1, <2>2, <2>3, <2>4, CommandSteps
  <1>5. CASE ~(VersionMatches(x) /\ (x.kind = "publish" \/ <<project.state, x.to>> \in Moves))
    <2>1. commands' = [commands EXCEPT ![c] = NoCommand]
      BY <1>1, <1>5 DEF Locks, Refused
    <2>2. NoCommand \in CommandRecord /\ NoCommand.step = "idle"
      BY DEF NoCommand, CommandRecord, State
    <2> HIDE DEF NoCommand
    <2> QED BY <1>2, <2>1, <2>2, CommandSteps
  <1> QED BY <1>4, <1>5

LEMMA JudgesInv ==
    ASSUME ReviewInv, LifecycleInv, NEW c \in Command, Judges(c)
    PROVE  LifecycleInv'
  <1>1. PICK x \in CommandRecord : x = commands[c]
    BY DEF LifecycleInv, LifecycleTyped
  <1>2. /\ UNCHANGED <<clock, project, transitions, facts, restrictions>>
        /\ clock' \in Nat /\ clock <= clock'
    BY Clocks DEF Judges
  <1>3. x.step = "locked" /\ CommandFits(x) /\ \A d \in Command : Held(d) => d = c
    BY <1>1 DEF Judges, LifecycleInv, CommandsFit, Held
  <1>4. CASE ~Restricted(x) /\ (x.kind = "publish" \/ MayMove(x))
    <2> PICK y : y = [x EXCEPT !.step = "judged"]
      OBVIOUS
    <2>1. y \in CommandRecord
      BY DEF CommandRecord
    <2>2. y.step = "judged" /\ y.kind = x.kind /\ y.by = x.by /\ y.to = x.to /\ y.expected = x.expected /\ y.at = x.at
      BY DEF CommandRecord
    <2>3. commands' = [commands EXCEPT ![c] = y]
      BY <1>1, <1>4 DEF Judges
    <2>4. Judged(y)
      <3>1. ~Restricted(y)
        BY <1>4, <2>2 DEF Restricted, ActionOf
      <3>2. y.kind = "move" => MayMove(y)
        BY <1>4, <2>2 DEF MayMove, MayResume
      <3> QED BY <3>1, <3>2 DEF Judged, MayMove, MayResume
    <2>5. Judged(y)'
      BY <1>2, <2>4 DEF Judged, Restricted
    <2>6. CommandFits(y)'
      BY <1>2, <1>3, <2>2, <2>5 DEF CommandFits
    <2> QED BY <1>2, <1>3, <2>1, <2>2, <2>3, <2>6, CommandSteps
  <1>5. CASE ~(~Restricted(x) /\ (x.kind = "publish" \/ MayMove(x)))
    <2>1. commands' = [commands EXCEPT ![c] = NoCommand]
      BY <1>1, <1>5 DEF Judges, Refused
    <2>2. NoCommand \in CommandRecord /\ NoCommand.step = "idle"
      BY DEF NoCommand, CommandRecord, State
    <2> HIDE DEF NoCommand
    <2> QED BY <1>2, <2>1, <2>2, CommandSteps
  <1> QED BY <1>4, <1>5

LEMMA Refuses ==
    ASSUME ReviewInv, LifecycleInv, NEW c \in Command, Refused(c),
           UNCHANGED <<clock, project, transitions, facts, restrictions>>
    PROVE  LifecycleInv'
  <1>1. commands' = [commands EXCEPT ![c] = NoCommand]
    BY DEF Refused
  <1>2. NoCommand \in CommandRecord /\ NoCommand.step = "idle"
    BY DEF NoCommand, CommandRecord, State
  <1>3. clock' \in Nat /\ clock <= clock'
    BY Clocks
  <1> HIDE DEF NoCommand
  <1> QED BY <1>1, <1>2, <1>3, CommandSteps

\* What a commit that moves the project adds to its history.
LEMMA CommitAdds ==
    ASSUME ReviewInv, LifecycleInv, NEW c \in Command, Commits(c), transitions' # transitions
    PROVE  LET x == commands[c]
               row == [from |-> project.state, to |-> x.to, by |-> x.by, at |-> x.at]
           IN  /\ x \in CommandRecord /\ CommandFits(x) /\ Judged(x) /\ x.step = "judged"
               /\ x.kind = "publish" => project.state = "draft"
               /\ x.kind = "move" => TriggerAllows(x.to) /\ project.state # "draft"
               /\ transitions' = Append(transitions, row)
               /\ project' = [state |-> x.to,
                              prior |-> IF x.to = "suspended" THEN project.state ELSE "draft",
                              suspendedBy |-> IF x.to = "suspended" THEN x.by ELSE "nobody",
                              version |-> project.version + 1]
               /\ project.version < MaxVersion
               /\ commands' = [commands EXCEPT ![c] = NoCommand]
               /\ UNCHANGED <<clock, facts, restrictions>>
  <1>1. PICK x \in CommandRecord : x = commands[c]
    BY DEF LifecycleInv, LifecycleTyped
  <1>2. x.step = "judged" /\ CommandFits(x) /\ Judged(x)
    BY <1>1 DEF Commits, LifecycleInv, CommandsFit, CommandFits
  <1>3. /\ IF x.kind = "publish" THEN project.state = "draft" ELSE TriggerAllows(x.to)
        /\ transitions' = Append(transitions, [from |-> project.state, to |-> x.to, by |-> x.by, at |-> x.at])
        /\ project' = [state |-> x.to,
                       prior |-> IF x.to = "suspended" THEN project.state ELSE "draft",
                       suspendedBy |-> IF x.to = "suspended" THEN x.by ELSE "nobody",
                       version |-> project.version + 1]
        /\ project.version < MaxVersion
        /\ commands' = [commands EXCEPT ![c] = NoCommand]
        /\ UNCHANGED <<clock, facts, restrictions>>
    BY <1>1 DEF Commits, Refused, PublicationMoves
  <1>4. x.kind = "move" => project.state # "draft"
    <2> SUFFICES ASSUME x.kind = "move", project.state = "draft" PROVE FALSE
      OBVIOUS
    <2>1. <<project.state, x.to>> \in Moves
      BY <1>2 DEF CommandFits
    <2>2. x.to = "registered"
      BY <2>1, MovesShape
    <2> QED BY <1>2, <2>2 DEF Judged
  <1>5. x.kind \in {"move", "publish"}
    BY DEF CommandRecord
  <1> QED BY <1>1, <1>2, <1>3, <1>4, <1>5

LEMMA CommitsInv ==
    ASSUME ReviewInv, LifecycleInv, NEW c \in Command, Commits(c)
    PROVE  LifecycleInv'
  <1>1. CASE transitions' = transitions
    <2>1. Refused(c) /\ UNCHANGED <<clock, facts, restrictions>>
      BY DEF Commits
    <2>2. UNCHANGED project
      <3> SUFFICES ASSUME project' # project PROVE FALSE
        OBVIOUS
      <3>1. transitions' = Append(transitions, [from |-> project.state, to |-> commands[c].to,
                                                by |-> commands[c].by, at |-> commands[c].at])
        BY DEF Commits
      <3>2. commands[c] \in CommandRecord /\ commands[c].by \in Person
        BY DEF Commits, LifecycleInv, LifecycleTyped, CommandsFit, CommandFits
      <3>3. [from |-> project.state, to |-> commands[c].to, by |-> commands[c].by, at |-> commands[c].at]
              \in TransitionRecord
        BY <3>2 DEF TransitionRecord, LifecycleInv, LifecycleTyped, CommandRecord
      <3>4. Len(transitions') = Len(transitions) + 1 /\ Len(transitions) \in Nat
        BY <3>1, <3>3, AppendIs DEF LifecycleInv, LifecycleTyped
      <3> QED BY <3>4, <1>1
    <2> QED BY <1>1, <2>1, <2>2, Refuses
  <1>2. CASE transitions' # transitions
    <2>1. PICK x \in CommandRecord : x = commands[c]
      BY DEF LifecycleInv, LifecycleTyped
    <2> PICK row : row = [from |-> project.state, to |-> x.to, by |-> x.by, at |-> x.at]
      OBVIOUS
    <2>2. /\ CommandFits(x) /\ Judged(x) /\ x.step = "judged"
          /\ x.kind = "publish" => project.state = "draft"
          /\ x.kind = "move" => TriggerAllows(x.to) /\ project.state # "draft"
          /\ transitions' = Append(transitions, row)
          /\ project' = [state |-> x.to,
                         prior |-> IF x.to = "suspended" THEN project.state ELSE "draft",
                         suspendedBy |-> IF x.to = "suspended" THEN x.by ELSE "nobody",
                         version |-> project.version + 1]
          /\ project.version < MaxVersion
          /\ commands' = [commands EXCEPT ![c] = NoCommand]
          /\ UNCHANGED <<clock, facts, restrictions>>
      BY <1>2, <2>1, CommitAdds
    <2>3. row \in TransitionRecord /\ row.from = project.state /\ row.to = x.to /\ row.by = x.by /\ row.at = x.at
      BY <2>2 DEF TransitionRecord, CommandFits, CommandRecord, LifecycleInv, LifecycleTyped
    <2> PICK n : n = Len(transitions)
      OBVIOUS
    <2>4. /\ transitions' \in Seq(TransitionRecord) /\ Len(transitions') = n + 1 /\ n \in Nat
          /\ transitions'[n + 1] = row /\ \A i \in 1..n : transitions'[i] = transitions[i]
          /\ DOMAIN transitions = 1..n /\ DOMAIN transitions' = 1..(n + 1)
      BY <2>2, <2>3, AppendIs DEF LifecycleInv, LifecycleTyped
    <2>5. LifecycleTyped'
      <3>1. NoCommand \in CommandRecord
        BY DEF NoCommand, CommandRecord, State
      <3>2. commands' \in [Command -> CommandRecord]
        BY <2>2, <3>1 DEF LifecycleInv, LifecycleTyped
      <3>3. project.version + 1 \in 1..MaxVersion /\ project.state \in State
        BY <2>2, LifecycleAssumption DEF LifecycleInv, LifecycleTyped
      <3>4. project' \in [state: State, prior: State, suspendedBy: Person \cup {"nobody"}, version: 1..MaxVersion]
        BY <2>2, <3>3 DEF CommandRecord, State
      <3> QED BY <2>2, <2>4, <3>2, <3>4 DEF LifecycleInv, LifecycleTyped
    <2>6. CommandsFit'
      <3>1. \A d \in Command : commands'[d].step # "idle" => d # c /\ commands'[d] = commands[d]
        BY <2>2 DEF NoCommand, LifecycleInv, LifecycleTyped
      <3>2. \A d \in Command : commands'[d].step # "idle" => commands[d].step = "asked"
        BY <3>1, <2>1, <2>2 DEF LifecycleInv, LifecycleTyped, CommandsFit, Held, CommandRecord
      <3>3. ASSUME NEW d \in Command, commands'[d].step # "idle"
            PROVE  CommandFits(commands[d])'
        <4>1. PICK y \in CommandRecord : y = commands[d]
          BY DEF LifecycleInv, LifecycleTyped
        <4>2. y.step = "asked" /\ y = commands'[d] /\ CommandFits(y)
          BY <4>1, <3>1, <3>2, <3>3 DEF LifecycleInv, CommandsFit
        <4>3. y.expected \in Nat /\ project.version \in Nat /\ project'.version = project.version + 1 /\ clock' = clock
          BY <2>2 DEF CommandRecord, LifecycleInv, LifecycleTyped
        <4>4. y.expected <= project'.version /\ y.expected # project'.version
          BY <4>2, <4>3 DEF CommandFits
        <4>5. CommandFits(y)'
          BY <4>2, <4>3, <4>4 DEF CommandFits
        <4> QED BY <4>2, <4>5
      <3>4. \A d \in Command : ~Held(d)'
        BY <3>1, <3>2 DEF Held
      <3> QED BY <3>3, <3>4 DEF CommandsFit
    <2>7. x.kind = "publish" => n = 0 /\ x.to = "registered"
      BY <2>2, <2>4, TransitionDomain DEF LifecycleInv, PathStands, CommandFits
    <2>8. x.kind = "move" => n # 0 /\ <<project.state, x.to>> \in Moves /\ x.expected = project.version
      BY <2>2, <2>4, TransitionDomain DEF LifecycleInv, PathStands, CommandFits
    <2>9. x.kind \in {"move", "publish"}
      BY DEF CommandRecord
    <2>10. x.to # "draft"
      BY <2>7, <2>8, <2>9, MovesShape
    <2>11. project'.state = x.to /\ transitions'[Len(transitions')].to = x.to /\ transitions' # <<>>
      BY <2>2, <2>3, <2>4
    <2>12. x.to = "suspended" =>
             /\ transitions'[Len(transitions')].from = project'.prior
             /\ transitions'[Len(transitions')].by = project'.suspendedBy
      BY <2>2, <2>3, <2>4
    <2>13. /\ row.from = IF n = 0 THEN "draft" ELSE transitions[n].to
           /\ n # 0 => row.at > transitions[n].at
           /\ row.at <= clock
      <3>1. row.from = IF n = 0 THEN "draft" ELSE transitions[n].to
        BY <2>3, <2>4, TransitionDomain DEF LifecycleInv, PathStands
      <3>2. n # 0 => x.kind = "move" /\ x.expected = project.version /\ n \in DOMAIN transitions
        BY <2>4, <2>7, <2>8, <2>9
      <3>3. n # 0 => transitions[n].at < row.at /\ transitions[n].at \in Nat /\ row.at \in Nat
        BY <3>2, <2>2, <2>3, TransitionDomain DEF CommandFits, LifecycleInv, TransitionRecord
      <3>4. row.at <= clock
        BY <2>2, <2>3 DEF CommandFits
      <3> QED BY <3>1, <3>3, <3>4
    <2>14. row.from = "suspended" => n # 0 /\ row.to \in {transitions[n].from, "closure"} /\ row.by # transitions[n].by
      <3> SUFFICES ASSUME project.state = "suspended"
                   PROVE  n # 0 /\ row.to \in {transitions[n].from, "closure"} /\ row.by # transitions[n].by
        BY <2>3
      <3>1. x.kind = "move"
        BY <2>2, <2>9
      <3>2. x.to # "suspended"
        BY <3>1, <2>8 DEF Moves, Suspendable, OfferingFamily
      <3>3. x.by # project.suspendedBy /\ x.to \in {project.prior, "closure"}
        BY <2>2, <3>1, <3>2 DEF Judged
      <3>4. transitions[n].from = project.prior /\ transitions[n].by = project.suspendedBy
        BY DEF LifecycleInv, PathStands
      <3> QED BY <3>1, <3>3, <3>4, <2>3, <2>8
    <2>15. PathStands'
      <3> SUFFICES ASSUME NEW i \in DOMAIN transitions'
                   PROVE  /\ transitions'[i].to # "draft" /\ transitions'[i].at <= clock'
                          /\ transitions'[i].from = IF i = 1 THEN "draft" ELSE transitions'[i - 1].to
                          /\ i > 1 => transitions'[i].at > transitions'[i - 1].at
                          /\ transitions'[i].from = "suspended" =>
                                /\ transitions'[i].to \in {transitions'[i - 1].from, "closure"}
                                /\ transitions'[i].by # transitions'[i - 1].by
        BY <2>11, <2>12 DEF PathStands
      <3>1. CASE i = n + 1
        <4>1. n # 0 => transitions'[i - 1] = transitions[n]
          BY <3>1, <2>4
        <4>2. transitions'[i] = row /\ (i = 1 <=> n = 0) /\ (i > 1 <=> n # 0)
          BY <3>1, <2>4
        <4> QED BY <4>1, <4>2, <2>2, <2>3, <2>10, <2>13, <2>14
      <3>2. CASE i \in 1..n
        <4>1. /\ transitions'[i] = transitions[i] /\ i \in DOMAIN transitions
              /\ i # 1 => transitions'[i - 1] = transitions[i - 1]
          BY <3>2, <2>4
        <4>2. transitions[1].from = "draft" /\ (i > 1 <=> i # 1)
          BY <3>2, <2>4 DEF LifecycleInv, PathStands
        <4> QED BY <4>1, <4>2, <2>2 DEF LifecycleInv, PathStands
      <3> QED BY <3>1, <3>2, <2>4
    <2> QED BY <2>5, <2>6, <2>15 DEF LifecycleInv
  <1> QED BY <1>1, <1>2

\* The steps that touch neither the commands nor the project's state.
LEMMA AsideKeeps ==
    ASSUME ReviewInv, LifecycleInv, UNCHANGED <<clock, project, transitions, commands>>,
           facts' \in [Precondition -> {"pending", "confirmed"}],
           restrictions' \in [Restriction -> {"none", "draft", "active", "released", "superseded"}],
           \/ \A c \in Command : commands[c].step # "judged"
           \/ \A r \in Restriction : restrictions'[r] = "active" => restrictions[r] = "active"
    PROVE  LifecycleInv'
  <1>1. clock' \in Nat /\ clock <= clock'
    BY Clocks
  <1>2. LifecycleTyped'
    BY DEF LifecycleInv, LifecycleTyped
  <1>3. PathStands'
    BY <1>1, PathStays
  <1>4. ASSUME NEW d \in Command, commands'[d].step # "idle"
        PROVE  CommandFits(commands[d])'
    <2>1. PICK y \in CommandRecord : y = commands[d]
      BY DEF LifecycleInv, LifecycleTyped
    <2>2. CommandFits(y) /\ y = commands'[d]
      BY <2>1, <1>4 DEF LifecycleInv, CommandsFit
    <2>3. CommandFits(y)'
      BY <1>1, <2>1, <2>2, FitStays
    <2> QED BY <2>2, <2>3
  <1>5. \A d, e \in Command : Held(d)' /\ Held(e)' => d = e
    BY DEF LifecycleInv, CommandsFit, Held
  <1> QED BY <1>2, <1>3, <1>4, <1>5 DEF LifecycleInv, CommandsFit

LEMMA ProjectEditedInv ==
    ASSUME ReviewInv, LifecycleInv, ProjectEdited
    PROVE  LifecycleInv'
  <1>1. /\ UNCHANGED <<clock, transitions, facts, commands, restrictions>>
        /\ project' = [project EXCEPT !.version = project.version + 1]
        /\ project.version < MaxVersion /\ \A c \in Command : ~Held(c)
    BY DEF ProjectEdited, RowFree, Held
  <1>2. /\ project' \in [state: State, prior: State, suspendedBy: Person \cup {"nobody"}, version: 1..MaxVersion]
        /\ project'.version = project.version + 1 /\ project.version \in Nat
        /\ project'.state = project.state /\ project'.prior = project.prior
        /\ project'.suspendedBy = project.suspendedBy
    <2>1. project.version + 1 \in 1..MaxVersion /\ project.version \in Nat
      BY <1>1, LifecycleAssumption DEF LifecycleInv, LifecycleTyped
    <2> QED BY <1>1, <2>1 DEF LifecycleInv, LifecycleTyped
  <1>3. LifecycleTyped'
    BY <1>1, <1>2 DEF LifecycleInv, LifecycleTyped
  <1>4. PathStands'
    BY <1>1, <1>2, Clocks, PathStays
  <1>5. ASSUME NEW d \in Command, commands'[d].step # "idle"
        PROVE  CommandFits(commands[d])'
    <2>1. PICK y \in CommandRecord : y = commands[d]
      BY DEF LifecycleInv, LifecycleTyped
    <2>2. CommandFits(y) /\ y = commands'[d] /\ y.step = "asked"
      BY <2>1, <1>1, <1>5 DEF LifecycleInv, CommandsFit, Held, CommandRecord
    <2>3. y.expected <= project'.version /\ y.expected # project'.version
      BY <1>2, <2>2 DEF CommandFits, CommandRecord
    <2>4. CommandFits(y)'
      BY <1>1, <2>2, <2>3 DEF CommandFits
    <2> QED BY <2>2, <2>4
  <1>6. \A d, e \in Command : Held(d)' /\ Held(e)' => d = e
    BY <1>1 DEF LifecycleInv, CommandsFit, Held
  <1> QED BY <1>3, <1>4, <1>5, <1>6 DEF LifecycleInv, CommandsFit

LEMMA LifecycleStepKeeps ==
    ASSUME ReviewInv, LifecycleInv, LifecycleStep
    PROVE  LifecycleInv' /\ clock' \in 1..MaxClock
  <1>1. clock' \in 1..MaxClock
    BY Ticks DEF LifecycleStep, Asks, Locks, Judges, Commits, ProjectEdited, RecordsFact,
                 RestrictionDrafted, RestrictionChanges, ReviewInv, RegistriesTyped
  <1>2. ASSUME NEW k \in Precondition, NEW status \in {"pending", "confirmed"}, RecordsFact(k, status)
        PROVE  LifecycleInv'
    <2>1. facts' \in [Precondition -> {"pending", "confirmed"}]
      BY <1>2 DEF RecordsFact, LifecycleInv, LifecycleTyped
    <2>2. UNCHANGED <<clock, project, transitions, commands, restrictions>>
      BY <1>2 DEF RecordsFact
    <2> QED BY <2>1, <2>2, AsideKeeps DEF LifecycleInv, LifecycleTyped
  <1>3. ASSUME NEW r \in Restriction, RestrictionDrafted(r)
        PROVE  LifecycleInv'
    <2>1. /\ restrictions' \in [Restriction -> {"none", "draft", "active", "released", "superseded"}]
          /\ \A q \in Restriction : restrictions'[q] = "active" => restrictions[q] = "active"
      BY <1>3 DEF RestrictionDrafted, LifecycleInv, LifecycleTyped
    <2>2. UNCHANGED <<clock, project, transitions, commands, facts>>
      BY <1>3 DEF RestrictionDrafted
    <2> QED BY <2>1, <2>2, AsideKeeps DEF LifecycleInv, LifecycleTyped
  <1>4. ASSUME NEW r \in Restriction, NEW to \in {"active", "released", "superseded"}, RestrictionChanges(r, to)
        PROVE  LifecycleInv'
    <2>1. restrictions' \in [Restriction -> {"none", "draft", "active", "released", "superseded"}]
      BY <1>4 DEF RestrictionChanges, LifecycleInv, LifecycleTyped
    <2>2. UNCHANGED <<clock, project, transitions, commands, facts>> /\ \A c \in Command : commands[c].step # "judged"
      BY <1>4 DEF RestrictionChanges, BlackoutFree
    <2> QED BY <2>1, <2>2, AsideKeeps DEF LifecycleInv, LifecycleTyped
  <1> QED BY <1>1, <1>2, <1>3, <1>4, AsksInv, LocksInv, JudgesInv, CommitsInv, ProjectEditedInv DEF LifecycleStep

-----------------------------------------------------------------------------
(* The whole system.                                                        *)

LEMMA GateClock ==
    ASSUME ReviewInv, GateNext
    PROVE  clock' \in Nat /\ clock <= clock'
  <1>1. CASE GateStep
    <2>1. Tick \/ UNCHANGED clock
      BY <1>1 DEF GateStep, AssessBegins, AssessCommits, AsksToSign, DecisionBegins,
                  DecisionCommits, EvidenceChanges, SignerChanges
    <2>2. Tick => clock' \in Nat /\ clock <= clock'
      BY Ticks
    <2> QED BY <2>1, <2>2, Clocks
  <1>2. CASE ReviewNext
    BY <1>2, ReviewMoves, Clocks
  <1> QED BY <1>1, <1>2 DEF GateNext

LEMMA ProjectsKeep ==
    ASSUME ProjectsInv, [ProjectsNext]_projectVars
    PROVE  ProjectsInv'
  <1>1. CASE GateNext /\ UNCHANGED lifecycleVars
    BY <1>1, GateNextKeeps, GateClock, LifecycleStays DEF ProjectsInv
  <1>2. CASE LifecycleStep /\ UNCHANGED <<proposals, registry, decisions>> /\ UNCHANGED gateVars
    BY <1>2, LifecycleStepKeeps, ReviewStays, GateStays DEF ProjectsInv
  <1>3. CASE UNCHANGED projectVars
    <2>1. /\ UNCHANGED <<proposals, registry, decisions>> /\ UNCHANGED gateVars /\ UNCHANGED lifecycleVars
          /\ clock' = clock
      BY <1>3 DEF projectVars, reviewVars
    <2>2. clock' \in 1..MaxClock
      BY <2>1 DEF ProjectsInv, ReviewInv, RegistriesTyped
    <2> QED BY <2>1, <2>2, ReviewStays, GateStays, LifecycleStays, Clocks DEF ProjectsInv
  <1> QED BY <1>1, <1>2, <1>3 DEF ProjectsNext

LEMMA ProjectsInvariant == ProjectsSpec => []ProjectsInv
  <1>1. ProjectsInit => ProjectsInv
    BY ReviewInitInv, GateInitInv, LifecycleInitInv DEF ProjectsInit, ProjectsInv
  <1>2. ProjectsInv /\ [ProjectsNext]_projectVars => ProjectsInv'
    BY ProjectsKeep
  <1> QED BY <1>1, <1>2, PTL DEF ProjectsSpec

\* A row of a registry that was not seeded stands on one approved proposal of
\* its content, with another person behind the approval (materializeApproved);
\* a named version stands once, and profile versions take effect in order.
THEOREM RegistriesStand == ProjectsSpec => []RegistriesHold
  <1>1. ProjectsInv => RegistriesHold
    BY DEF ProjectsInv, ReviewInv
  <1> QED BY <1>1, ProjectsInvariant, PTL

\* Every recorded gate decision is the one its maker asked to sign, recorded
\* once and in time, and a go rests on no blocking status (readiness.ts).
THEOREM DecisionsAreSigned == ProjectsSpec => []DecisionsAsSigned
  <1>1. ProjectsInv => DecisionsAsSigned
    BY DEF ProjectsInv, GateInv
  <1> QED BY <1>1, ProjectsInvariant, PTL

LEMMA TypesHold ==
    ASSUME ProjectsInv
    PROVE  LifecycleTypeOK
  <1>1. ReviewTypeOK
    BY SeqDomains DEF ProjectsInv, ReviewInv, RegistriesTyped, ReviewTypeOK, ProposalRecord, RegistryRecord
  <1>2. GateTypeOK
    BY <1>1, GateDomains DEF ProjectsInv, GateInv, GateTyped, RecordsFit, GateTypeOK, GateDecisionRecord
  <1> QED BY <1>2 DEF ProjectsInv, LifecycleInv, LifecycleTyped, LifecycleTypeOK

\* The history of a project is one path from draft to its state, in the order
\* of its stamps, whoever asks for what and however requests overlap
\* (lifecycle.ts): the stamp of a move is later than all that its version saw.
THEOREM HistoryIsOnePath == ProjectsSpec => []HistoryStands
  <1>1. ProjectsInv => HistoryStands
    BY TypesHold DEF ProjectsInv, LifecycleInv, PathStands, HistoryStands
  <1> QED BY <1>1, ProjectsInvariant, PTL

\* A step that adds to the history is the commit of a judged command.
LEMMA OnlyCommits ==
    ASSUME ProjectsInv, [ProjectsNext]_projectVars,
           transitions' # transitions \/ project'.state # project.state
    PROVE  \E c \in Command : Commits(c) /\ transitions' # transitions /\ UNCHANGED gateVars
  <1>1. CASE GateNext /\ UNCHANGED lifecycleVars
    BY <1>1 DEF lifecycleVars
  <1>2. CASE UNCHANGED projectVars
    BY <1>2 DEF projectVars, lifecycleVars
  <1>3. CASE LifecycleStep /\ UNCHANGED gateVars
    <2>1. project' = [project EXCEPT !.version = project.version + 1] => project'.state = project.state
      BY DEF ProjectsInv, LifecycleInv, LifecycleTyped
    <2>2. PICK c \in Command : Commits(c)
      BY <1>3, <2>1 DEF LifecycleStep, Asks, Locks, Judges, ProjectEdited, RecordsFact,
                        RestrictionDrafted, RestrictionChanges
    <2>3. transitions' # transitions
      <3> SUFFICES ASSUME transitions' = transitions PROVE FALSE
        OBVIOUS
      <3>1. project' # project
        OBVIOUS
      <3>2. transitions' = Append(transitions, [from |-> project.state, to |-> commands[c].to,
                                                by |-> commands[c].by, at |-> commands[c].at])
        BY <2>2, <3>1 DEF Commits
      <3>3. commands[c] \in CommandRecord /\ commands[c].by \in Person
        BY <2>2 DEF Commits, ProjectsInv, LifecycleInv, LifecycleTyped, CommandsFit, CommandFits
      <3>4. [from |-> project.state, to |-> commands[c].to, by |-> commands[c].by, at |-> commands[c].at]
              \in TransitionRecord
        BY <3>3 DEF TransitionRecord, ProjectsInv, LifecycleInv, LifecycleTyped, CommandRecord
      <3>5. Len(transitions') = Len(transitions) + 1 /\ Len(transitions) \in Nat
        BY <3>2, <3>4, AppendIs DEF ProjectsInv, LifecycleInv, LifecycleTyped
      <3> QED BY <3>5
    <2> QED BY <1>3, <2>2, <2>3
  <1> QED BY <1>1, <1>2, <1>3 DEF ProjectsNext

\* An offering state is entered only while every precondition is confirmed and
\* the latest decision is a go, whatever changed after the route looked
\* (migration 0050 looks again inside the update).
THEOREM OffersOpenOnBasis == ProjectsSpec => OpensOnBasis
  <1>1. ProjectsInv /\ [ProjectsNext]_projectVars =>
          [project'.state \in OfferingFamily /\ project'.state # project.state =>
              AllConfirmed' /\ LatestDecision' = "go"]_projectVars
    <2> SUFFICES ASSUME ProjectsInv, [ProjectsNext]_projectVars,
                        project'.state \in OfferingFamily, project'.state # project.state
                 PROVE  AllConfirmed' /\ LatestDecision' = "go"
      OBVIOUS
    <2>1. PICK c \in Command : Commits(c) /\ transitions' # transitions /\ UNCHANGED gateVars
      BY OnlyCommits
    <2>2. PICK x \in CommandRecord : x = commands[c]
      BY DEF ProjectsInv, LifecycleInv, LifecycleTyped
    <2>3. /\ CommandFits(x)
          /\ x.kind = "move" => TriggerAllows(x.to)
          /\ project' = [state |-> x.to,
                         prior |-> IF x.to = "suspended" THEN project.state ELSE "draft",
                         suspendedBy |-> IF x.to = "suspended" THEN x.by ELSE "nobody",
                         version |-> project.version + 1]
          /\ UNCHANGED facts
      BY <2>1, <2>2, CommitAdds DEF ProjectsInv
    <2>4. x.kind = "move"
      BY <2>3 DEF CommandFits, CommandRecord, OfferingFamily
    <2>5. AllConfirmed /\ LatestDecision = "go"
      BY <2>3, <2>4 DEF TriggerAllows, OfferingMayOpen
    <2>6. UNCHANGED gateDecisions
      BY <2>1 DEF gateVars
    <2> QED BY <2>3, <2>5, <2>6 DEF AllConfirmed, LatestDecision
  <1> QED BY <1>1, ProjectsInvariant, PTL DEF ProjectsSpec, OpensOnBasis

\* While a blackout is active nobody it binds makes a move it covers
\* (disclosure-restrictions.ts): the check and the commit are under its lock.
THEOREM BlackoutsHold == ProjectsSpec => NothingMovesInBlackout
  <1> DEFINE Outside(r) ==
        restrictions[r] = "active" /\ Len(transitions') > Len(transitions) =>
            LET t == transitions'[Len(transitions')]
            IN  \/ Binds[r] \cap {"everyone", t.by} = {}
                \/ (IF t.from = "draft" THEN "publish" ELSE t.to) \notin Covers[r]
  <1>1. ProjectsInv /\ [ProjectsNext]_projectVars => [\A r \in Restriction : Outside(r)]_projectVars
    <2> SUFFICES ASSUME ProjectsInv, [ProjectsNext]_projectVars, NEW r \in Restriction,
                        restrictions[r] = "active", Len(transitions') > Len(transitions)
                 PROVE  Outside(r)
      OBVIOUS
    <2>1. transitions' # transitions
      BY TransitionDomain DEF ProjectsInv, LifecycleInv
    <2>2. PICK c \in Command : Commits(c)
      BY <2>1, OnlyCommits
    <2>3. PICK x \in CommandRecord : x = commands[c]
      BY DEF ProjectsInv, LifecycleInv, LifecycleTyped
    <2> PICK row : row = [from |-> project.state, to |-> x.to, by |-> x.by, at |-> x.at]
      OBVIOUS
    <2>4. /\ CommandFits(x) /\ Judged(x)
          /\ x.kind = "publish" => project.state = "draft"
          /\ x.kind = "move" => project.state # "draft"
          /\ transitions' = Append(transitions, row)
      BY <2>1, <2>2, <2>3, CommitAdds DEF ProjectsInv
    <2>5. row \in TransitionRecord /\ row.from = project.state /\ row.to = x.to /\ row.by = x.by
      BY <2>4 DEF TransitionRecord, CommandFits, CommandRecord, ProjectsInv, LifecycleInv, LifecycleTyped
    <2>6. transitions'[Len(transitions')] = row
      BY <2>4, <2>5, AppendIs DEF ProjectsInv, LifecycleInv, LifecycleTyped
    <2>7. ActionOf(x) = IF row.from = "draft" THEN "publish" ELSE row.to
      BY <2>4, <2>5 DEF ActionOf, CommandRecord
    <2>8. ~(ActionOf(x) \in Covers[r] /\ Binds[r] \cap {"everyone", x.by} # {})
      BY <2>4 DEF Judged, Restricted
    <2> QED BY <2>5, <2>6, <2>7, <2>8
  <1> QED BY <1>1, ProjectsInvariant, PTL DEF ProjectsSpec, NothingMovesInBlackout
=============================================================================
