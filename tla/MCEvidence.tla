----------------------------- MODULE MCEvidence -----------------------------
(***************************************************************************)
(* Instances of SourceCollection and Verification, which share no state; a *)
(* part of a run moves one of them.                                        *)
(*                                                                         *)
(* SourceCollection: "configure" leaves the source alone but for one       *)
(* receipt by hand, "collect" and "by hand" start from an active           *)
(* connection that nobody reconfigures.                                    *)
(*                                                                         *)
(* Verification: two cases over two claims, one of them in both.           *)
(* "corrections": corrections of corrections; "races": reviews beside one  *)
(* dispute or one change; "standing": one attestation under two        *)
(* disputes and several changes.                                           *)
(***************************************************************************)
EXTENDS SourceCollection, Verification

CONSTANTS Ann, Ben, ConfigA, ConfigB, k1, k2, c3, t1, t2

VARIABLES part,
          caseChanges \* changes of cases and of what reviews stand on

SourceParts == {"configure", "collect", "by hand"}

----------------------------------------------------------------------------
MCAuthority(s) == [state |-> s, version |-> 1, registeredBy |-> Ann, acceptedBy |-> Ben]
MCConnection(s) == [state |-> s, version |-> 1, config |-> ConfigA]
MCLegacy == [via |-> "adapter", key |-> Nothing, query |-> "q1", result |-> "confirmed_from_source",
             hash |-> "h1", at |-> 0, first |-> Nobody, second |-> Nobody, supersedes |-> 0]
MCInitAuthorities == {Absent, MCAuthority("accepted")}
MCInitConnections == {Absent, MCConnection("tested"), MCConnection("active")}
MCInitReceipts == {<<>>, <<MCLegacy>>}
MCPatchStates == {"tested", "active", "degraded"}
MCManualResults == {"source_unavailable", "manual_review_required"}

Resting == \A c \in Collects : collect[c].key = k1 /\ collect[c].query = "q1"

\* c1 and c2 are deliveries of one request.
Deliveries == \A c \in Collects : collect[c].key = IF c = c3 THEN k2 ELSE k1

InitPart ==
  \/ /\ part = "configure"
     /\ receipts = <<>> /\ Resting
     /\ connection # MCConnection("active")
     /\ connection = Absent <=> authority = Absent
  \/ /\ part = "collect"
     /\ connection = MCConnection("active")
     /\ Deliveries
  \/ /\ part = "by hand"
     /\ connection = MCConnection("active")
     /\ receipts = <<>> /\ Resting

SourceSteps ==
  \/ part = "configure" /\ (ConfigurationNext \/ (receipts = <<>> /\ CreateReceipt(Ann, k1, "q1", "source_unavailable")))
  \/ part = "collect" /\ CollectionNext
  \/ part = "by hand" /\ ByHandNext

InitRest ==
  /\ authority = Absent /\ connection = Absent /\ receipts = <<>> /\ Deliveries
  /\ part \notin SourceParts

----------------------------------------------------------------------------
MCTier == [k \in Claim |-> "high"]
MCSubmitter == [k \in Claim |-> "author"]
MCTx == {t1, t2}
MCBodies == {[scope |-> {1, 2}, type |-> "professional_signoff"],
             [scope |-> {1}, type |-> "independent_assurance"]}
MCSymmetry == Permutations(Tx)

MaxCases        == [corrections |-> 2, races |-> 2, standing |-> 1]
MaxAttestations == [corrections |-> 3, races |-> 2, standing |-> 1]
MaxReviewed     == [corrections |-> 2, races |-> 2, standing |-> 1]
MaxDisputes     == [corrections |-> 0, races |-> 1, standing |-> 2]
MaxCaseChanges  == [corrections |-> 0, races |-> 1, standing |-> 3]

ReviewSteps ==
  /\ \/ (Reviews \/ Disputes \/ Signals) /\ UNCHANGED caseChanges
     \/ caseChanges < MaxCaseChanges[part] /\ (CaseChanges \/ BasisChanges) /\ caseChanges' = caseChanges + 1
  /\ Len(attestations') <= MaxAttestations[part]
  /\ Len(cases') <= MaxCases[part]
  /\ Len(requests') <= MaxReviewed[part]
  /\ Len(disputes') <= MaxDisputes[part]
  /\ part = "races" => disputes' = <<>> \/ caseChanges' = 0

----------------------------------------------------------------------------
MCInit ==
  /\ part \in SourceParts \cup DOMAIN MaxCaseChanges
  /\ SourceInit /\ (InitPart \/ InitRest) /\ \A q \in Queries : source[q] = "h1"
  /\ ReviewInit /\ caseChanges = 0

MCNext ==
  /\ \/ part \in SourceParts /\ SourceSteps /\ UNCHANGED <<reviewVars, caseChanges>>
     \/ part \notin SourceParts /\ ReviewSteps /\ UNCHANGED sourceVars
  /\ UNCHANGED part

MCSpec == MCInit /\ [][MCNext]_<<sourceVars, reviewVars, caseChanges, part>>
=============================================================================
