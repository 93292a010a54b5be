------------------------------ MODULE MCPeople ------------------------------
(***************************************************************************)
(* Instances of Accounts, Governance, SecondFactors, ExternalSignIn,       *)
(* Authorization and ServiceTokens, which share no state; a part of a run  *)
(* moves one of them.                                                      *)
(*                                                                         *)
(* Accounts: "recovery" and "authority" with what two people decide about  *)
(* others, "sign-in" with the ways in of the one person the requests are   *)
(* about.  Governance: "courses" with proposals from their creation,       *)
(* "weights" with one that is open on a snapshot while wallets change      *)
(* hands.  SecondFactors: "keys" with a passkey beside an app, "app" with  *)
(* an app that replaces another and three sessions.  ExternalSignIn:       *)
(* "providers", with two accounts at one provider, one person and one who  *)
(* is invited.  Authorization: "access", where requests are short.         *)
(* ServiceTokens: "tokens".                                                *)
(***************************************************************************)
EXTENDS SignIns, Governance, SecondFactors, Authorization, ServiceTokens, TLC

CONSTANTS p1, p2, p3, p4, p5, b1, b2,
  InstanceParts,  \* the parts of the run
  MaxNow,  \* bound: times a request or a transaction can carry
  MaxChanges  \* bound: steps that change wallets

VARIABLES part, changes

MCPerson == {p1, p2, p3, p4}
\* Ballots, checks of factors and callbacks of providers in flight.
MCBallot == {b1, b2}
MCSymmetry == Permutations(MCBallot)
MCProviderOf == [a \in Account |-> "google"]
MCHoldings == {("x" :> 2) @@ ("y" :> 1)}
MCHalf == [quorum |-> <<1, 2>>, threshold |-> <<1, 2>>]
MCTerms == {MCHalf}

AccountParts == {"recovery", "authority", "sign-in"}
GovernanceParts == {"courses", "weights"}
FactorParts == {"keys", "app"}

MCBinding(role, org, project, countries) ==
  [role |-> role, org |-> org, project |-> project, scoped |-> countries # {}, countries |-> countries]
MCBindable ==
  {MCBinding("data_steward", "A", "none", {}), MCBinding("data_steward", "A", "none", {"KOR"}),
   MCBinding("data_steward", "A", "p2", {}), MCBinding("reviewer_lab", "none", "none", {}),
   MCBinding("reviewer_lab", "none", "none", {"ZAF"}), MCBinding("project_voter", "none", "p3", {}),
   MCBinding("security_operator", "none", "none", {}), MCBinding("scan_service", "none", "none", {})}
MCOwner == [p1 |-> "A", p2 |-> "A", p3 |-> "B"]
MCHost == [p1 |-> "KOR", p2 |-> "ZAF", p3 |-> "KOR"]

InitOpenVote ==
  /\ proposals = <<[space |-> "protocol", terms |-> MCHalf, state |-> "voting", eligible |-> Supply,
                    basis |-> "onchain_total_supply", holdings |-> ("x" :> 2) @@ ("y" :> 1),
                    result |-> "none", executions |-> <<>>]>>
  /\ votes = [p \in Proposal |-> [v \in Voter |-> NoVote]]
  /\ wallets = <<[holder |-> "ann", address |-> "x", disabled |-> "no", by |-> "none"]>>
  /\ challenges = <<>>
  /\ ballots = [b \in Ballot |-> NotCasting]

MCInit ==
  /\ part \in InstanceParts
  /\ changes = 0
  /\ AccountsInit /\ FactorInit /\ ExternalInit /\ ServiceTokensInit
  /\ AuthorizationInit
  /\ part # "access" => kind = "person" /\ assurance = "wallet_only"
  /\ IF part = "weights" THEN InitOpenVote ELSE GovernanceInit

\* Requests and sign-ins of one person.  (People differ in nothing, so the one
\* the first request is about may as well be p1.)
OfOnePerson ==
  LET who == requests'[1].target
  IN /\ \A i \in DOMAIN requests' : requests'[i].target = who
     /\ \A p \in Person : sessions'[p] # {} \/ codes'[p] # {} => requests' # <<>> /\ p = who

AccountSteps ==
  /\ \/ part = "recovery" /\ (SuspensionSteps \/ RecoverySteps)
     \/ part = "authority" /\ (SuspensionSteps \/ AuthoritySteps)
     \/ part = "sign-in" /\ (SuspensionSteps \/ RecoverySteps \/ SignInSteps) /\ OfOnePerson
  /\ Now' <= MaxNow
  /\ requests' # <<>> => requests'[1].target = p1
  /\ UNCHANGED changes

GovernanceSteps ==
  /\ \/ part = "courses" /\ (ProposalSteps \/ VoteSteps) /\ UNCHANGED changes
     \/ /\ part = "weights"
        /\ \/ WalletSteps /\ changes' = changes + (IF wallets' = wallets THEN 0 ELSE 1)
           \/ VoteSteps /\ UNCHANGED changes
        /\ changes' <= MaxChanges
        /\ \A b \in Ballot : ballots'[b].op = "vote" => ballots'[b].choice = "for"

FactorSteps ==
  /\ FactorNext
  /\ IF part = "app" THEN passkeys' = <<>> /\ ceremonies' = <<>>
     ELSE Len(ways') <= 2 /\ Len(totps') <= 1 /\ \A t \in DOMAIN totps' : totps'[t].step <= 1

\* One sign-in by code is enough for a person to link from.
ProviderSteps ==
  ExternalNext /\ (Len(entries') = 2 => entries'[2].flow # 0)

AccessSteps ==
  \/ part = "access" /\ AuthorizationNext /\ (InFlight => request' = NoSession("idle")) /\ UNCHANGED serviceTokenVars
  \/ part = "tokens" /\ ServiceTokensNext /\ clock' < MaxNow /\ UNCHANGED authorizationVars

MCNext ==
  /\ \/ part \in AccountParts /\ AccountSteps /\ UNCHANGED <<governanceVars, factorVars, signInVars>>
     \/ part \in GovernanceParts /\ GovernanceSteps /\ UNCHANGED <<accountsVars, factorVars, signInVars>>
     \/ part \in FactorParts /\ FactorSteps /\ UNCHANGED <<accountsVars, governanceVars, signInVars, changes>>
     \/ part = "providers" /\ ProviderSteps /\ UNCHANGED <<accountsVars, governanceVars, factorVars, changes>>
     \/ part \in {"access", "tokens"} /\ AccessSteps
        /\ UNCHANGED <<accountsVars, governanceVars, factorVars, signInVars, changes>>
  /\ IF part \in {"access", "tokens"} THEN TRUE ELSE UNCHANGED <<authorizationVars, serviceTokenVars>>
  /\ UNCHANGED part

MCVars == <<accountsVars, governanceVars, factorVars, signInVars, authorizationVars, serviceTokenVars, part, changes>>
MCSpec == MCInit /\ [][MCNext]_MCVars
=============================================================================
