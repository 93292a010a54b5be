----------------------------- MODULE Governance -----------------------------
(***************************************************************************)
(* Proposals, votes and the signing wallets whose snapshot balance a vote  *)
(* weighs.  A vote and the binding of a wallet are transactions of several *)
(* statements; a request that is refused, and one that is rolled back,     *)
(* changes nothing.  The other requests lock what they read before they    *)
(* decide and commit in one step.                                          *)
(*                                                                         *)
(* Abstracted: roles and spaces a role may act in, texts, versions of rows *)
(* (a stale If-Match is refused), the chain of a wallet (one), sessions    *)
(* other than what ends a challenge, the expiry of challenges, and the     *)
(* stored copy of a balance: the balance at one block is always the same.  *)
(***************************************************************************)
EXTENDS Naturals, Sequences, FiniteSets, Functions

CONSTANTS
  Proposal,      \* ids of proposals
  Voter,         \* people who may vote and hold a wallet
  Address,       \* addresses of keys
  Holdings,      \* balances at a snapshot block: functions of Address, each within Supply
  Supply,        \* total supply of the token at a snapshot block
  ManualWeights, \* weights and denominators people write themselves
  Terms,         \* [quorum |-> <<n, d>>, threshold |-> <<n, d>>] of proposals
  Ballot,        \* transactions at once
  MaxWallets     \* bound: wallet rows

\* Balances at one block share out the supply; a supply of zero opens no vote.  "none" is no address.
ASSUME GovernanceAssumption ==
  /\ Proposal \subseteq Nat \ {0}
  /\ IsFiniteSet(Voter)
  /\ IsFiniteSet(Address) /\ "none" \notin Address
  /\ Supply \in Nat \ {0}
  /\ \A held \in Holdings : held \in [Address -> Nat] /\ SumFunction(held) <= Supply

VARIABLES
  proposals,  \* core.governance_proposals with their execution records
  votes,      \* core.governance_votes: for each proposal, the vote of each person who voted
  wallets,    \* core.wallet_identities with their disable events, in the order bound
  challenges, \* the live binding challenge of each person, if any
  ballots     \* the open transactions: what each has read and locked

governanceVars == <<proposals, votes, wallets, challenges, ballots>>

NoWallet == 0
NoVote   == [choice |-> "none", weight |-> 0, wallet |-> "none"]
NotCasting == [op |-> "idle", voter |-> "none"]
VoteChoices  == {"for", "against", "abstain"}

proposalMachine ==
  [s \in {"draft", "review", "announced", "voting", "succeeded", "defeated", "no_quorum",
          "timelocked", "recorded", "execution_pending", "executed", "failed", "disputed",
          "cancelled"} |->
     CASE s = "draft"             -> {"review", "cancelled"}
       [] s = "review"            -> {"announced", "cancelled"}
       [] s = "announced"         -> {"voting", "cancelled"}
       [] s = "voting"            -> {"succeeded", "defeated", "no_quorum"}
       [] s = "succeeded"         -> {"timelocked"}
       [] s = "timelocked"        -> {"recorded"}
       [] s = "recorded"          -> {"execution_pending"}
       [] s = "execution_pending" -> {"executed", "failed", "disputed"}
       [] s = "disputed"          -> {"executed", "failed"}
       [] OTHER                   -> {}]

EXECUTION_OUTCOMES == {"executed", "failed", "disputed"}
CLOSING == {"succeeded", "defeated", "no_quorum"}

GovernanceInit ==
  /\ proposals = <<>>
  /\ votes = [p \in Proposal |-> [v \in Voter |-> NoVote]]
  /\ wallets = <<>>
  /\ challenges = <<>>
  /\ ballots = [b \in Ballot |-> NotCasting]

-----------------------------------------------------------------------------
(* Tallies.                                                                 *)

WeightFor(p, choice) ==
  SumFunction([v \in Voter |-> IF votes[p][v].choice = choice THEN votes[p][v].weight ELSE 0])

Participated(p) == WeightFor(p, "for") + WeightFor(p, "against") + WeightFor(p, "abstain")

tallyVotes(p) ==
  LET terms == proposals[p].terms
      eligible == IF proposals[p].eligible = 0 THEN Participated(p) ELSE proposals[p].eligible
      decided == WeightFor(p, "for") + WeightFor(p, "against")
      quorumMet == Participated(p) * terms.quorum[2] >= eligible * terms.quorum[1]
      thresholdMet == /\ decided > 0
                      /\ WeightFor(p, "for") * terms.threshold[2] >= decided * terms.threshold[1]
  IN IF ~quorumMet THEN "no_quorum" ELSE IF thresholdMet THEN "succeeded" ELSE "defeated"

-----------------------------------------------------------------------------
(* The course of a proposal: each locks the proposal before it reads it.    *)

CreateProposal(p) ==
  /\ p = Len(proposals) + 1
  /\ \E space \in {"protocol", "project"}, terms \in Terms, candidate \in ManualWeights \cup {0} :
       proposals' = Append(proposals,
         [space |-> space, terms |-> terms, state |-> "draft", eligible |-> candidate,
          basis |-> "candidate", holdings |-> <<>>, result |-> "none", executions |-> <<>>])
  /\ UNCHANGED <<votes, wallets, challenges, ballots>>

OnSnapshot(p) == proposals[p].basis = "onchain_total_supply"

\* The denominator and the balances are fixed together, and by a token in protocol space only.
resolveVotingSnapshot(p) ==
  IF proposals[p].space = "protocol"
  THEN {[proposals[p] EXCEPT !.state = "voting", !.eligible = Supply, !.holdings = held,
                             !.basis = "onchain_total_supply"] : held \in Holdings}
  ELSE {[proposals[p] EXCEPT !.state = "voting", !.basis = "manual"] : x \in {proposals[p].eligible} \ {0}}

CloseMatchesTally(p, to) == to \in CLOSING => tallyVotes(p) = to

TransitionProposal(p, to) ==
  /\ p <= Len(proposals)
  /\ to \in proposalMachine[proposals[p].state] \ EXECUTION_OUTCOMES
  /\ CloseMatchesTally(p, to)
  /\ IF to = "voting"
     THEN \E opened \in resolveVotingSnapshot(p) : proposals' = [proposals EXCEPT ![p] = opened]
     ELSE proposals' = [proposals EXCEPT ![p].state = to,
                                         ![p].result = IF to \in CLOSING THEN to ELSE @]
  /\ UNCHANGED <<votes, wallets, challenges, ballots>>

RecordExecution(p, outcome) ==
  /\ p <= Len(proposals)
  /\ proposals[p].state \in {"execution_pending", "disputed"}
  /\ outcome \in proposalMachine[proposals[p].state]
  /\ proposals' = [proposals EXCEPT ![p].state = outcome,
       ![p].executions = Append(@, [from |-> proposals[p].state, outcome |-> outcome])]
  /\ UNCHANGED <<votes, wallets, challenges, ballots>>

-----------------------------------------------------------------------------
(* Wallets.                                                                 *)

Active(v) == {w \in DOMAIN wallets : wallets[w].holder = v /\ wallets[w].disabled = "no"}
activeWallet(v) == IF Active(v) = {} THEN NoWallet ELSE CHOOSE w \in Active(v) : TRUE
ActiveAddress(a) == \E w \in DOMAIN wallets : wallets[w].address = a /\ wallets[w].disabled = "no"

Binding(v) == \E b \in Ballot : ballots[b].op = "bind" /\ ballots[b].voter = v

Without(v) == [u \in DOMAIN challenges \ {v} |-> challenges[u]]

create_wallet_binding_challenge(v, a) ==
  /\ ~Binding(v)
  /\ ~\E w \in Active(v) : wallets[w].address = a
  /\ challenges' = [u \in DOMAIN challenges \cup {v} |->
       IF u = v THEN [address |-> a, replaces |-> activeWallet(v)] ELSE challenges[u]]
  /\ UNCHANGED <<proposals, votes, wallets, ballots>>

\* A key's history: what refuses it to v.
Refused(v, a) ==
  \E w \in DOMAIN wallets :
    /\ wallets[w].address = a
    /\ \/ wallets[w].disabled = "key_compromised"
       \/ wallets[w].disabled # "no" /\ wallets[w].by # wallets[w].holder
       \/ wallets[w].disabled = "key_lost" /\ wallets[w].holder # v

\* Locks the person and the challenge, reads the active wallet and the history of the address.
BindReads(b, v, cause) ==
  /\ ballots[b] = NotCasting
  /\ v \in DOMAIN challenges
  /\ ~Binding(v)
  /\ activeWallet(v) = challenges[v].replaces
  /\ ~Refused(v, challenges[v].address)
  /\ ballots' = [ballots EXCEPT ![b] =
       [op |-> "bind", voter |-> v, address |-> challenges[v].address, cause |-> cause]]
  /\ UNCHANGED <<proposals, votes, wallets, challenges>>

Disabled(w, cause, by) == [wallets EXCEPT ![w].disabled = cause, ![w].by = by]

\* The unique index over active addresses decides between two who bind one address.
bind_wallet_by_proof(b) ==
  LET v == ballots[b].voter
      old == activeWallet(v)
  IN /\ ballots[b].op = "bind"
     /\ Len(wallets) < MaxWallets
     /\ ~ActiveAddress(ballots[b].address)
     /\ wallets' = Append(IF old = NoWallet THEN wallets ELSE Disabled(old, ballots[b].cause, v),
                          [holder |-> v, address |-> ballots[b].address,
                           disabled |-> "no", by |-> "none"])
     /\ challenges' = Without(v)
     /\ ballots' = [ballots EXCEPT ![b] = NotCasting]
     /\ UNCHANGED <<proposals, votes>>

\* Disabling ends the sessions of the holder, and the challenge with them.
DisableWallet(v, cause, by) ==
  /\ ~Binding(v)
  /\ activeWallet(v) # NoWallet
  /\ wallets' = Disabled(activeWallet(v), cause, by)
  /\ challenges' = Without(v)
  /\ UNCHANGED <<proposals, votes, ballots>>

disable_own_wallet(v, cause) == DisableWallet(v, cause, v)
AdminDisablesWallet(v, cause) == DisableWallet(v, cause, "admin")

-----------------------------------------------------------------------------
(* Votes.  A row locked or inserted by one open vote is not free for        *)
(* another; the proposal is read without a lock.                            *)

VoteRowFree(b, p, v) ==
  ~\E c \in Ballot \ {b} : /\ ballots[c].op = "vote" /\ ballots[c].proposal = p
                           /\ ballots[c].voter = v /\ ballots[c].holds

\* The weight comes from the snapshot, pinned by the first vote; without a snapshot, from the body.
ResolvedWeights(p, v) ==
  IF ~OnSnapshot(p) THEN {[weight |-> n, wallet |-> "none"] : n \in ManualWeights}
  ELSE IF votes[p][v] # NoVote
  THEN {[weight |-> votes[p][v].weight, wallet |-> votes[p][v].wallet]}
  ELSE {[weight |-> proposals[p].holdings[wallets[w].address], wallet |-> wallets[w].address] :
          w \in Active(v)}

VoteReads(b, v, p, choice) ==
  /\ ballots[b] = NotCasting
  /\ p <= Len(proposals)
  /\ proposals[p].state = "voting"
  /\ votes[p][v] = NoVote \/ VoteRowFree(b, p, v)
  /\ \E r \in ResolvedWeights(p, v) :
       ballots' = [ballots EXCEPT ![b] =
         [op |-> "vote", voter |-> v, proposal |-> p, choice |-> choice, weight |-> r.weight,
          wallet |-> r.wallet, holds |-> votes[p][v] # NoVote, written |-> FALSE]]
  /\ UNCHANGED <<proposals, votes, wallets, challenges>>

\* Nobody else's vote on the proposal, committed or being written, counts this wallet's balance.
WalletUnused(b) ==
  LET p == ballots[b].proposal
  IN \/ ballots[b].wallet = "none"
     \/ /\ \A u \in Voter \ {ballots[b].voter} : votes[p][u].wallet # ballots[b].wallet
        /\ ~\E c \in Ballot \ {b} : /\ ballots[c].op = "vote" /\ ballots[c].written
                                    /\ ballots[c].proposal = p /\ ballots[c].wallet = ballots[b].wallet

\* The row is inserted, or updated when the person's vote is there by now; its trigger reads the
\* state of the proposal that is committed.
VoteWrites(b) ==
  LET p == ballots[b].proposal
  IN /\ ballots[b].op = "vote" /\ ~ballots[b].written
     /\ VoteRowFree(b, p, ballots[b].voter)
     /\ WalletUnused(b)
     /\ proposals[p].state = "voting"
     /\ ballots' = [ballots EXCEPT ![b].written = TRUE, ![b].holds = TRUE]
     /\ UNCHANGED <<proposals, votes, wallets, challenges>>

\* A vote on a snapshot keeps the wallet and the weight it was first cast with.
Recast_Unpinned(vote, b) ==
  [choice |-> ballots[b].choice, wallet |-> vote.wallet, weight |-> ballots[b].weight]
Recast(vote, b) ==
  [choice |-> ballots[b].choice, wallet |-> vote.wallet,
   weight |-> IF OnSnapshot(ballots[b].proposal) THEN vote.weight ELSE ballots[b].weight]

VoteCommits(b) ==
  LET p == ballots[b].proposal
      v == ballots[b].voter
  IN /\ ballots[b].op = "vote" /\ ballots[b].written
     /\ votes' = [votes EXCEPT ![p][v] =  \* the foreign key waits for who has the proposal locked
          IF @ = NoVote
          THEN [choice |-> ballots[b].choice, weight |-> ballots[b].weight, wallet |-> ballots[b].wallet]
          ELSE Recast(@, b)]
     /\ ballots' = [ballots EXCEPT ![b] = NotCasting]
     /\ UNCHANGED <<proposals, wallets, challenges>>

BallotRollsBack(b) ==
  /\ ballots[b] # NotCasting
  /\ ballots' = [ballots EXCEPT ![b] = NotCasting]
  /\ UNCHANGED <<proposals, votes, wallets, challenges>>

-----------------------------------------------------------------------------
ProposalSteps ==
  \E p \in Proposal :
    \/ CreateProposal(p)
    \/ \E to \in DOMAIN proposalMachine : TransitionProposal(p, to)
    \/ \E outcome \in EXECUTION_OUTCOMES : RecordExecution(p, outcome)

Causes == {"rotation", "key_lost", "key_compromised"}

WalletSteps ==
  \/ \E v \in Voter :
       \/ \E a \in Address : create_wallet_binding_challenge(v, a)
       \/ \E cause \in Causes \cup {"offboarding"} :
            disable_own_wallet(v, cause) \/ AdminDisablesWallet(v, cause)
       \/ \E b \in Ballot, cause \in Causes : BindReads(b, v, cause)
  \/ \E b \in Ballot : bind_wallet_by_proof(b)

VoteSteps ==
  \E b \in Ballot :
    \/ \E v \in Voter, p \in Proposal, choice \in VoteChoices : VoteReads(b, v, p, choice)
    \/ VoteWrites(b)
    \/ VoteCommits(b)
    \/ BallotRollsBack(b)

GovernanceNext == ProposalSteps \/ WalletSteps \/ VoteSteps
GovernanceSpec == GovernanceInit /\ [][GovernanceNext]_governanceVars

-----------------------------------------------------------------------------
(* However wallets change hands and are replaced while people vote and vote *)
(* again, the weight cast on a snapshot never exceeds the supply it is      *)
(* measured against, and every vote weighs the balance of its own wallet:   *)
(* the quorum is a share of what exists (governance.ts, the vote handler;   *)
(* 0130, the pinned weight and the unique weight wallet).                   *)
BalancesCountOnce ==
  \A p \in DOMAIN proposals : OnSnapshot(p) =>
    /\ Participated(p) <= proposals[p].eligible
    /\ \A v \in Voter : votes[p][v] # NoVote =>
         votes[p][v].weight = proposals[p].holdings[votes[p][v].wallet]

(* What 0017 says of votes: after the tally none changes, so counting them  *)
(* again gives the recorded result.                                        *)
TallyStands ==
  \A p \in DOMAIN proposals :
    proposals[p].result # "none" => tallyVotes(p) = proposals[p].result
=============================================================================
