--------------------------- MODULE ExternalSignIn ---------------------------
(***************************************************************************)
(* Signing in with an account at a provider: the flow a browser is sent    *)
(* off with, its callback, and what a verified account may do: sign in,    *)
(* be linked to the person of a session, or accept an invitation.          *)
(*                                                                         *)
(* A callback claims its flow in one transaction, has the provider vouch   *)
(* for an account outside any, and completes the flow in a second one.     *)
(* Starting, claiming, linking, accepting and unlinking read what they     *)
(* decide on under locks and are steps; a sign-in has two, because it      *)
(* reads the identity without a lock to know which person to lock first.   *)
(*                                                                         *)
(* Abstracted: secrets, nonces and tokens (an answer is verified or the    *)
(* callback fails), rate limits, audit, mail; clocks are what they end.    *)
(* Everyone has an address, so nothing linked is the last way in.          *)
(***************************************************************************)
EXTENDS Naturals, Sequences, FiniteSets

CONSTANTS
  Holder,        \* people; those of Invited join with an invitation each
  Invited,
  Account,       \* accounts at the providers
  ProviderOf,    \* the provider of each
  Callback,      \* callbacks served at once
  MaxFlows, MaxEntries, MaxIdentities \* bounds: rows in all

ASSUME InvitedAssumption == Invited \subseteq Holder

VARIABLES
  holders,     \* core.subjects: there or not, suspended or not
  invitations, \* core.invitations: pending, accepted or closed, and whether the address is taken
  identities,  \* core.external_identities
  entries,     \* core.sessions, with the flow that proves each
  flows,       \* core.oidc_login_transactions
  callbacks    \* the callbacks being served: what each knows

signInVars == <<holders, invitations, identities, entries, flows, callbacks>>

NoHolder == "nobody"
NotServing == [step |-> "none", flow |-> 0]
Providers == {ProviderOf[a] : a \in Account}

ExternalInit ==
  /\ holders = [h \in Holder |-> [there |-> h \notin Invited, suspended |-> FALSE]]
  /\ invitations = [h \in Invited |-> [state |-> "pending", taken |-> FALSE]]
  /\ identities = <<>> /\ entries = <<>> /\ flows = <<>>
  /\ callbacks = [c \in Callback |-> NotServing]

-----------------------------------------------------------------------------
(* Sessions, identities and locks.                                         *)

LiveAt(a) == {i \in DOMAIN identities : identities[i].account = a /\ identities[i].live}
LiveOf(h) == {i \in DOMAIN identities : identities[i].holder = h /\ identities[i].live}

\* resolve_session serves a live session, and not on an identity that is gone.
Authenticated(e) ==
  /\ entries[e].live
  /\ entries[e].flow # 0 => identities[flows[entries[e].flow].identity].live

\* Past a second factor, and not by a recovery code.
AtAal2(e) == Authenticated(e) /\ entries[e].second

Revoked(S) == [i \in DOMAIN identities |->
                 IF i \in S THEN [identities[i] EXCEPT !.live = FALSE] ELSE identities[i]]
Ended(S) == [e \in DOMAIN entries |->
               IF e \in S THEN [entries[e] EXCEPT !.live = FALSE] ELSE entries[e]]
EntriesOf(h) == {e \in DOMAIN entries : entries[e].holder = h}
EntriesBy(i) == {e \in DOMAIN entries : entries[e].flow # 0 /\ flows[entries[e].flow].identity = i}

insert_oidc_session(h, f) ==
  /\ Len(entries) < MaxEntries
  /\ entries' = Append(entries, [holder |-> h, flow |-> f, live |-> TRUE, second |-> FALSE])

InsertIdentity(h, a, f) ==
  /\ Len(identities) < MaxIdentities
  /\ identities' = Append(identities, [holder |-> h, account |-> a, live |-> TRUE, flow |-> f])

-----------------------------------------------------------------------------
(* Flows.                                                                  *)

\* A sign-in names nothing, a link the session that asks for it, an acceptance an invitation.
start_oidc_transaction(provider, purpose, e, h) ==
  /\ Len(flows) < MaxFlows
  /\ CASE purpose = "sign_in" -> e = 0 /\ h = NoHolder
       [] purpose = "link" -> h = NoHolder /\ e \in DOMAIN entries /\ AtAal2(e)
       [] OTHER -> e = 0 /\ h \in Invited /\ invitations[h].state = "pending"
  /\ flows' = Append(flows, [provider |-> provider, purpose |-> purpose, entry |-> e, invitation |-> h,
                             state |-> "started", outcome |-> "none", identity |-> 0])
  /\ UNCHANGED <<holders, invitations, identities, entries, callbacks>>

\* Ten minutes after the start, five after the claim.
FlowLapses(f) ==
  /\ flows[f].state \in {"started", "claimed"}
  /\ flows' = [flows EXCEPT ![f].state = "lapsed"]
  /\ UNCHANGED <<holders, invitations, identities, entries, callbacks>>

\* A day after the start, when no session names it.
purge_oidc_records ==
  /\ \E f \in DOMAIN flows : flows[f].state \in {"lapsed", "completed"}
                             /\ \A e \in DOMAIN entries : entries[e].flow # f
  /\ flows' = [f \in DOMAIN flows |->
                 IF flows[f].state \in {"lapsed", "completed"} /\ \A e \in DOMAIN entries : entries[e].flow # f
                 THEN [flows[f] EXCEPT !.state = "purged"] ELSE flows[f]]
  /\ UNCHANGED <<holders, invitations, identities, entries, callbacks>>

\* Once, by the browser that started it, at the provider it was started for, and a link on its session.
claim_oidc_transaction(c, f, provider, e) ==
  /\ callbacks[c] = NotServing
  /\ e # 0 => Authenticated(e)
  /\ flows[f].state = "started"
  /\ flows[f].provider = provider /\ flows[f].entry = e
  /\ flows' = [flows EXCEPT ![f].state = "claimed"]
  /\ callbacks' = [callbacks EXCEPT ![c] = [step |-> "claimed", flow |-> f]]
  /\ UNCHANGED <<holders, invitations, identities, entries>>

\* The provider vouches for an account, and perhaps for the invited address.
VerifyAccount(c, a, vouched) ==
  /\ callbacks[c].step = "claimed"
  /\ ProviderOf[a] = flows[callbacks[c].flow].provider
  /\ callbacks' = [callbacks EXCEPT ![c] = [step |-> "verified", flow |-> callbacks[c].flow,
                                            account |-> a, vouched |-> vouched]]
  /\ UNCHANGED <<holders, invitations, identities, entries, flows>>

\* The provider refuses, the token does not verify, the process dies, a transaction rolls back.
CallbackFails(c) ==
  /\ callbacks[c] # NotServing
  /\ callbacks' = [callbacks EXCEPT ![c] = NotServing]
  /\ UNCHANGED <<holders, invitations, identities, entries, flows>>

\* oidc_lock_claimed: the flow is of the purpose, claimed a moment ago and not completed.
Completing(c, step, purpose) ==
  /\ callbacks[c].step = step
  /\ flows[callbacks[c].flow].purpose = purpose
  /\ flows[callbacks[c].flow].state = "claimed"

oidc_complete(c, outcome, i) ==
  /\ LET f == callbacks[c].flow
     IN flows' = [flows EXCEPT ![f].state = "completed", ![f].outcome = outcome, ![f].identity = i]
  /\ callbacks' = [callbacks EXCEPT ![c] = NotServing]

CompleteWithout(c, outcome) ==
  oidc_complete(c, outcome, 0) /\ UNCHANGED <<holders, identities, entries>>

-----------------------------------------------------------------------------
(* Sign-in: whose identity it is, read unlocked; then the person, then it. *)

SignInFinds(c) ==
  /\ Completing(c, "verified", "sign_in")
  /\ callbacks' = [callbacks EXCEPT ![c] = [step |-> "found", flow |-> callbacks[c].flow,
                      account |-> callbacks[c].account, found |-> LiveAt(callbacks[c].account)]]
  /\ UNCHANGED <<holders, invitations, identities, entries, flows>>

\* The identity that is live now, of a person who is not suspended.
FoundIdentity_Unlocked(c) == callbacks[c].found
FoundIdentity(c) ==
  {i \in LiveAt(callbacks[c].account) : ~holders[identities[i].holder].suspended}

SignsIn(c) ==
  /\ Completing(c, "found", "sign_in")
  /\ \/ /\ FoundIdentity(c) = {}
        /\ CompleteWithout(c, "not_found")
     \/ \E i \in FoundIdentity(c) :
          /\ oidc_complete(c, "session", i)
          /\ insert_oidc_session(identities[i].holder, callbacks[c].flow)
          /\ UNCHANGED <<holders, identities>>
  /\ UNCHANGED invitations

-----------------------------------------------------------------------------
(* Link and unlink.                                                        *)

\* Live with anyone, or another of the provider with this person.
LinkRefused(h, a) ==
  LiveAt(a) # {} \/ \E i \in LiveOf(h) : ProviderOf[identities[i].account] = ProviderOf[a]

\* The session is checked again: it may have ended, or be another kind, since the start.
Links(c) ==
  LET f == callbacks[c].flow  e == flows[f].entry  h == entries[e].holder  a == callbacks[c].account IN
  /\ Completing(c, "verified", "link")
  /\ entries[e].live
  /\ IF ~entries[e].second THEN CompleteWithout(c, "step_up_required")
     ELSE IF LinkRefused(h, a) THEN CompleteWithout(c, "unavailable")
     ELSE /\ InsertIdentity(h, a, f)
          /\ oidc_complete(c, "linked", Len(identities) + 1)
          /\ UNCHANGED <<holders, entries>>
  /\ UNCHANGED invitations

\* Ends the sessions the identity opened, this one too if it is one of them.
Unlinks(e, i) ==
  LET h == entries[e].holder IN
  /\ AtAal2(e)
  /\ i \in LiveOf(h)
  /\ identities' = Revoked({i})
  /\ entries' = Ended(EntriesBy(i))
  /\ UNCHANGED <<holders, invitations, flows, callbacks>>

-----------------------------------------------------------------------------
(* Invitations.                                                            *)

Joins(h) ==
  /\ holders' = [holders EXCEPT ![h].there = TRUE]
  /\ invitations' = [invitations EXCEPT ![h].state = "accepted"]

AcceptsInvitation(c) ==
  LET f == callbacks[c].flow  h == flows[f].invitation  a == callbacks[c].account IN
  /\ Completing(c, "verified", "invitation_accept")
  /\ IF invitations[h].state # "pending"
     THEN CompleteWithout(c, "invitation_invalid") /\ UNCHANGED invitations
     ELSE IF ~callbacks[c].vouched
     THEN CompleteWithout(c, "email_mismatch") /\ UNCHANGED invitations
     ELSE IF LiveAt(a) # {}
     THEN CompleteWithout(c, "identity_unavailable") /\ UNCHANGED invitations
     ELSE IF invitations[h].taken
     THEN /\ CompleteWithout(c, "email_unavailable")
          /\ invitations' = [invitations EXCEPT ![h].state = "closed"]
     ELSE /\ Joins(h)
          /\ InsertIdentity(h, a, f)
          /\ oidc_complete(c, "session", Len(identities) + 1)
          /\ insert_oidc_session(h, f)

\* accept_invitation: with the code mailed to the address instead.
AcceptsWithCode(h) ==
  /\ invitations[h] = [state |-> "pending", taken |-> FALSE]
  /\ Joins(h)
  /\ insert_oidc_session(h, 0)
  /\ UNCHANGED <<identities, flows, callbacks>>

\* Someone takes the invited address; the invitation is revoked or runs out.
AddressTaken(h) ==
  /\ invitations[h] = [state |-> "pending", taken |-> FALSE]
  /\ invitations' = [invitations EXCEPT ![h].taken = TRUE]
  /\ UNCHANGED <<holders, identities, entries, flows, callbacks>>

InvitationCloses(h) ==
  /\ invitations[h].state = "pending"
  /\ invitations' = [invitations EXCEPT ![h].state = "closed"]
  /\ UNCHANGED <<holders, identities, entries, flows, callbacks>>

-----------------------------------------------------------------------------
(* What happens to people and sessions elsewhere.                          *)

SignsInByCode(h) ==
  /\ holders[h] = [there |-> TRUE, suspended |-> FALSE]
  /\ insert_oidc_session(h, 0)
  /\ UNCHANGED <<holders, invitations, identities, flows, callbacks>>

StepsUp(e) ==
  /\ Authenticated(e) /\ ~entries[e].second
  /\ entries' = [entries EXCEPT ![e].second = TRUE]
  /\ UNCHANGED <<holders, invitations, identities, flows, callbacks>>

EntryEnds(e) ==
  /\ entries[e].live
  /\ entries' = Ended({e})
  /\ UNCHANGED <<holders, invitations, identities, flows, callbacks>>

\* A suspension, a reset of factors and a change of address end every session and identity.
LosesAll(h, suspended) ==
  /\ holders[h].there
  /\ holders' = [holders EXCEPT ![h].suspended = suspended]
  /\ identities' = Revoked(LiveOf(h))
  /\ entries' = Ended(EntriesOf(h))
  /\ UNCHANGED <<invitations, flows, callbacks>>

-----------------------------------------------------------------------------
ExternalNext ==
  \/ \E provider \in Providers :
       \/ \E purpose \in {"sign_in", "link", "invitation_accept"}, e \in 0 .. Len(entries),
             h \in Invited \cup {NoHolder} : start_oidc_transaction(provider, purpose, e, h)
       \/ \E c \in Callback, f \in DOMAIN flows, e \in 0 .. Len(entries) :
            claim_oidc_transaction(c, f, provider, e)
  \/ \E f \in DOMAIN flows : FlowLapses(f)
  \/ purge_oidc_records
  \/ \E c \in Callback :
       \/ \E a \in Account, vouched \in BOOLEAN : VerifyAccount(c, a, vouched)
       \/ CallbackFails(c) \/ SignInFinds(c) \/ SignsIn(c) \/ Links(c) \/ AcceptsInvitation(c)
  \/ \E e \in DOMAIN entries :
       \/ StepsUp(e) \/ EntryEnds(e)
       \/ \E i \in DOMAIN identities : Unlinks(e, i)
  \/ \E h \in Invited : AcceptsWithCode(h) \/ AddressTaken(h) \/ InvitationCloses(h)
  \/ \E h \in Holder : \/ SignsInByCode(h)
                       \/ \E suspended \in BOOLEAN : LosesAll(h, suspended)

ExternalSpec == ExternalInit /\ [][ExternalNext]_signInVars

-----------------------------------------------------------------------------
(* What must hold.                                                         *)

ExternalTypeOK ==
  /\ \A h \in Holder : holders[h].there \in BOOLEAN
  /\ \A f \in DOMAIN flows : flows[f].state \in {"started", "claimed", "completed", "lapsed", "purged"}
  /\ DOMAIN callbacks = Callback

\* An account at a provider is one person's at a time, and a person has one at a provider.
OneHolderEach ==
  \A i, j \in DOMAIN identities : i # j /\ identities[i].live /\ identities[j].live =>
    /\ identities[i].account # identities[j].account
    /\ identities[i].holder = identities[j].holder =>
         ProviderOf[identities[i].account] # ProviderOf[identities[j].account]

\* A session opened with an account is its holder's, and ends with what opened it: with the
\* identity and with a suspension, whatever the sign-in read before them.
EntriesRestOnIdentities ==
  \A e \in DOMAIN entries :
    /\ entries[e].live => ~holders[entries[e].holder].suspended
    /\ entries[e].flow # 0 => LET i == flows[entries[e].flow].identity IN
         /\ identities[i].holder = entries[e].holder
         /\ entries[e].live => identities[i].live

\* A flow opens one session or links one account, to the person who started it or was invited.
FlowsUsedOnce ==
  /\ \A e, d \in DOMAIN entries : entries[e].flow = entries[d].flow /\ entries[e].flow # 0 => e = d
  /\ \A i, j \in DOMAIN identities : identities[i].flow = identities[j].flow => i = j
  /\ \A i \in DOMAIN identities : LET f == flows[identities[i].flow] IN
       identities[i].holder = IF f.purpose = "link" THEN entries[f.entry].holder ELSE f.invitation

\* An invitation makes its person once, however many flows and codes are out for it.
InvitedOnce ==
  \A h \in Invited :
    /\ holders[h].there <=> invitations[h].state = "accepted"
    /\ Cardinality({i \in DOMAIN identities : identities[i].holder = h
                     /\ flows[identities[i].flow].purpose = "invitation_accept"}) <= 1

SignInsHold ==
  ExternalTypeOK /\ OneHolderEach /\ EntriesRestOnIdentities /\ FlowsUsedOnce /\ InvitedOnce
=============================================================================
