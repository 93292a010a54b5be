------------------------------ MODULE Accounts ------------------------------
(***************************************************************************)
(* The people of a tenant: what two others decide about them (suspension,  *)
(* reset of factors, change of address, roles, elevation), and their own   *)
(* ways in (codes by mail, linked identities, factors).                    *)
(*                                                                         *)
(* Every decision locks the person it is about, FOR UPDATE, and reads each *)
(* actor it names FOR KEY SHARE, the lock of the foreign key; what commits *)
(* in one transaction under those locks is one step.  Four transactions    *)
(* are split where another can come between what they read and what they   *)
(* write: a suspension, the sign-in with a code, the completion of a       *)
(* change of address (its clock is that of its first statement) and the    *)
(* issue of a code (its read of the person is not locked, so it may be as  *)
(* old as one likes).                                                      *)
(*                                                                         *)
(* Abstracted: texts, mail, rate limits, wrong codes, versions of rows (a  *)
(* stale If-Match is refused), projects of a role, the role sets an actor  *)
(* needs, idle and expired sessions, the window of a new account, and the  *)
(* 30 days after which a part in a decision is no longer recent.           *)
(***************************************************************************)
EXTENDS Naturals, Sequences, FiniteSets, FiniteSetsExt

CONSTANTS
  Person,       \* people of the tenant
  MaxRequests,  \* bound: requests in all
  MaxAddress    \* bound: addresses of a person, one after another

VARIABLES
  people,   \* core.subjects with their live identity, factors and role bindings
  requests, \* the request tables of core, in the order of creation
  sessions, \* core.sessions: for each person those not revoked
  codes,    \* core.email_challenges: for each person the addresses with a live sign-in code
  open      \* for each person, the open transactions that hold something of theirs

accountsVars == <<people, requests, sessions, codes, open>>

RecoverySides == {"suspension", "reset", "email"}
NobodyYet == "nobody"
NoSuspension == [request |-> 0, decider |-> NobodyYet, closes |-> {}, at |-> 0]
NothingOpen == [suspension |-> NoSuspension, signing |-> 0, completing |-> 0]

AccountsInit ==
  /\ people = [p \in Person |->
       [suspended |-> FALSE, address |-> 1, identity |-> TRUE, factor |-> TRUE, approver |-> TRUE]]
  /\ requests = <<>>
  /\ sessions = [p \in Person |-> {}]
  /\ codes = [p \in Person |-> {}]
  /\ open = [p \in Person |-> NothingOpen]

\* Time, as far as decisions compare it: later than every time recorded or taken.
Now ==
  LET taken == {requests[i].at : i \in DOMAIN requests}
               \cup UNION {{open[p].suspension.at, open[p].completing} : p \in Person}
  IN 1 + Max(taken \cup {0})

-----------------------------------------------------------------------------
(* Locks.                                                                   *)

Suspending(p) == open[p].suspension # NoSuspension

\* FOR KEY SHARE on a person waits for whoever holds the person FOR UPDATE ...
Shareable(p) == ~Suspending(p)
\* ... and FOR UPDATE for both.
Lockable(p) == Shareable(p) /\ \A q \in Person : open[q].suspension.decider # p

\* The row of a request is free of suspensions.
RowFree(i) ==
  \A p \in Person : i # open[p].suspension.request /\ i \notin open[p].suspension.closes

\* The actor of a request or a decision: read under the lock.
refuse_suspended_actor_Unlocked(p) == ~people[p].suspended
refuse_suspended_actor(p) == Shareable(p) /\ ~people[p].suspended

-----------------------------------------------------------------------------
(* Requests.                                                                *)

Of(kinds, p) == {i \in DOMAIN requests : requests[i].kind \in kinds /\ requests[i].target = p}
InState(S, states) == {i \in S : requests[i].state \in states}

Side(kind) == IF kind \in {"suspend", "reinstate"} THEN "suspension" ELSE kind

Parts(i) == {requests[i].by, requests[i].decider} \ {NobodyYet}

\* A part in a request counts unless people rejected it or it ran out.
Counts(i) == requests[i].state \in {"pending", "approved", "completed"} \/ requests[i].closed

recovery_separation_conflict(p, actor, side) ==
  \E i \in DOMAIN requests :
    /\ requests[i].target = p /\ Side(requests[i].kind) \in RecoverySides \ {side}
    /\ Counts(i)
    /\ actor \in Parts(i)

\* "for" is history: the address the person had when the request opened a window.
Filed(kind, p, by) ==
  Append(requests, [kind |-> kind, target |-> p, by |-> by, decider |-> NobodyYet,
                    state |-> "pending", closed |-> FALSE, window |-> FALSE, at |-> 0, for |-> 0])

\* What every proposal needs and does.
Propose(kind, p, by) ==
  /\ Len(requests) < MaxRequests
  /\ refuse_suspended_actor(by)
  /\ requests' = Filed(kind, p, by)
  /\ UNCHANGED <<people, sessions, codes, open>>

subject_suspension_proposal_guard(action, p, by) ==
  /\ Lockable(p) /\ by # p
  /\ people[p].suspended = (action = "reinstate")
  /\ InState(Of({"suspend", "reinstate"}, p), {"pending"}) = {}
  /\ ~recovery_separation_conflict(p, by, "suspension")
ProposeSuspension(action, p, by) ==
  subject_suspension_proposal_guard(action, p, by) /\ Propose(action, p, by)

mfa_reset_separation_guard(p, by) ==
  /\ Lockable(p)
  /\ ~people[p].suspended
  /\ InState(Of({"reset"}, p), {"pending"}) = {}
  /\ ~recovery_separation_conflict(p, by, "reset")
ProposeReset(p, by) == mfa_reset_separation_guard(p, by) /\ Propose("reset", p, by)

request_email_change(p, by) ==
  /\ Lockable(p) /\ by # p
  /\ ~people[p].suspended
  /\ people[p].address < MaxAddress
  /\ InState(Of({"email"}, p), {"pending", "approved"}) = {}
  /\ ~recovery_separation_conflict(p, by, "email")
  /\ Propose("email", p, by)

\* One open elevation per person: an active one that ran out counts until it is released.
RequestElevation(p) ==
  InState(Of({"elevate"}, p), {"pending", "active"}) = {} /\ Propose("elevate", p, p)

ProposeGrant(p, by) ==
  /\ Shareable(p)
  /\ InState(Of({"grant"}, p), {"pending"}) = {}
  /\ Propose("grant", p, by)

\* The person an invitation is for is nobody of the tenant yet.
create_invitation(by) ==
  InState(Of({"invite"}, NobodyYet), {"pending"}) = {} /\ Propose("invite", NobodyYet, by)

\* Some other approver can still sign in and prove a factor.
assertApproverRemains(p) ==
  \E q \in Person \ {p} : people[q].approver /\ ~people[q].suspended /\ people[q].factor

ProposeRevocation(p, by) ==
  /\ people[p].approver /\ assertApproverRemains(p)
  /\ InState(Of({"revoke"}, p), {"pending"}) = {}
  /\ Propose("revoke", p, by)

-----------------------------------------------------------------------------
(* Decisions.                                                               *)

Pending(i, kinds) ==
  /\ i \in DOMAIN requests /\ requests[i].kind \in kinds
  /\ requests[i].state = "pending" /\ RowFree(i)

Other(i, decider) == decider \notin {requests[i].by, requests[i].target}

Decided(i, state, decider) == [requests EXCEPT ![i].state = state, ![i].decider = decider]
Stamped(r, at) == [r EXCEPT !.at = at]

\* A rejection changes the request only.
Reject(i, decider) ==
  /\ Pending(i, {"suspend", "reinstate", "reset", "email", "elevate", "grant", "revoke"})
  /\ IF requests[i].kind = "revoke" THEN decider # requests[i].by ELSE Other(i, decider)
  /\ requests[i].kind \in {"suspend", "reinstate", "reset", "email"} => Lockable(requests[i].target)
  /\ refuse_suspended_actor(decider)
  /\ requests' = Decided(i, "rejected", decider)
  /\ UNCHANGED <<people, sessions, codes, open>>

NoConflict_OfProposer(i, decider) ==
  ~recovery_separation_conflict(requests[i].target, requests[i].by, Side(requests[i].kind))
NoConflict(i, decider) ==
  \A actor \in {requests[i].by, decider} :
    ~recovery_separation_conflict(requests[i].target, actor, Side(requests[i].kind))

Approvable(i, kind, decider) ==
  /\ Pending(i, {kind}) /\ Other(i, decider)
  /\ Lockable(requests[i].target)
  /\ refuse_suspended_actor(decider)
  /\ NoConflict(i, decider)

\* end_subject_elevations
ActiveElevations(p) == {i \in InState(Of({"elevate"}, p), {"active"}) : requests[i].window}
Released(R, p) ==
  [i \in DOMAIN R |-> IF i \in ActiveElevations(p) THEN [R[i] EXCEPT !.state = "released", !.window = FALSE]
                      ELSE R[i]]

decide_mfa_reset(i, decider) ==
  LET p == requests[i].target
  IN /\ Approvable(i, "reset", decider)
     /\ ~people[p].suspended
     /\ requests' = Released([Decided(i, "approved", decider) EXCEPT
          ![i].window = TRUE, ![i].at = Now, ![i].for = people[p].address], p)
     /\ people' = [people EXCEPT ![p].factor = FALSE, ![p].identity = FALSE]
     /\ sessions' = [sessions EXCEPT ![p] = {}]
     /\ UNCHANGED <<codes, open>>

decide_email_change(i, decider) ==
  /\ Approvable(i, "email", decider)
  /\ ~people[requests[i].target].suspended
  /\ requests' = Decided(i, "approved", decider)
  /\ UNCHANGED <<people, sessions, codes, open>>

\* The first statement of the completion takes the time; nothing is locked yet.
CompletionBegins(p) ==
  /\ open[p].completing = 0
  /\ InState(Of({"email"}, p), {"approved"}) # {}
  /\ open' = [open EXCEPT ![p].completing = Now]
  /\ UNCHANGED <<people, requests, sessions, codes>>

complete_email_change_CodeKept(p, i) ==
  /\ open[p].completing # 0
  /\ i \in InState(Of({"email"}, p), {"approved"}) /\ RowFree(i)
  /\ Lockable(p) /\ ~people[p].suspended
  /\ requests' = [requests EXCEPT ![i].state = "completed", ![i].at = open[p].completing]
  /\ people' = [people EXCEPT ![p].address = @ + 1, ![p].identity = FALSE]
  /\ sessions' = [sessions EXCEPT ![p] = {}]
  /\ open' = [open EXCEPT ![p].completing = 0]
  /\ UNCHANGED <<codes>>
complete_email_change(p, i) ==
  /\ open[p].completing # 0
  /\ i \in InState(Of({"email"}, p), {"approved"}) /\ RowFree(i)
  /\ Lockable(p) /\ ~people[p].suspended
  /\ open[p].signing # people[p].address  \* superseding the old code waits for who consumes it
  /\ requests' = [requests EXCEPT ![i].state = "completed", ![i].at = open[p].completing]
  /\ people' = [people EXCEPT ![p].address = @ + 1, ![p].identity = FALSE]
  /\ sessions' = [sessions EXCEPT ![p] = {}]
  /\ codes' = [codes EXCEPT ![p] = @ \ {people[p].address}]
  /\ open' = [open EXCEPT ![p].completing = 0]

CompletionRefused(p) ==
  /\ open[p].completing # 0
  /\ open' = [open EXCEPT ![p].completing = 0]
  /\ UNCHANGED <<people, requests, sessions, codes>>

reinstate(i, decider) ==
  LET p == requests[i].target
  IN /\ Approvable(i, "reinstate", decider)
     /\ people[p].suspended
     /\ requests' = [Decided(i, "approved", decider) EXCEPT
          ![i].window = TRUE, ![i].at = Now, ![i].for = people[p].address]
     /\ people' = [people EXCEPT ![p].suspended = FALSE]
     /\ UNCHANGED <<sessions, codes, open>>

-----------------------------------------------------------------------------
(* A suspension closes, statement by statement, what the person proposed,   *)
(* is the subject of, or approved and has not taken effect.                 *)

ToClose(p) ==
  {i \in DOMAIN requests :
     LET r == requests[i] IN
       \/ r.state = "pending" /\ (r.by = p \/ (r.target = p /\ r.kind \in {"email", "reset"}))
       \/ r.kind = "email" /\ r.state = "approved" /\ p \in {r.target} \cup Parts(i)
       \/ r.kind = "reset" /\ r.state = "approved" /\ r.window /\ ~r.closed /\ r.decider = p}

ClosedAs(r) ==
  CASE r.kind \in {"email", "invite"} -> [r EXCEPT !.state = "expired", !.closed = TRUE]
    [] r.kind \in {"grant", "revoke"} -> [r EXCEPT !.state = "withdrawn", !.closed = TRUE]
    [] r.kind = "reset" /\ r.state = "approved" -> [r EXCEPT !.closed = TRUE]
    [] OTHER -> [r EXCEPT !.state = "rejected", !.closed = TRUE]

SuspensionCloses(i, decider) ==
  LET p == requests[i].target
  IN /\ Approvable(i, "suspend", decider)
     /\ ~people[p].suspended
     /\ \A c \in ToClose(p) \ {i} : RowFree(c)
     /\ open' = [open EXCEPT ![p].suspension =
          [request |-> i, decider |-> decider, closes |-> ToClose(p) \ {i}, at |-> Now]]
     /\ UNCHANGED <<people, requests, sessions, codes>>

\* What is left ends, elevations approved until now included, and the suspension commits.
decide_subject_suspension(p) ==
  LET s == open[p].suspension
  IN /\ Suspending(p)
     /\ open[p].signing # people[p].address
     /\ requests' = Released([j \in DOMAIN requests |->
          IF j = s.request THEN Stamped([requests[j] EXCEPT !.state = "approved", !.decider = s.decider], s.at)
          ELSE IF j \in s.closes THEN ClosedAs(requests[j]) ELSE requests[j]], p)
     /\ people' = [people EXCEPT ![p].suspended = TRUE, ![p].factor = FALSE, ![p].identity = FALSE]
     /\ sessions' = [sessions EXCEPT ![p] = {}]
     /\ codes' = [codes EXCEPT ![p] = @ \ {people[p].address}]
     /\ open' = [open EXCEPT ![p].suspension = NoSuspension]

SuspensionRollsBack(p) ==
  /\ Suspending(p)
  /\ open' = [open EXCEPT ![p].suspension = NoSuspension]
  /\ UNCHANGED <<people, requests, sessions, codes>>

-----------------------------------------------------------------------------
(* Elevations, roles and invitations.                                       *)

ApproveElevation(i, decider) ==
  /\ Pending(i, {"elevate"}) /\ Other(i, decider)
  /\ refuse_suspended_actor(decider)
  /\ requests' = [Decided(i, "active", decider) EXCEPT ![i].window = TRUE]
  /\ UNCHANGED <<people, sessions, codes, open>>

ReleaseElevation(i, by) ==
  /\ i \in DOMAIN requests /\ requests[i].kind = "elevate" /\ requests[i].state = "active"
  /\ RowFree(i)
  /\ by # requests[i].target /\ refuse_suspended_actor(by)
  /\ requests' = [requests EXCEPT ![i].state = "released", ![i].window = FALSE]
  /\ UNCHANGED <<people, sessions, codes, open>>

QuarantineAccess(p, by) ==
  /\ by # p /\ ActiveElevations(by) # {}
  /\ people' = [people EXCEPT ![p].approver = FALSE]
  /\ UNCHANGED <<requests, sessions, codes, open>>

ApproveGrant(i, decider) ==
  /\ Pending(i, {"grant"}) /\ Other(i, decider)
  /\ refuse_suspended_actor(decider) /\ Shareable(requests[i].target)
  /\ requests' = Decided(i, "approved", decider)
  /\ people' = [people EXCEPT ![requests[i].target].approver = TRUE]
  /\ UNCHANGED <<sessions, codes, open>>

ApproveRevocation(i, decider) ==
  LET p == requests[i].target
  IN /\ Pending(i, {"revoke"}) /\ decider # requests[i].by
     /\ people[p].approver /\ assertApproverRemains(p)
     /\ refuse_suspended_actor(decider)
     /\ requests' = Decided(i, "approved", decider)
     /\ people' = [people EXCEPT ![p].approver = FALSE]
     /\ UNCHANGED <<sessions, codes, open>>

InvitationEnds(i, state) ==
  /\ Pending(i, {"invite"})
  /\ requests' = [requests EXCEPT ![i].state = state]
  /\ UNCHANGED <<people, sessions, codes, open>>
revoke_invitation(i) == InvitationEnds(i, "revoked")
accept_invitation(i) == InvitationEnds(i, "completed")

\* 24 hours of a window, the expiry of an elevation, 72 hours of an approved change of address.
WindowLapses(i) ==
  /\ i \in DOMAIN requests /\ requests[i].window /\ RowFree(i)
  /\ requests' = [requests EXCEPT ![i].window = FALSE]
  /\ UNCHANGED <<people, sessions, codes, open>>
ApprovedAddressLapses(i) ==
  /\ i \in DOMAIN requests /\ requests[i].kind = "email" /\ requests[i].state = "approved" /\ RowFree(i)
  /\ requests' = [requests EXCEPT ![i].state = "expired"]
  /\ UNCHANGED <<people, sessions, codes, open>>

-----------------------------------------------------------------------------
(* Ways in.                                                                 *)

\* The latest of the suspensions and changes of address of a person, by their stamps.
Barrier(p) ==
  LET done == InState(Of({"suspend"}, p), {"approved"}) \cup InState(Of({"email"}, p), {"completed"})
      stamps == {requests[i].at : i \in done} \cup {0}
  IN Max(stamps)

\* The requests that keep the window to enrol factors open.
mfa_reset_window_open(p) ==
  {i \in InState(Of({"reset", "reinstate"}, p), {"approved"}) :
     requests[i].window /\ ~requests[i].closed /\ requests[i].at > Barrier(p)}

\* Inserting the code waits for the person; the address was read before that, without a lock.
start_email_challenge(p) ==
  /\ Shareable(p)
  /\ \E a \in 1..people[p].address :
       /\ open[p].signing # a
       /\ codes' = [codes EXCEPT ![p] = @ \cup {a}]
  /\ UNCHANGED <<people, requests, sessions, open>>

\* The code is consumed under its row lock, then the person is read without one.
CodeConsumed(p, a) ==
  /\ a \in codes[p] /\ open[p].signing = 0
  /\ IF a = people[p].address /\ ~people[p].suspended
     THEN open' = [open EXCEPT ![p].signing = a] /\ UNCHANGED codes
     ELSE codes' = [codes EXCEPT ![p] = @ \ {a}] /\ UNCHANGED open
  /\ UNCHANGED <<people, requests, sessions>>

verify_sign_in_code(p) ==
  /\ open[p].signing # 0
  /\ Shareable(p) /\ ~people[p].suspended
  /\ sessions' = [sessions EXCEPT ![p] = @ \cup {[via |-> "code", address |-> open[p].signing]}]
  /\ codes' = [codes EXCEPT ![p] = @ \ {open[p].signing}]
  /\ open' = [open EXCEPT ![p].signing = 0]
  /\ UNCHANGED <<people, requests>>

SigningRollsBack(p) ==
  /\ open[p].signing # 0
  /\ open' = [open EXCEPT ![p].signing = 0]
  /\ UNCHANGED <<people, requests, sessions, codes>>

complete_oidc_sign_in(p) ==
  /\ Shareable(p) /\ people[p].identity /\ ~people[p].suspended
  /\ sessions' = [sessions EXCEPT ![p] = @ \cup {[via |-> "identity", address |-> people[p].address]}]
  /\ UNCHANGED <<people, requests, codes, open>>

\* Whoever is signed in without a factor enrols one while a window is open.
EnrolFactor(p) ==
  /\ sessions[p] # {} /\ Lockable(p)
  /\ ~people[p].factor /\ mfa_reset_window_open(p) # {}
  /\ people' = [people EXCEPT ![p].factor = TRUE]
  /\ UNCHANGED <<requests, sessions, codes, open>>

complete_oidc_link(p) ==
  /\ sessions[p] # {} /\ Lockable(p) /\ people[p].factor /\ ~people[p].identity
  /\ people' = [people EXCEPT ![p].identity = TRUE]
  /\ UNCHANGED <<requests, sessions, codes, open>>

unlink_external_identity(p) ==
  /\ sessions[p] # {} /\ Lockable(p) /\ people[p].factor /\ people[p].identity
  /\ people' = [people EXCEPT ![p].identity = FALSE]
  /\ sessions' = [sessions EXCEPT ![p] = {s \in @ : s.via # "identity"}]
  /\ UNCHANGED <<requests, codes, open>>

-----------------------------------------------------------------------------
SuspensionSteps ==
  \/ \E p, by \in Person, action \in {"suspend", "reinstate"} : ProposeSuspension(action, p, by)
  \/ \E i \in 1..MaxRequests, decider \in Person :
       Reject(i, decider) \/ reinstate(i, decider) \/ SuspensionCloses(i, decider)
  \/ \E p \in Person : decide_subject_suspension(p) \/ SuspensionRollsBack(p)
  \/ \E i \in 1..MaxRequests : WindowLapses(i)

RecoverySteps ==
  \/ \E p, by \in Person : ProposeReset(p, by) \/ request_email_change(p, by)
  \/ \E i \in 1..MaxRequests, decider \in Person :
       decide_mfa_reset(i, decider) \/ decide_email_change(i, decider)
  \/ \E p \in Person :
       \/ CompletionBegins(p) \/ CompletionRefused(p)
       \/ \E i \in 1..MaxRequests : complete_email_change(p, i)
  \/ \E i \in 1..MaxRequests : ApprovedAddressLapses(i)

AuthoritySteps ==
  \/ \E p \in Person : RequestElevation(p) \/ create_invitation(p)
  \/ \E p, by \in Person :
       ProposeGrant(p, by) \/ ProposeRevocation(p, by) \/ QuarantineAccess(p, by)
  \/ \E i \in 1..MaxRequests, by \in Person :
       \/ ApproveElevation(i, by) \/ ReleaseElevation(i, by)
       \/ ApproveGrant(i, by) \/ ApproveRevocation(i, by)
  \/ \E i \in 1..MaxRequests : revoke_invitation(i) \/ accept_invitation(i)

SignInSteps ==
  \E p \in Person :
    \/ start_email_challenge(p)
    \/ \E a \in 1..MaxAddress : CodeConsumed(p, a)
    \/ verify_sign_in_code(p) \/ SigningRollsBack(p)
    \/ complete_oidc_sign_in(p) \/ EnrolFactor(p)
    \/ complete_oidc_link(p) \/ unlink_external_identity(p)

AccountsNext == SuspensionSteps \/ RecoverySteps \/ AuthoritySteps \/ SignInSteps

AccountsSpec == AccountsInit /\ [][AccountsNext]_accountsVars

-----------------------------------------------------------------------------
(* The word of a suspended person counts nowhere: nothing they proposed     *)
(* waits for a decision, nothing they approved can still take effect, they  *)
(* hold no elevation and no sign-in, however the suspension interleaves     *)
(* with what they and others decide (decide_subject_suspension and the      *)
(* actor guard of 0128 and 0133).                                           *)
SuspendedHasNoSay ==
  \A p \in Person : people[p].suspended =>
    /\ \A i \in DOMAIN requests : LET r == requests[i] IN
         /\ r.by = p => r.state # "pending"
         /\ r.kind = "email" /\ p \in {r.target} \cup Parts(i) => r.state # "approved"
         /\ r.kind = "reset" /\ r.decider = p => ~(r.window /\ ~r.closed)
         /\ r.kind = "elevate" /\ r.target = p => ~(r.state = "active" /\ r.window)
    /\ sessions[p] = {} /\ ~people[p].identity

(* Nobody takes part in two of the three recovery flows of one person:      *)
(* suspending, resetting the factors and changing the address need          *)
(* different people (recovery_separation_conflict, 0118 and 0128).          *)
SidesApart ==
  \A i, j \in DOMAIN requests :
    (/\ requests[i].target = requests[j].target
     /\ {Side(requests[i].kind), Side(requests[j].kind)} \subseteq RecoverySides
     /\ Side(requests[i].kind) # Side(requests[j].kind)
     /\ Counts(i) /\ Counts(j)) => Parts(i) \cap Parts(j) = {}

(* Taken together: authority over people ends and is divided as promised.  *)
AuthorityStands == SuspendedHasNoSay /\ SidesApart

(* A session by a code stands on the address the person has now: one that   *)
(* the old mailbox opened does not outlive the change of address, and none  *)
(* outlives a suspension, whatever a sign-in under way has read before      *)
(* (verify_sign_in_code, complete_email_change).                            *)
SessionsStand ==
  \A p \in Person : \A s \in sessions[p] :
    ~people[p].suspended /\ (s.via = "code" => s.address = people[p].address)
=============================================================================
