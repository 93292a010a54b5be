--------------------------- MODULE SecondFactors ---------------------------
(***************************************************************************)
(* The second factors of one person: passkeys, an authenticator app and    *)
(* recovery codes, the sessions they raise, and who may add or remove one. *)
(*                                                                         *)
(* Every function of the database locks the person, then the session, and  *)
(* is one step.  A check of a passkey or of a code takes two requests to   *)
(* the database: what the answer is checked against is read (or an attempt *)
(* counted) and committed first, and the result is handed over later, when *)
(* the person's other requests may have changed everything.                *)
(*                                                                         *)
(* Abstracted: keys, secrets and signatures (an answer is right or the     *)
(* request ends), names of passkeys, notices, the cap on requests.  Time   *)
(* is what it ends: a challenge, a setup, a window, a session.             *)
(***************************************************************************)
EXTENDS Naturals, Sequences, FiniteSets

CONSTANTS
  Checking,       \* checks of an answer under way at once
  MaxSessions, MaxPasskeys, MaxTotps, MaxChallenges, MaxSets, \* bounds: rows in all
  MaxStep,        \* bound: time steps of codes
  MaxCount,       \* bound: signature counters of passkeys
  CodesInSet,     \* recovery codes in a set (ten)
  AttemptCap      \* attempts at codes in a window (five)

ASSUME FactorAssumption ==
  MaxSets \in Nat /\ MaxStep \in Nat /\ MaxCount \in Nat /\ CodesInSet \in Nat /\ AttemptCap \in Nat \ {0}

VARIABLES
  ways,       \* core.sessions: live or not, the proof they stand on, limited by recovery or not
  passkeys,   \* core.webauthn_credentials
  totps,      \* core.totp_authenticators
  recovery,   \* core.recovery_codes that can be used, and the sets made so far
  ceremonies, \* core.webauthn_challenges
  proofs,     \* core.session_factor_proofs
  window,     \* a window of first enrolment is open
  checks      \* the checks under way: what each has read

factorVars == <<ways, passkeys, totps, recovery, ceremonies, proofs, window, checks>>

NoProof == [factor |-> "none", id |-> 0, mark |-> 0]
Idle == [op |-> "none", way |-> 0]

FactorInit ==
  /\ ways = <<>> /\ passkeys = <<>> /\ totps = <<>> /\ ceremonies = <<>> /\ proofs = <<>>
  /\ recovery = [usable |-> {}, sets |-> 0]
  /\ window = TRUE
  /\ checks = [c \in Checking |-> Idle]

-----------------------------------------------------------------------------
(* Sessions and what they may do.                                          *)

mfa_has_passkey == \E k \in DOMAIN passkeys : passkeys[k].active
mfa_has_totp == \E t \in DOMAIN totps : totps[t].state = "active"

\* What a session proved second; a proof of a code of recovery limits it.
SecondFactor(w) == ways[w].proof.factor
Limited(w) == SecondFactor(w) = "recovery_code"

mfa_session_rank(w) == CASE SecondFactor(w) = "passkey" -> 3 [] SecondFactor(w) = "none" -> 1 [] OTHER -> 2

mfa_enrolment_verdict(w, kind) ==
  \/ Limited(w)
  \/ SecondFactor(w) = "none" /\ ~mfa_has_passkey /\ ~mfa_has_totp /\ window
  \/ /\ SecondFactor(w) \in {"passkey", "totp"}
     /\ kind = "passkey" /\ mfa_has_passkey => SecondFactor(w) = "passkey"
     /\ kind = "totp" => ~mfa_has_totp

\* mfa_session_rank the strongest factor held asks for.
Required == IF mfa_has_passkey THEN 3 ELSE 2

\* The locks of mfa_lock_session: taken if the session still lives.
mfa_lock_session(w) == w \in DOMAIN ways /\ ways[w].live

mfa_revoke_other_sessions(rows, keep) ==
  [w \in DOMAIN rows |-> IF w = keep THEN rows[w] ELSE [rows[w] EXCEPT !.live = FALSE]]

\* The session stands on the proof; one that was recovering ends, and all others with it.
mfa_raise_session_KeepsOthers(w, proof) ==
  /\ proofs' = Append(proofs, proof)
  /\ ways' = [ways EXCEPT ![w].proof = proof]
mfa_raise_session(w, proof) ==
  /\ proofs' = Append(proofs, proof)
  /\ LET raised == [ways EXCEPT ![w].proof = proof] IN
     ways' = IF Limited(w) /\ proof.factor # "recovery_code"
             THEN mfa_revoke_other_sessions(raised, 0) ELSE raised

NewSet(n) == ((n - 1) * CodesInSet + 1) .. (n * CodesInSet)

mfa_store_recovery_codes(onlyIfNone) ==
  IF onlyIfNone /\ recovery.usable # {} THEN UNCHANGED recovery
  ELSE /\ recovery.sets < MaxSets
       /\ recovery' = [usable |-> NewSet(recovery.sets + 1), sets |-> recovery.sets + 1]

\* resolve_session: no request is served for a session whose proof rests on a factor that is gone.
Stands(proof) ==
  CASE proof.factor = "passkey" -> passkeys[proof.id].active
    [] proof.factor = "totp" -> totps[proof.id].state = "active"
    [] OTHER -> TRUE
resolve_session(w) == w \in DOMAIN ways /\ ways[w].live /\ Stands(ways[w].proof)

FirstFactor ==
  /\ Len(ways) < MaxSessions
  /\ ways' = Append(ways, [live |-> TRUE, proof |-> NoProof])
  /\ UNCHANGED <<passkeys, totps, recovery, ceremonies, proofs, window, checks>>

\* Sign-out, expiry, idleness, or another's decision on one session.
SessionEnds(w) ==
  /\ ways[w].live
  /\ ways' = [ways EXCEPT ![w].live = FALSE]
  /\ UNCHANGED <<passkeys, totps, recovery, ceremonies, proofs, window, checks>>

-----------------------------------------------------------------------------
(* Checks: begun against what is committed, and given up at any time.      *)

CheckBegins(c, check) == checks[c] = Idle /\ checks' = [checks EXCEPT ![c] = check]
CheckEnds(c) == checks' = [checks EXCEPT ![c] = Idle]

\* The answer is wrong, late or refused, or the request is lost.
CheckFails(c) ==
  /\ checks[c] # Idle
  /\ CheckEnds(c)
  /\ UNCHANGED <<ways, passkeys, totps, recovery, ceremonies, proofs, window>>

-----------------------------------------------------------------------------
(* Passkeys.                                                               *)

Unspent(w, purpose) ==
  {h \in DOMAIN ceremonies : ceremonies[h].way = w /\ ceremonies[h].purpose = purpose
                             /\ ceremonies[h].state = "live"}

\* One live challenge per session and purpose.
create_webauthn_challenge(w, purpose) ==
  /\ resolve_session(w)
  /\ IF purpose = "registration" THEN mfa_enrolment_verdict(w, "passkey") ELSE mfa_has_passkey
  /\ Len(ceremonies) < MaxChallenges
  /\ ceremonies' = Append([h \in DOMAIN ceremonies |->
                             IF h \in Unspent(w, purpose) THEN [ceremonies[h] EXCEPT !.state = "gone"]
                             ELSE ceremonies[h]],
                          [way |-> w, purpose |-> purpose, state |-> "live"])
  /\ UNCHANGED <<ways, passkeys, totps, recovery, proofs, window, checks>>

ChallengeExpires(h) ==
  /\ ceremonies[h].state = "live"
  /\ ceremonies' = [ceremonies EXCEPT ![h].state = "gone"]
  /\ UNCHANGED <<ways, passkeys, totps, recovery, proofs, window, checks>>

mfa_consume_challenge(h) ==
  /\ ceremonies[h].state = "live"
  /\ ceremonies' = [ceremonies EXCEPT ![h].state = "spent"]

\* The answer of a new authenticator is verified against the live challenge.
RegistrationReads(c, w) ==
  /\ resolve_session(w)
  /\ \E h \in Unspent(w, "registration") : CheckBegins(c, [op |-> "registration", way |-> w, challenge |-> h])
  /\ UNCHANGED <<ways, passkeys, totps, recovery, ceremonies, proofs, window>>

\* Checked again at completion: the person may have gained a factor since.
EnrolsStill_Unchecked(w) == TRUE
EnrolsStill(w) == mfa_enrolment_verdict(w, "passkey")

complete_webauthn_registration(c) ==
  LET w == checks[c].way  h == checks[c].challenge IN
  /\ checks[c].op = "registration"
  /\ mfa_lock_session(w)
  /\ EnrolsStill(w)
  /\ mfa_consume_challenge(h)
  /\ Len(passkeys) < MaxPasskeys
  /\ \E count \in 0 .. MaxCount : passkeys' = Append(passkeys, [active |-> TRUE, count |-> count])
  /\ mfa_raise_session(w, [factor |-> "passkey", id |-> Len(passkeys) + 1, mark |-> h])
  /\ mfa_store_recovery_codes(TRUE)
  /\ CheckEnds(c)
  /\ UNCHANGED <<totps, window>>

\* A passkey that never counted may go on so; one that did must count on.
CountsOn(new, stored) == (new = 0 /\ stored = 0) \/ new > stored

AuthenticationReads(c, w, k, count) ==
  /\ resolve_session(w)
  /\ passkeys[k].active
  /\ CountsOn(count, passkeys[k].count)
  /\ \E h \in Unspent(w, "authentication") :
       CheckBegins(c, [op |-> "authentication", way |-> w, challenge |-> h, passkey |-> k, count |-> count])
  /\ UNCHANGED <<ways, passkeys, totps, recovery, ceremonies, proofs, window>>

complete_webauthn_authentication(c) ==
  LET w == checks[c].way  k == checks[c].passkey  h == checks[c].challenge IN
  /\ checks[c].op = "authentication"
  /\ mfa_lock_session(w)
  /\ mfa_consume_challenge(h)
  /\ passkeys[k].active
  /\ CountsOn(checks[c].count, passkeys[k].count)
  /\ passkeys' = [passkeys EXCEPT ![k].count = checks[c].count]
  /\ mfa_raise_session(w, [factor |-> "passkey", id |-> k, mark |-> h])
  /\ CheckEnds(c)
  /\ UNCHANGED <<totps, recovery, window>>

-----------------------------------------------------------------------------
(* The authenticator app.                                                  *)

PendingApps == {t \in DOMAIN totps : totps[t].state = "pending"}
ActiveApps == {t \in DOMAIN totps : totps[t].state = "active"}

AppsGone(rows, S) == [t \in DOMAIN rows |-> IF t \in S THEN [rows[t] EXCEPT !.state = "gone"] ELSE rows[t]]

begin_totp_enrolment(w) ==
  /\ resolve_session(w)
  /\ mfa_enrolment_verdict(w, "totp")
  /\ Len(totps) < MaxTotps
  /\ totps' = Append(AppsGone(totps, PendingApps), [state |-> "pending", step |-> 0, failed |-> 0])
  /\ UNCHANGED <<ways, passkeys, recovery, ceremonies, proofs, window, checks>>

\* A setup nobody confirmed in time stays, unconfirmable, until the next one replaces it.
SetupExpires(t) ==
  /\ totps[t].state = "pending"
  /\ totps' = AppsGone(totps, {t})
  /\ UNCHANGED <<ways, passkeys, recovery, ceremonies, proofs, window, checks>>

\* The attempt is counted and committed; fresh: the window of the last attempts has passed.
reserve_totp_attempt(c, w, t, fresh) ==
  /\ resolve_session(w)
  /\ t \in PendingApps \cup ActiveApps
  /\ fresh \/ totps[t].failed < AttemptCap
  /\ totps' = [totps EXCEPT ![t].failed = (IF fresh THEN 0 ELSE @) + 1]
  /\ CheckBegins(c, [op |-> "totp", way |-> w, totp |-> t, last |-> totps[t].step])
  /\ UNCHANGED <<ways, passkeys, recovery, ceremonies, proofs, window>>

\* A setup that is confirmed replaces the app only of a session that recovers.
complete_totp(c, step) ==
  LET w == checks[c].way  t == checks[c].totp IN
  /\ checks[c].op = "totp"
  /\ step > checks[c].last
  /\ mfa_lock_session(w)
  /\ t \in PendingApps \cup ActiveApps
  /\ step > totps[t].step
  /\ t \in PendingApps => mfa_enrolment_verdict(w, "totp")
  /\ totps' = [AppsGone(totps, IF t \in PendingApps THEN ActiveApps ELSE {})
               EXCEPT ![t] = [state |-> "active", step |-> step, failed |-> 0]]
  /\ IF SecondFactor(w) # "passkey" THEN mfa_raise_session(w, [factor |-> "totp", id |-> t, mark |-> step])
     ELSE UNCHANGED <<ways, proofs>>
  /\ IF t \in PendingApps THEN mfa_store_recovery_codes(TRUE) ELSE UNCHANGED recovery
  /\ CheckEnds(c)
  /\ UNCHANGED <<passkeys, ceremonies, window>>

-----------------------------------------------------------------------------
(* Recovery codes, and removal.                                            *)

consume_recovery_code(w, code) ==
  LET proof == [factor |-> "recovery_code", id |-> code, mark |-> 0] IN
  /\ resolve_session(w)
  /\ SecondFactor(w) = "none"
  /\ code \in recovery.usable
  /\ recovery' = [recovery EXCEPT !.usable = @ \ {code}]
  /\ proofs' = Append(proofs, proof)
  /\ ways' = mfa_revoke_other_sessions([ways EXCEPT ![w].proof = proof], w)
  /\ UNCHANGED <<passkeys, totps, ceremonies, window, checks>>

regenerate_recovery_codes(w) ==
  /\ resolve_session(w)
  /\ ~Limited(w) /\ mfa_session_rank(w) >= Required
  /\ mfa_store_recovery_codes(FALSE)
  /\ UNCHANGED <<ways, passkeys, totps, ceremonies, proofs, window, checks>>

Factors == {<<"passkey", k>> : k \in {i \in DOMAIN passkeys : passkeys[i].active}}
           \cup {<<"totp", t>> : t \in ActiveApps}

\* Every other session ends, and this one if it stands on what is removed.
remove_authenticator(w, kind, i) ==
  /\ resolve_session(w)
  /\ ~Limited(w) /\ mfa_session_rank(w) >= Required
  /\ <<kind, i>> \in Factors /\ Cardinality(Factors) > 1
  /\ passkeys' = IF kind = "passkey" THEN [passkeys EXCEPT ![i].active = FALSE] ELSE passkeys
  /\ totps' = IF kind = "totp" THEN AppsGone(totps, {i}) ELSE totps
  /\ ways' = mfa_revoke_other_sessions(ways,
               IF ways[w].proof.factor = kind /\ ways[w].proof.id = i THEN 0 ELSE w)
  /\ UNCHANGED <<recovery, ceremonies, proofs, window, checks>>

-----------------------------------------------------------------------------
(* What is decided elsewhere.                                              *)

\* decide_mfa_reset, as far as factors go: see Accounts.
FactorsReset ==
  /\ passkeys' = [k \in DOMAIN passkeys |-> [passkeys[k] EXCEPT !.active = FALSE]]
  /\ totps' = AppsGone(totps, DOMAIN totps)
  /\ recovery' = [recovery EXCEPT !.usable = {}]
  /\ ways' = mfa_revoke_other_sessions(ways, 0)
  /\ window' = TRUE
  /\ UNCHANGED <<ceremonies, proofs, checks>>

\* The deployment's script: a person left without a factor gets a window.
open_bootstrap_enrolment_window ==
  /\ Factors = {} /\ ~window
  /\ window' = TRUE
  /\ UNCHANGED <<ways, passkeys, totps, recovery, ceremonies, proofs, checks>>

\* mfa_creation_window_open, mfa_reset_window_open: 24 hours, or a decision that ends it.
WindowCloses ==
  /\ window
  /\ window' = FALSE
  /\ UNCHANGED <<ways, passkeys, totps, recovery, ceremonies, proofs, checks>>

\* revoke_subject_sessions: a suspension, a change of address.
revoke_subject_sessions ==
  /\ \E w \in DOMAIN ways : ways[w].live
  /\ ways' = mfa_revoke_other_sessions(ways, 0)
  /\ window' = FALSE
  /\ UNCHANGED <<passkeys, totps, recovery, ceremonies, proofs, checks>>

-----------------------------------------------------------------------------
FactorNext ==
  \/ FirstFactor \/ FactorsReset \/ open_bootstrap_enrolment_window \/ WindowCloses \/ revoke_subject_sessions
  \/ \E h \in DOMAIN ceremonies : ChallengeExpires(h)
  \/ \E t \in DOMAIN totps : SetupExpires(t)
  \/ \E w \in DOMAIN ways :
       \/ SessionEnds(w)
       \/ \E purpose \in {"registration", "authentication"} : create_webauthn_challenge(w, purpose)
       \/ begin_totp_enrolment(w)
       \/ \E code \in recovery.usable : consume_recovery_code(w, code)
       \/ regenerate_recovery_codes(w)
       \/ \E f \in Factors : remove_authenticator(w, f[1], f[2])
       \/ \E c \in Checking :
            \/ RegistrationReads(c, w)
            \/ \E k \in DOMAIN passkeys, count \in 0 .. MaxCount : AuthenticationReads(c, w, k, count)
            \/ \E t \in DOMAIN totps, fresh \in BOOLEAN : reserve_totp_attempt(c, w, t, fresh)
  \/ \E c \in Checking :
       \/ CheckFails(c)
       \/ complete_webauthn_registration(c)
       \/ complete_webauthn_authentication(c)
       \/ \E step \in 1 .. MaxStep : complete_totp(c, step)

FactorSpec == FactorInit /\ [][FactorNext]_factorVars

-----------------------------------------------------------------------------
(* What must hold.                                                         *)

FactorTypeOK ==
  /\ \A w \in DOMAIN ways : ways[w].live \in BOOLEAN
  /\ \A t \in DOMAIN totps : totps[t].state \in {"pending", "active", "gone"} /\ totps[t].failed <= AttemptCap
  /\ recovery.usable \subseteq 1 .. MaxSets * CodesInSet
  /\ DOMAIN checks = Checking

\* No session outlives the factor it stands on: whoever loses a factor, by removal, replacement or
\* reset, loses what it opened, also what is opened while it goes.
SessionsRestOnFactors == \A w \in DOMAIN ways : ways[w].live => Stands(ways[w].proof)

\* One session recovers at a time, and one app is the person's: a second code ends what the first
\* one opened (0116:846), and a setup confirmed twice replaces itself.
OneRecovers ==
  /\ Cardinality({w \in DOMAIN ways : ways[w].live /\ Limited(w)}) <= 1
  /\ Cardinality(ActiveApps) <= 1 /\ Cardinality(PendingApps) <= 1

\* A challenge, a step of the app and a recovery code each prove once, whichever sessions and
\* requests race to use them: the unique keys of 0115:172-195 never refuse a proof.
NothingProvesTwice ==
  \A i, j \in DOMAIN proofs : proofs[i] = proofs[j] => i = j

FactorsHold == FactorTypeOK /\ SessionsRestOnFactors /\ OneRecovers /\ NothingProvesTwice

\* Whoever has only the first factor adds nothing to an account that has a second one, whatever
\* they began while it had none: a factor is added beside another by a session that proved one
\* as strong, or that recovers.  And the last factor goes only with every session.
FactorsAreEarned ==
  /\ Factors # {} /\ ~Factors' \subseteq Factors =>
       \E c \in Checking :
         LET second == SecondFactor(checks[c].way)
             another == Len(passkeys') > Len(passkeys) /\ mfa_has_passkey
         IN /\ checks[c] # checks'[c]
            /\ second # "none"
            /\ another => second \in {"passkey", "recovery_code"}
  /\ Factors # {} /\ Factors' = {} => \A w \in DOMAIN ways' : ~ways'[w].live
EnrolmentIsEarned == [][FactorsAreEarned]_factorVars
=============================================================================
