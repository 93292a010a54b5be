---------------------------- MODULE PeopleProofs ----------------------------
(***************************************************************************)
(* Proofs about ServiceTokens for any values and any number of tokens,     *)
(* about SecondFactors for any checks under way, about Accounts for any    *)
(* people and any number of requests, about ExternalSignIn for any         *)
(* accounts and any callbacks at once, about Authorization for any         *)
(* bindings and projects, and about Governance for any people, keys,       *)
(* balances and proposals.                                                 *)
(***************************************************************************)
EXTENDS ServiceTokens, SecondFactors, SignIns, Authorization, Governance,
        FiniteSetTheorems, WellFoundedInduction, TLAPS

-----------------------------------------------------------------------------
(* Rows that are rewritten in place, and rows that are added.              *)

LEMMA RowsAreMapped ==
  ASSUME NEW S, NEW s \in Seq(S)
  PROVE  s = [i \in DOMAIN s |-> s[i]] /\ \A i \in DOMAIN s : s[i] \in S
OBVIOUS

LEMMA RowsRewritten ==
  ASSUME NEW S, NEW T, NEW s \in Seq(S), NEW f,
         f = [i \in DOMAIN s |-> f[i]], \A i \in DOMAIN s : f[i] \in T
  PROVE  f \in Seq(T) /\ Len(f) = Len(s) /\ DOMAIN f = DOMAIN s
<1>1. DOMAIN s = 1 .. Len(s) /\ Len(s) \in Nat
  OBVIOUS
<1>2. f \in [1 .. Len(s) -> T]
  BY <1>1
<1> QED BY <1>1, <1>2

LEMMA RowAdded ==
  ASSUME NEW S, NEW s \in Seq(S), NEW e \in S
  PROVE  /\ Append(s, e) \in Seq(S)
         /\ Len(Append(s, e)) = Len(s) + 1
         /\ DOMAIN Append(s, e) = DOMAIN s \cup {Len(s) + 1}
         /\ Len(s) + 1 \notin DOMAIN s
         /\ \A i \in DOMAIN s : Append(s, e)[i] = s[i]
         /\ Append(s, e)[Len(s) + 1] = e
<1>1. DOMAIN s = 1 .. Len(s) /\ Len(s) \in Nat
  OBVIOUS
<1>2. /\ Append(s, e) \in Seq(S) /\ Len(Append(s, e)) = Len(s) + 1
      /\ \A i \in 1 .. Len(s) : Append(s, e)[i] = s[i]
      /\ Append(s, e)[Len(s) + 1] = e
  OBVIOUS
<1>3. DOMAIN Append(s, e) = 1 .. (Len(s) + 1)
  BY <1>1, <1>2
<1> QED BY <1>1, <1>2, <1>3

-----------------------------------------------------------------------------
(* ServiceTokens: its rows, and what a deployment has read.                *)

Lives == {"full", "overlap", "over"}
\* Whatever a row names as its predecessor, and whatever its value.
TokenRows(V, F) == [value : V, life : Lives, revoked : BOOLEAN, from : F, issued : Nat]
TokensTyped ==
  /\ \E V, F : tokens \in Seq(TokenRows(V, F))
  /\ clock \in Nat

\* A deployment about to write read no row of its value, and a command makes its own.
WritesNewValue ==
  deploy.pc = "writing" =>
    /\ deploy.started \in Nat
    /\ \A t \in DOMAIN tokens : tokens[t].value = deploy.value => deploy.value = Fresh

TokensInv == TokensTyped /\ WritesNewValue

LEMMA RetiredRows ==
  ASSUME NEW V, NEW F, tokens \in Seq(TokenRows(V, F)), NEW ts, NEW overlap \in Overlap
  PROVE  /\ Retired(ts, overlap) \in Seq(TokenRows(V, F))
         /\ Len(Retired(ts, overlap)) = Len(tokens)
         /\ DOMAIN Retired(ts, overlap) = DOMAIN tokens
         /\ \A t \in DOMAIN tokens :
              /\ Retired(ts, overlap)[t].value = tokens[t].value
              /\ Retired(ts, overlap)[t].revoked = tokens[t].revoked
              /\ tokens[t].life = "over" => Retired(ts, overlap)[t].life = "over"
<1> DEFINE f == Retired(ts, overlap)
<1>1. \A t \in DOMAIN tokens : tokens[t] \in TokenRows(V, F)
  OBVIOUS
<1>2. f = [t \in DOMAIN tokens |-> f[t]]
  BY DEF Retired
<1>3. ASSUME NEW t \in DOMAIN tokens
      PROVE  /\ f[t] \in TokenRows(V, F)
             /\ f[t].value = tokens[t].value /\ f[t].revoked = tokens[t].revoked
             /\ tokens[t].life = "over" => f[t].life = "over"
  <2>1. Shortened(tokens[t].life, overlap) \in Lives
    BY <1>1 DEF Shortened, Overlap, Lives, TokenRows
  <2>2. tokens[t].life = "over" => Shortened(tokens[t].life, overlap) = "over"
    BY DEF Shortened
  <2>3. f[t] = IF t \in ts THEN [tokens[t] EXCEPT !.life = Shortened(tokens[t].life, overlap)] ELSE tokens[t]
    BY <1>3 DEF Retired
  <2> HIDE DEF f
  <2> QED BY <1>1, <2>1, <2>2, <2>3 DEF TokenRows
<1> HIDE DEF f
<1>4. f \in Seq(TokenRows(V, F)) /\ Len(f) = Len(tokens) /\ DOMAIN f = DOMAIN tokens
  BY <1>2, <1>3, RowsRewritten
<1> QED BY <1>3, <1>4 DEF f

\* A row is inserted, and some end sooner.
LEMMA InsertHolds ==
  ASSUME TokensInv, NEW ts, NEW overlap \in Overlap, NEW value, NEW from, NEW issued \in Nat,
         tokens' = insertToken(Retired(ts, overlap), value, from, issued),
         clock' \in Nat,
         \A t \in DOMAIN tokens : tokens[t].value = value => value = Fresh,
         deploy'.pc = "writing" => deploy' = deploy /\ (value = deploy.value => value = Fresh)
  PROVE  TokensInv' /\ ShortenedForAnother /\ EndedStays
<1>1. PICK V, F : tokens \in Seq(TokenRows(V, F))
  BY DEF TokensInv, TokensTyped
<1> DEFINE S == TokenRows(V \cup {value}, F \cup {from})
           rows == Retired(ts, overlap)
           row == [value |-> value, life |-> "full", revoked |-> FALSE, from |-> from, issued |-> issued]
<1>2. tokens \in Seq(S)
  <2>1. TokenRows(V, F) \subseteq S
    BY DEF TokenRows
  <2>2. tokens = [i \in DOMAIN tokens |-> tokens[i]] /\ \A i \in DOMAIN tokens : tokens[i] \in TokenRows(V, F)
    BY <1>1, RowsAreMapped
  <2> HIDE DEF S
  <2> QED BY <1>1, <2>1, <2>2, RowsRewritten
<1>3. /\ rows \in Seq(S) /\ Len(rows) = Len(tokens) /\ DOMAIN rows = DOMAIN tokens
      /\ \A t \in DOMAIN tokens :
              /\ rows[t].value = tokens[t].value
              /\ rows[t].revoked = tokens[t].revoked
              /\ tokens[t].life = "over" => rows[t].life = "over"
  BY <1>2, RetiredRows
<1>4. row \in S /\ row.value = value /\ row.life = "full" /\ row.revoked = FALSE
  BY DEF TokenRows, Lives
<1>5. tokens' = Append(rows, row)
  BY DEF insertToken
<1> DEFINE n == Len(tokens) + 1
<1> HIDE DEF rows, row, S
<1>6. /\ tokens' \in Seq(S) /\ DOMAIN tokens' = DOMAIN tokens \cup {n} /\ n \notin DOMAIN tokens
      /\ \A t \in DOMAIN tokens : tokens'[t] = rows[t]
      /\ tokens'[n] = row
  BY <1>3, <1>4, <1>5, RowAdded
<1> HIDE DEF n
<1>7. TokensTyped'
  BY <1>6 DEF TokensTyped, S
<1>8. WritesNewValue'
  <2> SUFFICES ASSUME deploy'.pc = "writing",
                      NEW t \in DOMAIN tokens', tokens'[t].value = deploy'.value
               PROVE  deploy'.started \in Nat /\ deploy'.value = Fresh
    BY DEF WritesNewValue, TokensInv
  <2> QED BY <1>3, <1>4, <1>6 DEF TokensInv, WritesNewValue
<1>9. ShortenedForAnother
  BY <1>3, <1>4, <1>6 DEF ShortenedForAnother
<1>10. EndedStays
  BY <1>3, <1>4, <1>6 DEF EndedStays
<1> QED BY <1>7, <1>8, <1>9, <1>10 DEF TokensInv

\* A row is revoked or ends, and nothing is inserted.
LEMMA LossHolds ==
  ASSUME TokensInv, NEW t \in DOMAIN tokens, NEW row,
         tokens' = [tokens EXCEPT ![t] = row],
         \/ row = [tokens[t] EXCEPT !.revoked = TRUE]
         \/ row = [tokens[t] EXCEPT !.life = "over"],
         UNCHANGED <<deploy, clock>>
  PROVE  TokensInv' /\ ShortenedForAnother /\ EndedStays
<1>1. PICK V, F : tokens \in Seq(TokenRows(V, F))
  BY DEF TokensInv, TokensTyped
<1> DEFINE S == TokenRows(V, F)
<1>2. /\ row \in S /\ row.value = tokens[t].value
      /\ tokens[t].revoked => row.revoked
      /\ row.life \in {tokens[t].life, "over"}
  <2>1. tokens[t] \in S
    BY <1>1
  <2>2. CASE row = [tokens[t] EXCEPT !.revoked = TRUE]
    BY <2>1, <2>2 DEF TokenRows
  <2>3. CASE row = [tokens[t] EXCEPT !.life = "over"]
    BY <2>1, <2>3 DEF TokenRows, Lives
  <2> QED BY <2>2, <2>3
<1> HIDE DEF S
<1>3. /\ tokens' \in Seq(S) /\ DOMAIN tokens' = DOMAIN tokens /\ tokens'[t] = row
      /\ \A u \in DOMAIN tokens \ {t} : tokens'[u] = tokens[u]
  <2>1. tokens \in Seq(S) /\ \A u \in DOMAIN tokens : tokens[u] \in S
    BY <1>1 DEF S
  <2>2. tokens' = [u \in DOMAIN tokens |-> tokens'[u]] /\ \A u \in DOMAIN tokens : tokens'[u] \in S
    BY <1>2, <2>1
  <2> QED BY <2>1, <2>2, RowsRewritten
<1>4. TokensTyped'
  BY <1>3 DEF TokensTyped, S, TokensInv
<1>5. WritesNewValue'
  BY <1>2, <1>3 DEF WritesNewValue, TokensInv
<1>6. ShortenedForAnother
  BY <1>2, <1>3 DEF ShortenedForAnother
<1>7. EndedStays
  BY <1>2, <1>3 DEF EndedStays, Live
<1> QED BY <1>4, <1>5, <1>6, <1>7 DEF TokensInv

\* The rows stay; a deployment moves.
LEMMA RowsStay ==
  ASSUME TokensInv, UNCHANGED tokens, clock' \in Nat, WritesNewValue'
  PROVE  TokensInv' /\ ShortenedForAnother /\ EndedStays
<1>1. TokensTyped'
  BY DEF TokensInv, TokensTyped
<1>2. ShortenedForAnother /\ EndedStays
  BY DEF ShortenedForAnother, EndedStays
<1> QED BY <1>1, <1>2 DEF TokensInv

LEMMA CommandHolds ==
  ASSUME TokensInv, issueServiceToken \/ \E t \in DOMAIN tokens : rotateServiceToken(t)
  PROVE  TokensInv' /\ ShortenedForAnother /\ EndedStays
<1>1. clock' \in Nat /\ UNCHANGED deploy
  <2>1. clock \in Nat
    BY DEF TokensInv, TokensTyped
  <2>2. clock' = clock + 1 /\ UNCHANGED deploy
    BY Zenon DEF issueServiceToken, rotateServiceToken
  <2> QED BY <2>1, <2>2
<1>2. CASE issueServiceToken
  <2>1. Retired({}, "over") = tokens
    <3>1. PICK V, F : tokens \in Seq(TokenRows(V, F))
      BY DEF TokensInv, TokensTyped
    <3>2. tokens = [t \in DOMAIN tokens |-> tokens[t]]
      BY <3>1
    <3> QED BY <3>2 DEF Retired
  <2>2. tokens' = insertToken(Retired({}, "over"), Fresh, 0, clock')
    BY <1>2, <2>1 DEF issueServiceToken
  <2> QED BY <1>1, <2>2, InsertHolds DEF Overlap
<1>3. ASSUME NEW t \in DOMAIN tokens, rotateServiceToken(t)
      PROVE  TokensInv' /\ ShortenedForAnother /\ EndedStays
  <2>1. PICK overlap \in Overlap : tokens' = insertToken(Retired({t}, overlap), Fresh, t, clock')
    BY <1>3 DEF rotateServiceToken
  <2> QED BY <1>1, <2>1, InsertHolds
<1> QED BY <1>2, <1>3

LEMMA EnsureHolds ==
  ASSUME TokensInv, (\E v \in Value : EnsureReads(v)) \/ EnsureWrites \/ DeployEnds \/ DeployFails
  PROVE  TokensInv' /\ ShortenedForAnother /\ EndedStays
<1>1. ASSUME NEW v \in Value, EnsureReads(v)
      PROVE  TokensInv' /\ ShortenedForAnother /\ EndedStays
  <2>1. clock' = clock + 1 /\ clock' \in Nat /\ UNCHANGED tokens
    BY <1>1 DEF TokensInv, TokensTyped, EnsureReads
  <2>2. WritesNewValue'
    <3> SUFFICES ASSUME deploy'.pc = "writing"
                 PROVE  deploy'.started \in Nat /\ \A t \in DOMAIN tokens : tokens[t].value # deploy'.value
      BY <2>1 DEF WritesNewValue
    <3> DEFINE known == {t \in DOMAIN tokens : tokens[t].value = v}
    <3>1. deploy' = IF \E t \in known : ~Live(t) \/ superseded(t) THEN [pc |-> "refused", value |-> v]
               ELSE IF known # {} THEN [pc |-> "unchanged", value |-> v]
               ELSE [pc |-> "writing", value |-> v, previous |-> LiveTokens, started |-> clock']
      BY <1>1 DEF EnsureReads
    <3>2. known = {} /\ deploy'.value = v /\ deploy'.started = clock'
      BY <3>1
    <3> QED BY <2>1, <3>2
  <2> QED BY <2>1, <2>2, RowsStay
<1>2. CASE EnsureWrites
  <2> DEFINE from == IF deploy.previous = {} THEN 0 ELSE Newest(deploy.previous)
  <2>1. PICK overlap \in Overlap :
          tokens' = insertToken(Retired(deploy.previous, overlap), deploy.value, from, deploy.started)
    BY <1>2 DEF EnsureWrites
  <2>2. deploy.started \in Nat /\ \A t \in DOMAIN tokens : tokens[t].value = deploy.value => deploy.value = Fresh
    BY <1>2 DEF EnsureWrites, TokensInv, WritesNewValue
  <2>3. clock' \in Nat /\ deploy'.pc # "writing"
    BY <1>2 DEF EnsureWrites, TokensInv, TokensTyped
  <2> QED BY <2>1, <2>2, <2>3, InsertHolds
<1>3. CASE DeployEnds \/ DeployFails
  <2>1. UNCHANGED <<tokens, clock>> /\ deploy'.pc # "writing"
    BY <1>3 DEF DeployEnds, DeployFails, NoDeploy
  <2> QED BY <2>1, RowsStay DEF WritesNewValue, TokensInv, TokensTyped
<1> QED BY <1>1, <1>2, <1>3

LEMMA TokensStep ==
  ASSUME TokensInv, [ServiceTokensNext]_serviceTokenVars
  PROVE  TokensInv' /\ ShortenedForAnother /\ EndedStays
<1>1. ASSUME NEW t \in DOMAIN tokens, revokeServiceToken(t) \/ Expires(t)
      PROVE  TokensInv' /\ ShortenedForAnother /\ EndedStays
  <2>1. UNCHANGED <<deploy, clock>>
    BY <1>1 DEF revokeServiceToken, Expires
  <2>2. CASE revokeServiceToken(t)
    <3>1. tokens' = [tokens EXCEPT ![t] = [tokens[t] EXCEPT !.revoked = TRUE]]
      BY <2>2 DEF revokeServiceToken
    <3> QED BY <2>1, <3>1, LossHolds
  <2>3. CASE Expires(t)
    <3>1. tokens' = [tokens EXCEPT ![t] = [tokens[t] EXCEPT !.life = "over"]]
      BY <2>3 DEF Expires
    <3> QED BY <2>1, <3>1, LossHolds
  <2> QED BY <1>1, <2>2, <2>3
<1>2. CASE createServiceSubject \/ UNCHANGED serviceTokenVars
  <2>1. UNCHANGED <<tokens, deploy, clock>>
    BY <1>2 DEF createServiceSubject, serviceTokenVars
  <2> QED BY <2>1, RowsStay DEF WritesNewValue, TokensInv, TokensTyped
<1> QED BY <1>1, <1>2, CommandHolds, EnsureHolds DEF ServiceTokensNext

\* A token is cut short only for a successor with its full term, and neither a deployment
\* nor a command brings back what was revoked or has ended (service-tokens.ts).
THEOREM TokensAreHandedOver == ServiceTokensSpec => TokensHandOver
<1>1. ServiceTokensInit => TokensInv
  <2> SUFFICES ASSUME ServiceTokensInit PROVE TokensInv
    OBVIOUS
  <2>1. tokens \in Seq(TokenRows({}, {})) /\ clock \in Nat
    BY DEF ServiceTokensInit
  <2> QED BY <2>1 DEF ServiceTokensInit, TokensInv, TokensTyped, WritesNewValue, NoDeploy
<1>2. TokensInv /\ [ServiceTokensNext]_serviceTokenVars
        => TokensInv' /\ [ShortenedForAnother /\ EndedStays]_serviceTokenVars
  BY TokensStep
<1> QED BY <1>1, <1>2, PTL DEF ServiceTokensSpec, TokensHandOver

-----------------------------------------------------------------------------
(* SecondFactors: the rows.                                                *)

ProofRows == [factor : {"none", "passkey", "totp", "recovery_code"}, id : Nat, mark : Nat]
WayRows == [live : BOOLEAN, proof : ProofRows]
PasskeyRows == [active : BOOLEAN, count : Nat]
AppRows == [state : {"pending", "active", "gone"}, step : Nat, failed : 0 .. AttemptCap]
ChallengeRows == [way : Nat, purpose : {"registration", "authentication"}, state : {"live", "spent", "gone"}]

Issued == 1 .. recovery.sets * CodesInSet
RecoveryTyped ==
  /\ recovery = [usable |-> recovery.usable, sets |-> recovery.sets]
  /\ recovery.sets \in 0 .. MaxSets
  /\ recovery.usable \subseteq Issued

FactorTyped ==
  /\ ways \in Seq(WayRows) /\ passkeys \in Seq(PasskeyRows) /\ totps \in Seq(AppRows)
  /\ ceremonies \in Seq(ChallengeRows) /\ proofs \in Seq(ProofRows)
  /\ RecoveryTyped
  /\ window \in BOOLEAN

\* What a check has read was there, and rows are not deleted.
ChecksRead ==
  /\ checks = [c \in Checking |-> checks[c]]
  /\ \A c \in Checking :
       /\ checks[c].op \in {"registration", "authentication"} => checks[c].challenge \in DOMAIN ceremonies
       /\ checks[c].op = "authentication" => checks[c].passkey \in DOMAIN passkeys /\ checks[c].count \in Nat

\* A proof rests on a factor that is there, and what it used is used up.
Firm(p) ==
  /\ p.factor = "passkey" => p.id \in DOMAIN passkeys /\ passkeys[p.id].active
  /\ p.factor = "totp" => p.id \in DOMAIN totps /\ totps[p.id].state = "active"
UsedUp(p) ==
  CASE p.factor = "passkey" -> p.mark \in DOMAIN ceremonies /\ ceremonies[p.mark].state = "spent"
    [] p.factor = "totp" -> p.id \in DOMAIN totps /\ p.mark <= totps[p.id].step
    [] p.factor = "recovery_code" -> p.id \in Issued \ recovery.usable
    [] OTHER -> FALSE

LiveProof(p) == \E w \in DOMAIN ways : ways[w].live /\ ways[w].proof = p
LiveProofsFirm == \A p \in ProofRows : LiveProof(p) => Firm(p)

Recovers(w) == ways[w].live /\ Limited(w)
OneRecovery == \A v, w \in DOMAIN ways : Recovers(v) /\ Recovers(w) => v = w
OneApp ==
  /\ \A s, t \in ActiveApps : s = t
  /\ \A s, t \in PendingApps : s = t

OnRecord(p) == \E i \in DOMAIN proofs : proofs[i] = p
RecordUsedUp == \A p \in ProofRows : OnRecord(p) => UsedUp(p)

FactorInv ==
  /\ FactorTyped /\ ChecksRead
  /\ LiveProofsFirm /\ OneRecovery /\ OneApp
  /\ RecordUsedUp /\ NothingProvesTwice

LEMMA OthersEnd ==
  ASSUME NEW rows \in Seq(WayRows), NEW keep
  PROVE  LET after == mfa_revoke_other_sessions(rows, keep) IN
         /\ after \in Seq(WayRows) /\ DOMAIN after = DOMAIN rows /\ Len(after) = Len(rows)
         /\ \A w \in DOMAIN rows :
              /\ after[w].proof = rows[w].proof
              /\ w # keep => ~after[w].live
              /\ w = keep => after[w] = rows[w]
<1> DEFINE after == mfa_revoke_other_sessions(rows, keep)
<1>1. after = [w \in DOMAIN rows |-> after[w]]
  BY DEF mfa_revoke_other_sessions
<1>2. \A w \in DOMAIN rows : after[w] = IF w = keep THEN rows[w] ELSE [rows[w] EXCEPT !.live = FALSE]
  BY DEF mfa_revoke_other_sessions
<1> HIDE DEF after
<1>3. \A w \in DOMAIN rows : rows[w] \in WayRows
  BY RowsAreMapped
<1>4. \A w \in DOMAIN rows : /\ after[w] \in WayRows
                             /\ after[w].proof = rows[w].proof
                             /\ w # keep => ~after[w].live
                             /\ w = keep => after[w] = rows[w]
  BY <1>2, <1>3 DEF WayRows
<1>5. after \in Seq(WayRows) /\ DOMAIN after = DOMAIN rows /\ Len(after) = Len(rows)
  BY <1>1, <1>4, RowsRewritten
<1> QED BY <1>4, <1>5 DEF after

\* What the rows of the other tables may do while a proof stays as it is.
KeysStay == \A k \in DOMAIN passkeys :
  k \in DOMAIN passkeys' /\ (passkeys[k].active => passkeys'[k].active)
AppsStay == \A t \in DOMAIN totps :
  t \in DOMAIN totps' /\ (totps[t].state = "active" => totps'[t].state = "active")
StepsGrow == \A t \in DOMAIN totps : t \in DOMAIN totps' /\ totps[t].step <= totps'[t].step
SpentStays == \A h \in DOMAIN ceremonies :
  h \in DOMAIN ceremonies' /\ (ceremonies[h].state = "spent" => ceremonies'[h].state = "spent")
CodesAreLost == Issued \subseteq Issued' /\ recovery'.usable \cap Issued \subseteq recovery.usable
WaysClose ==
  /\ DOMAIN ways' = DOMAIN ways
  /\ \A w \in DOMAIN ways : (ways'[w].live => ways[w].live) /\ ways'[w].proof = ways[w].proof

\* Sessions end, and no factor goes.
LEMMA ClosingKeepsFirm ==
  ASSUME LiveProofsFirm, WaysClose, KeysStay, AppsStay
  PROVE  LiveProofsFirm'
<1> SUFFICES ASSUME NEW p \in ProofRows, LiveProof(p)' PROVE Firm(p)'
  BY DEF LiveProofsFirm
<1>1. LiveProof(p)
  BY DEF LiveProof, WaysClose
<1>2. Firm(p)
  BY <1>1 DEF LiveProofsFirm
<1> QED BY <1>2 DEF Firm, KeysStay, AppsStay

LEMMA ClosingKeepsOneRecovery ==
  ASSUME OneRecovery, WaysClose
  PROVE  OneRecovery'
BY DEF OneRecovery, Recovers, Limited, SecondFactor, WaysClose

LEMMA UsedUpStays ==
  ASSUME NEW p \in ProofRows, UsedUp(p), StepsGrow, SpentStays, CodesAreLost, FactorTyped, FactorTyped'
  PROVE  UsedUp(p)'
<1>1. CASE p.factor = "passkey"
  BY <1>1 DEF UsedUp, SpentStays
<1>2. CASE p.factor = "totp"
  <2>1. p.id \in DOMAIN totps /\ p.id \in DOMAIN totps' /\ p.mark <= totps[p.id].step
        /\ totps[p.id].step <= totps'[p.id].step
    BY <1>2 DEF UsedUp, StepsGrow
  <2>2. totps[p.id] \in AppRows /\ totps'[p.id] \in AppRows
    BY <2>1 DEF FactorTyped
  <2>3. p.mark <= totps'[p.id].step
    BY <2>1, <2>2 DEF AppRows, ProofRows
  <2> QED BY <1>2, <2>1, <2>3 DEF UsedUp
<1>3. CASE p.factor = "recovery_code"
  BY <1>3 DEF UsedUp, CodesAreLost
<1> QED BY <1>1, <1>2, <1>3 DEF UsedUp

LEMMA RecordKept ==
  ASSUME RecordUsedUp, NothingProvesTwice, UNCHANGED proofs, StepsGrow, SpentStays, CodesAreLost,
         FactorTyped, FactorTyped'
  PROVE  RecordUsedUp' /\ NothingProvesTwice'
<1>1. RecordUsedUp'
  <2> SUFFICES ASSUME NEW p \in ProofRows, OnRecord(p)' PROVE UsedUp(p)'
    BY DEF RecordUsedUp
  <2>1. UsedUp(p)
    BY DEF RecordUsedUp, OnRecord
  <2> QED BY <2>1, UsedUpStays
<1> QED BY <1>1 DEF NothingProvesTwice

\* A proof is put on record: what it uses was not used up before, and is now.
LEMMA RecordAdded ==
  ASSUME RecordUsedUp, NothingProvesTwice, StepsGrow, SpentStays, CodesAreLost,
         FactorTyped, FactorTyped',
         NEW p \in ProofRows, proofs' = Append(proofs, p), ~UsedUp(p), UsedUp(p)'
  PROVE  RecordUsedUp' /\ NothingProvesTwice'
<1> DEFINE n == Len(proofs) + 1
<1>1. /\ proofs \in Seq(ProofRows) /\ DOMAIN proofs' = DOMAIN proofs \cup {n} /\ n \notin DOMAIN proofs
      /\ \A i \in DOMAIN proofs : proofs'[i] = proofs[i]
      /\ proofs'[n] = p
  BY RowAdded DEF FactorTyped
<1> HIDE DEF n
<1>2. RecordUsedUp'
  <2> SUFFICES ASSUME NEW q \in ProofRows, OnRecord(q)' PROVE UsedUp(q)'
    BY DEF RecordUsedUp
  <2>1. CASE q = p
    BY <2>1
  <2>2. CASE q # p
    <3>1. OnRecord(q)
      BY <1>1, <2>2 DEF OnRecord
    <3>2. UsedUp(q)
      BY <3>1 DEF RecordUsedUp
    <3> QED BY <3>2, UsedUpStays
  <2> QED BY <2>1, <2>2
<1>3. \A i \in DOMAIN proofs : proofs[i] # p
  <2> SUFFICES ASSUME NEW i \in DOMAIN proofs, proofs[i] = p PROVE FALSE
    OBVIOUS
  <2> QED BY DEF OnRecord, RecordUsedUp
<1>4. NothingProvesTwice'
  BY <1>1, <1>3 DEF NothingProvesTwice
<1> QED BY <1>2, <1>4

\* The session stands on a new proof, that rests on a factor that is there.
LEMMA RaisingHolds ==
  ASSUME FactorTyped, LiveProofsFirm, OneRecovery, KeysStay, NEW w \in DOMAIN ways, NEW p \in ProofRows,
         p.factor # "recovery_code", mfa_raise_session(w, p), Firm(p)',
         AppsStay \/ Limited(w)
  PROVE  ways' \in Seq(WayRows) /\ LiveProofsFirm' /\ OneRecovery'
<1> DEFINE raised == [ways EXCEPT ![w].proof = p]
<1>1. /\ raised \in Seq(WayRows) /\ DOMAIN raised = DOMAIN ways
      /\ \A v \in DOMAIN ways : raised[v].live = ways[v].live
                                /\ raised[v].proof = IF v = w THEN p ELSE ways[v].proof
  <2>1. ways \in Seq(WayRows) /\ ways = [v \in DOMAIN ways |-> ways[v]] /\ \A v \in DOMAIN ways : ways[v] \in WayRows
    BY RowsAreMapped DEF FactorTyped
  <2>2. \A v \in DOMAIN ways : raised[v] = IF v = w THEN [ways[v] EXCEPT !.proof = p] ELSE ways[v]
    BY <2>1
  <2>3. \A v \in DOMAIN ways : raised[v] \in WayRows /\ raised[v].live = ways[v].live
                                /\ raised[v].proof = IF v = w THEN p ELSE ways[v].proof
    BY <2>1, <2>2 DEF WayRows
  <2>4. raised = [v \in DOMAIN ways |-> raised[v]]
    BY <2>1
  <2> HIDE DEF raised
  <2> QED BY <2>1, <2>3, <2>4, RowsRewritten
<1>2. CASE ~Limited(w)
  <2>1. ways' = raised
    BY <1>2 DEF mfa_raise_session
  <2> HIDE DEF raised
  <2>2. LiveProofsFirm'
    <3> SUFFICES ASSUME NEW q \in ProofRows, LiveProof(q)' PROVE Firm(q)'
      BY DEF LiveProofsFirm
    <3>1. q = p \/ LiveProof(q)
      BY <1>1, <2>1 DEF LiveProof
    <3>2. CASE LiveProof(q)
      <4>1. Firm(q)
        BY <3>2 DEF LiveProofsFirm
      <4> QED BY <4>1, <1>2 DEF Firm, KeysStay, AppsStay
    <3> QED BY <3>1, <3>2
  <2>3. OneRecovery'
    BY <1>1, <2>1 DEF OneRecovery, Recovers, Limited, SecondFactor
  <2> QED BY <1>1, <2>1, <2>2, <2>3
<1>3. CASE Limited(w)
  <2>1. ways' = mfa_revoke_other_sessions(raised, 0)
    BY <1>3 DEF mfa_raise_session
  <2> HIDE DEF raised
  <2>2. 0 \notin DOMAIN ways
    BY DEF FactorTyped
  <2>3. ways' \in Seq(WayRows) /\ DOMAIN ways' = DOMAIN ways /\ \A v \in DOMAIN ways : ~ways'[v].live
    BY <1>1, <2>1, <2>2, OthersEnd
  <2> QED BY <2>3 DEF LiveProofsFirm, LiveProof, OneRecovery, Recovers
<1> QED BY <1>2, <1>3

-----------------------------------------------------------------------------
(* SecondFactors: steps that leave the factors alone.                      *)

LEMMA FactorsStay ==
  ASSUME KeysStay, AppsStay,
         \A k \in DOMAIN passkeys' : passkeys'[k].active => k \in DOMAIN passkeys /\ passkeys[k].active,
         \A t \in DOMAIN totps' : totps'[t].state = "active" => t \in DOMAIN totps /\ totps[t].state = "active"
  PROVE  FactorsAreEarned
<1>1. Factors' \subseteq Factors /\ Factors \subseteq Factors'
  BY DEF Factors, ActiveApps, KeysStay, AppsStay
<1> QED BY <1>1 DEF FactorsAreEarned

LEMMA ChecksKept ==
  ASSUME ChecksRead, DOMAIN passkeys \subseteq DOMAIN passkeys', DOMAIN ceremonies \subseteq DOMAIN ceremonies',
         UNCHANGED checks \/ \E c \in Checking : CheckEnds(c)
  PROVE  ChecksRead'
<1>1. /\ checks' = [c \in Checking |-> checks'[c]]
      /\ \A c \in Checking : checks'[c] \in {checks[c], Idle}
  BY DEF ChecksRead, CheckEnds
<1> QED BY <1>1 DEF ChecksRead, Idle

\* Sessions, challenges and checks move; the factors and what they proved stay.
LEMMA FactorsUntouched ==
  ASSUME FactorInv, UNCHANGED <<passkeys, totps, recovery, proofs>>,
         ways' \in Seq(WayRows), ceremonies' \in Seq(ChallengeRows), window' \in BOOLEAN,
         SpentStays, ChecksRead', LiveProofsFirm', OneRecovery'
  PROVE  FactorInv' /\ FactorsAreEarned
<1>1. FactorTyped'
  BY DEF FactorInv, FactorTyped, RecoveryTyped, Issued
<1>2. StepsGrow /\ CodesAreLost /\ KeysStay /\ AppsStay
  <2>1. \A t \in DOMAIN totps : totps[t].step <= totps[t].step
    <3>1. \A t \in DOMAIN totps : totps[t] \in AppRows
      BY RowsAreMapped DEF FactorInv, FactorTyped
    <3> QED BY <3>1 DEF AppRows
  <2> QED BY <2>1 DEF StepsGrow, CodesAreLost, KeysStay, AppsStay, Issued
<1>3. RecordUsedUp' /\ NothingProvesTwice'
  BY <1>1, <1>2, RecordKept DEF FactorInv
<1>4. OneApp'
  BY DEF FactorInv, OneApp, ActiveApps, PendingApps
<1>5. FactorsAreEarned
  BY <1>2, FactorsStay
<1> QED BY <1>1, <1>3, <1>4, <1>5 DEF FactorInv

\* Nothing moves but the window and the checks.
LEMMA WaysUntouched ==
  ASSUME FactorInv, UNCHANGED <<ways, passkeys, totps, recovery, proofs>>
  PROVE  ways' \in Seq(WayRows) /\ LiveProofsFirm' /\ OneRecovery'
<1>1. WaysClose /\ KeysStay /\ AppsStay
  BY DEF WaysClose, KeysStay, AppsStay
<1> QED BY <1>1, ClosingKeepsFirm, ClosingKeepsOneRecovery DEF FactorInv, FactorTyped

LEMMA SignInHolds ==
  ASSUME FactorInv, FirstFactor
  PROVE  FactorInv' /\ FactorsAreEarned
<1> DEFINE row == [live |-> TRUE, proof |-> NoProof]
           n == Len(ways) + 1
<1>1. row \in WayRows /\ row.proof.factor = "none"
  BY DEF WayRows, ProofRows, NoProof
<1> HIDE DEF row
<1>2. /\ ways' \in Seq(WayRows) /\ DOMAIN ways' = DOMAIN ways \cup {n} /\ n \notin DOMAIN ways
      /\ \A w \in DOMAIN ways : ways'[w] = ways[w]
      /\ ways'[n] = row
  BY <1>1, RowAdded DEF FirstFactor, FactorInv, FactorTyped, row
<1> HIDE DEF n
<1>3. LiveProofsFirm'
  <2> SUFFICES ASSUME NEW p \in ProofRows, LiveProof(p)' PROVE Firm(p)'
    BY DEF LiveProofsFirm
  <2>1. p.factor = "none" \/ LiveProof(p)
    BY <1>1, <1>2 DEF LiveProof
  <2>2. p.factor = "none" \/ Firm(p)
    BY <2>1 DEF FactorInv, LiveProofsFirm
  <2> QED BY <2>2 DEF Firm, FirstFactor
<1>4. OneRecovery'
  BY <1>1, <1>2 DEF FactorInv, OneRecovery, Recovers, Limited, SecondFactor
<1>5. ChecksRead'
  BY ChecksKept DEF FirstFactor, FactorInv
<1> QED BY <1>2, <1>3, <1>4, <1>5, FactorsUntouched DEF FirstFactor, SpentStays, FactorInv, FactorTyped

LEMMA EndsHold ==
  ASSUME FactorInv, (\E w \in DOMAIN ways : SessionEnds(w)) \/ revoke_subject_sessions
  PROVE  FactorInv' /\ FactorsAreEarned
<1>1. ways' \in Seq(WayRows) /\ WaysClose
  <2>1. ways \in Seq(WayRows) /\ ways = [v \in DOMAIN ways |-> ways[v]] /\ \A v \in DOMAIN ways : ways[v] \in WayRows
    BY RowsAreMapped DEF FactorInv, FactorTyped
  <2>2. ASSUME NEW w \in DOMAIN ways, SessionEnds(w)
        PROVE  ways' \in Seq(WayRows) /\ WaysClose
    <3>1. \A v \in DOMAIN ways : ways'[v] = IF v = w THEN [ways[v] EXCEPT !.live = FALSE] ELSE ways[v]
      BY <2>1, <2>2 DEF SessionEnds
    <3>2. ways' = [v \in DOMAIN ways |-> ways'[v]]
      BY <2>1, <2>2 DEF SessionEnds
    <3>3. \A v \in DOMAIN ways : ways'[v] \in WayRows /\ ways'[v].proof = ways[v].proof
                                  /\ (ways'[v].live => ways[v].live)
      BY <2>1, <3>1 DEF WayRows
    <3> QED BY <2>1, <3>2, <3>3, RowsRewritten DEF WaysClose
  <2>3. CASE revoke_subject_sessions
    <3>1. ways' = mfa_revoke_other_sessions(ways, 0)
      BY <2>3 DEF revoke_subject_sessions
    <3>2. /\ ways' \in Seq(WayRows) /\ DOMAIN ways' = DOMAIN ways
          /\ \A w \in DOMAIN ways :
               /\ ways'[w].proof = ways[w].proof
               /\ w # 0 => ~ways'[w].live
               /\ w = 0 => ways'[w] = ways[w]
      BY <2>1, <3>1, OthersEnd
    <3>3. WaysClose
      BY <3>2 DEF WaysClose
    <3> QED BY <3>2, <3>3
  <2> QED BY <2>2, <2>3
<1>2. /\ UNCHANGED <<passkeys, totps, recovery, ceremonies, proofs, checks>>
      /\ window' \in BOOLEAN
  BY DEF SessionEnds, revoke_subject_sessions, FactorInv, FactorTyped
<1>3. LiveProofsFirm' /\ OneRecovery'
  BY <1>1, <1>2, ClosingKeepsFirm, ClosingKeepsOneRecovery DEF FactorInv, KeysStay, AppsStay
<1>4. ChecksRead'
  BY <1>2, ChecksKept DEF FactorInv
<1> QED BY <1>1, <1>2, <1>3, <1>4, FactorsUntouched DEF SpentStays, FactorInv, FactorTyped

LEMMA WindowHolds ==
  ASSUME FactorInv, WindowCloses \/ open_bootstrap_enrolment_window \/ UNCHANGED factorVars
  PROVE  FactorInv' /\ FactorsAreEarned
<1>1. /\ UNCHANGED <<ways, passkeys, totps, recovery, ceremonies, proofs, checks>>
      /\ window' \in BOOLEAN
  BY DEF WindowCloses, open_bootstrap_enrolment_window, factorVars, FactorInv, FactorTyped
<1>2. ChecksRead'
  BY <1>1, ChecksKept DEF FactorInv
<1> QED BY <1>1, <1>2, WaysUntouched, FactorsUntouched DEF SpentStays, FactorInv, FactorTyped

\* A check begins on what is there, or ends.
LEMMA ChecksHold ==
  ASSUME FactorInv, NEW c \in Checking,
         \/ CheckFails(c)
         \/ \E w \in DOMAIN ways : RegistrationReads(c, w)
         \/ \E w \in DOMAIN ways, k \in DOMAIN passkeys, count \in 0 .. MaxCount : AuthenticationReads(c, w, k, count)
  PROVE  FactorInv' /\ FactorsAreEarned
<1>1. UNCHANGED <<ways, passkeys, totps, recovery, ceremonies, proofs, window>>
  BY DEF CheckFails, RegistrationReads, AuthenticationReads
<1>2. ChecksRead'
  <2>1. CASE CheckFails(c)
    BY <2>1, <1>1, ChecksKept DEF CheckFails, FactorInv
  <2>2. ASSUME NEW w \in DOMAIN ways, RegistrationReads(c, w) PROVE ChecksRead'
    <3>1. PICK h \in DOMAIN ceremonies :
            checks' = [checks EXCEPT ![c] = [op |-> "registration", way |-> w, challenge |-> h]]
      BY <2>2 DEF RegistrationReads, CheckBegins, Unspent
    <3> QED BY <1>1, <3>1 DEF ChecksRead, FactorInv
  <2>3. ASSUME NEW w \in DOMAIN ways, NEW k \in DOMAIN passkeys, NEW count \in 0 .. MaxCount,
               AuthenticationReads(c, w, k, count)
        PROVE  ChecksRead'
    <3>1. PICK h \in DOMAIN ceremonies :
            checks' = [checks EXCEPT ![c] = [op |-> "authentication", way |-> w, challenge |-> h,
                                             passkey |-> k, count |-> count]]
      BY <2>3 DEF AuthenticationReads, CheckBegins, Unspent
    <3>2. count \in Nat
      BY FactorAssumption
    <3> QED BY <1>1, <3>1, <3>2 DEF ChecksRead, FactorInv
  <2> QED BY <2>1, <2>2, <2>3
<1> QED BY <1>1, <1>2, WaysUntouched, FactorsUntouched DEF SpentStays, FactorInv, FactorTyped

LEMMA ChallengesHold ==
  ASSUME FactorInv,
         \/ \E w \in DOMAIN ways, purpose \in {"registration", "authentication"} : create_webauthn_challenge(w, purpose)
         \/ \E h \in DOMAIN ceremonies : ChallengeExpires(h)
  PROVE  FactorInv' /\ FactorsAreEarned
<1>1. UNCHANGED <<ways, passkeys, totps, recovery, proofs, window, checks>>
  BY DEF create_webauthn_challenge, ChallengeExpires
<1>2. /\ ceremonies \in Seq(ChallengeRows) /\ ceremonies = [h \in DOMAIN ceremonies |-> ceremonies[h]]
      /\ \A h \in DOMAIN ceremonies : ceremonies[h] \in ChallengeRows
  BY RowsAreMapped DEF FactorInv, FactorTyped
<1>3. ASSUME NEW w \in DOMAIN ways, NEW purpose \in {"registration", "authentication"},
             create_webauthn_challenge(w, purpose)
      PROVE  ceremonies' \in Seq(ChallengeRows) /\ SpentStays
  <2> DEFINE old == [h \in DOMAIN ceremonies |->
                       IF h \in Unspent(w, purpose) THEN [ceremonies[h] EXCEPT !.state = "gone"] ELSE ceremonies[h]]
             row == [way |-> w, purpose |-> purpose, state |-> "live"]
  <2>1. \A h \in DOMAIN ceremonies :
          old[h] \in ChallengeRows /\ (ceremonies[h].state = "spent" => old[h].state = "spent")
    BY <1>2 DEF ChallengeRows, Unspent
  <2>2. old = [h \in DOMAIN ceremonies |-> old[h]]
    OBVIOUS
  <2>3. row \in ChallengeRows
    BY DEF ChallengeRows, FactorInv, FactorTyped
  <2>4. ceremonies' = Append(old, row)
    BY <1>3 DEF create_webauthn_challenge
  <2> HIDE DEF old, row
  <2>5. old \in Seq(ChallengeRows) /\ DOMAIN old = DOMAIN ceremonies
    BY <1>2, <2>1, <2>2, RowsRewritten
  <2> QED BY <2>1, <2>3, <2>4, <2>5, RowAdded DEF SpentStays
<1>4. ASSUME NEW h \in DOMAIN ceremonies, ChallengeExpires(h)
      PROVE  ceremonies' \in Seq(ChallengeRows) /\ SpentStays
  <2>1. \A g \in DOMAIN ceremonies :
          ceremonies'[g] = IF g = h THEN [ceremonies[g] EXCEPT !.state = "gone"] ELSE ceremonies[g]
    BY <1>2, <1>4 DEF ChallengeExpires
  <2>2. ceremonies' = [g \in DOMAIN ceremonies |-> ceremonies'[g]] /\ ceremonies[h].state = "live"
    BY <1>2, <1>4, ZenonT(40) DEF ChallengeExpires
  <2>3. \A g \in DOMAIN ceremonies :
          ceremonies'[g] \in ChallengeRows /\ (ceremonies[g].state = "spent" => ceremonies'[g].state = "spent")
    BY <1>2, <2>1, <2>2, SMTT(40) DEF ChallengeRows
  <2> QED BY <1>2, <2>2, <2>3, RowsRewritten DEF SpentStays
<1>5. ceremonies' \in Seq(ChallengeRows) /\ SpentStays
  BY <1>3, <1>4
<1>6. ChecksRead'
  BY <1>1, <1>5, ChecksKept DEF FactorInv, SpentStays
<1> QED BY <1>1, <1>5, <1>6, WaysUntouched, FactorsUntouched DEF FactorInv, FactorTyped

-----------------------------------------------------------------------------
(* SecondFactors: steps of passkeys.                                       *)

\* What both completions do beside the passkey: the challenge is spent, the session stands
\* on the proof.
LEMMA CompletionHolds ==
  ASSUME FactorInv, NEW c \in Checking, NEW w \in DOMAIN ways, NEW h \in DOMAIN ceremonies,
         NEW k \in DOMAIN passkeys', passkeys' \in Seq(PasskeyRows), KeysStay, passkeys'[k].active,
         RecoveryTyped', CodesAreLost,
         mfa_consume_challenge(h), CheckEnds(c), UNCHANGED <<totps, window>>,
         mfa_raise_session(w, [factor |-> "passkey", id |-> k, mark |-> h])
  PROVE  FactorInv'
<1> DEFINE p == [factor |-> "passkey", id |-> k, mark |-> h]
<1>1. p \in ProofRows /\ p.factor = "passkey" /\ p.id = k /\ p.mark = h
  BY DEF ProofRows, FactorInv, FactorTyped
<1>2. /\ ceremonies' \in Seq(ChallengeRows) /\ SpentStays
      /\ ceremonies[h].state = "live" /\ h \in DOMAIN ceremonies' /\ ceremonies'[h].state = "spent"
  <2>1. /\ ceremonies \in Seq(ChallengeRows) /\ ceremonies = [g \in DOMAIN ceremonies |-> ceremonies[g]]
        /\ \A g \in DOMAIN ceremonies : ceremonies[g] \in ChallengeRows
    BY RowsAreMapped DEF FactorInv, FactorTyped
  <2>2. /\ ceremonies' = [g \in DOMAIN ceremonies |-> ceremonies'[g]] /\ ceremonies[h].state = "live"
        /\ \A g \in DOMAIN ceremonies :
             ceremonies'[g] = IF g = h THEN [ceremonies[g] EXCEPT !.state = "spent"] ELSE ceremonies[g]
    BY <2>1 DEF mfa_consume_challenge
  <2>3. \A g \in DOMAIN ceremonies :
          /\ ceremonies'[g] \in ChallengeRows /\ (g = h => ceremonies'[g].state = "spent")
          /\ ceremonies[g].state = "spent" => ceremonies'[g].state = "spent"
    BY <2>1, <2>2 DEF ChallengeRows
  <2> QED BY <2>1, <2>2, <2>3, RowsRewritten DEF SpentStays
<1>3. mfa_raise_session(w, p) /\ proofs' = Append(proofs, p)
  BY DEF mfa_raise_session
<1> HIDE DEF p
<1>4. AppsStay /\ StepsGrow
  <2>1. \A t \in DOMAIN totps : totps[t].step <= totps[t].step
    <3>1. \A t \in DOMAIN totps : totps[t] \in AppRows
      BY RowsAreMapped DEF FactorInv, FactorTyped
    <3> QED BY <3>1 DEF AppRows
  <2> QED BY <2>1 DEF AppsStay, StepsGrow
<1>5. Firm(p)' /\ ~UsedUp(p) /\ UsedUp(p)'
  <2>1. Firm(p)'
    BY <1>1 DEF Firm
  <2>2. ~UsedUp(p) /\ UsedUp(p)'
    BY <1>1, <1>2 DEF UsedUp
  <2> QED BY <2>1, <2>2
<1>6. ways' \in Seq(WayRows) /\ LiveProofsFirm' /\ OneRecovery'
  BY <1>1, <1>3, <1>4, <1>5, RaisingHolds DEF FactorInv
<1>7. FactorTyped'
  BY <1>1, <1>2, <1>3, <1>6, RowAdded DEF FactorInv, FactorTyped
<1>8. RecordUsedUp' /\ NothingProvesTwice'
  BY <1>1, <1>2, <1>3, <1>4, <1>5, <1>7, RecordAdded DEF FactorInv
<1>9. ChecksRead'
  BY <1>2, ChecksKept DEF FactorInv, SpentStays, KeysStay
<1>10. OneApp'
  BY DEF FactorInv, OneApp, ActiveApps, PendingApps
<1> QED BY <1>6, <1>7, <1>8, <1>9, <1>10 DEF FactorInv

LEMMA OneSetMore ==
  ASSUME NEW a \in Nat, NEW b \in Nat
  PROVE  a * b \in Nat /\ (a + 1) * b = a * b + b
OBVIOUS

LEMMA CodesStored ==
  ASSUME FactorTyped, NEW onlyIfNone, mfa_store_recovery_codes(onlyIfNone)
  PROVE  RecoveryTyped' /\ CodesAreLost
<1>1. CASE UNCHANGED recovery
  BY <1>1 DEF FactorTyped, RecoveryTyped, Issued, CodesAreLost
<1>2. CASE recovery.sets < MaxSets /\ recovery' = [usable |-> NewSet(recovery.sets + 1), sets |-> recovery.sets + 1]
  <2> DEFINE n == recovery.sets
             m == n * CodesInSet
  <2>1. n \in 0 .. MaxSets /\ CodesInSet \in Nat /\ MaxSets \in Nat /\ n + 1 \in 0 .. MaxSets
    BY <1>2, FactorAssumption DEF FactorTyped, RecoveryTyped
  <2>2. m \in Nat /\ (n + 1) * CodesInSet = m + CodesInSet /\ (n + 1) - 1 = n
    <3>1. n \in Nat /\ CodesInSet \in Nat
      BY <2>1
    <3> HIDE DEF n
    <3> QED BY <3>1, OneSetMore
  <2>3. NewSet(n + 1) = (m + 1) .. (m + CodesInSet)
    BY <2>2 DEF NewSet
  <2>4. Issued = 1 .. m /\ Issued' = 1 .. (m + CodesInSet)
    BY <1>2, <2>2 DEF Issued
  <2> HIDE DEF m
  <2>5. recovery'.usable = (m + 1) .. (m + CodesInSet) /\ recovery'.sets = n + 1
    BY <1>2, <2>3
  <2>6. CodesAreLost
    BY <2>1, <2>2, <2>4, <2>5 DEF CodesAreLost
  <2>7. RecoveryTyped'
    BY <1>2, <2>1, <2>2, <2>4, <2>5 DEF RecoveryTyped
  <2> QED BY <2>6, <2>7
<1> QED BY <1>1, <1>2 DEF mfa_store_recovery_codes

LEMMA RegistrationHolds ==
  ASSUME FactorInv, NEW c \in Checking, complete_webauthn_registration(c)
  PROVE  FactorInv' /\ FactorsAreEarned
<1> DEFINE w == checks[c].way
           h == checks[c].challenge
           n == Len(passkeys) + 1
<1>1. /\ checks[c].op = "registration" /\ w \in DOMAIN ways /\ h \in DOMAIN ceremonies
      /\ mfa_enrolment_verdict(w, "passkey")
  BY DEF complete_webauthn_registration, mfa_lock_session, EnrolsStill, FactorInv, ChecksRead
<1>2. PICK count \in 0 .. MaxCount : passkeys' = Append(passkeys, [active |-> TRUE, count |-> count])
  BY DEF complete_webauthn_registration
<1> DEFINE row == [active |-> TRUE, count |-> count]
<1>3. row \in PasskeyRows /\ row.active = TRUE
  BY FactorAssumption DEF PasskeyRows
<1>4. passkeys' = Append(passkeys, row)
  BY <1>2
<1> HIDE DEF row
<1>5. /\ passkeys' \in Seq(PasskeyRows) /\ DOMAIN passkeys' = DOMAIN passkeys \cup {n} /\ n \notin DOMAIN passkeys
      /\ \A k \in DOMAIN passkeys : passkeys'[k] = passkeys[k]
      /\ passkeys'[n] = row
  BY <1>3, <1>4, RowAdded DEF FactorInv, FactorTyped
<1>6. /\ mfa_consume_challenge(h) /\ CheckEnds(c) /\ UNCHANGED <<totps, window>>
      /\ mfa_raise_session(w, [factor |-> "passkey", id |-> n, mark |-> h])
      /\ mfa_store_recovery_codes(TRUE)
  BY DEF complete_webauthn_registration
<1> HIDE DEF w, h, n
<1>7. KeysStay /\ n \in DOMAIN passkeys' /\ passkeys'[n].active
  BY <1>3, <1>5 DEF KeysStay
<1>8. RecoveryTyped' /\ CodesAreLost
  BY <1>6, CodesStored DEF FactorInv
<1>9. FactorInv'
  BY <1>1, <1>5, <1>6, <1>7, <1>8, CompletionHolds
<1>10. FactorsAreEarned
  <2>1. Factors \subseteq Factors'
    BY <1>6, <1>7 DEF Factors, ActiveApps, KeysStay
  <2>2. ASSUME Factors # {}
        PROVE  /\ checks[c] # checks'[c]
               /\ SecondFactor(w) # "none"
               /\ mfa_has_passkey => SecondFactor(w) \in {"passkey", "recovery_code"}
    <3>1. mfa_has_passkey \/ mfa_has_totp
      BY <2>2 DEF Factors, ActiveApps, mfa_has_passkey, mfa_has_totp
    <3>2. checks'[c] = Idle
      BY <1>6 DEF CheckEnds, FactorInv, ChecksRead
    <3> QED BY <1>1, <3>1, <3>2 DEF mfa_enrolment_verdict, Limited, Idle
  <2> QED BY <2>1, <2>2 DEF FactorsAreEarned, w
<1> QED BY <1>9, <1>10

LEMMA AuthenticationHolds ==
  ASSUME FactorInv, NEW c \in Checking, complete_webauthn_authentication(c)
  PROVE  FactorInv' /\ FactorsAreEarned
<1> DEFINE w == checks[c].way
           h == checks[c].challenge
           k == checks[c].passkey
           count == checks[c].count
<1>1. /\ checks[c].op = "authentication" /\ w \in DOMAIN ways /\ h \in DOMAIN ceremonies
      /\ k \in DOMAIN passkeys /\ count \in Nat /\ passkeys[k].active
  BY DEF complete_webauthn_authentication, mfa_lock_session, FactorInv, ChecksRead
<1>2. /\ passkeys' = [passkeys EXCEPT ![k].count = count]
      /\ mfa_consume_challenge(h) /\ CheckEnds(c) /\ UNCHANGED <<totps, recovery, window>>
      /\ mfa_raise_session(w, [factor |-> "passkey", id |-> k, mark |-> h])
  BY DEF complete_webauthn_authentication
<1> HIDE DEF w, h, k, count
<1>3. /\ passkeys' \in Seq(PasskeyRows) /\ DOMAIN passkeys' = DOMAIN passkeys
      /\ \A i \in DOMAIN passkeys : passkeys'[i].active = passkeys[i].active
  <2>1. /\ passkeys \in Seq(PasskeyRows) /\ passkeys = [i \in DOMAIN passkeys |-> passkeys[i]]
        /\ \A i \in DOMAIN passkeys : passkeys[i] \in PasskeyRows
    BY RowsAreMapped DEF FactorInv, FactorTyped
  <2>2. /\ passkeys' = [i \in DOMAIN passkeys |-> passkeys'[i]]
        /\ \A i \in DOMAIN passkeys :
             passkeys'[i] = IF i = k THEN [passkeys[i] EXCEPT !.count = count] ELSE passkeys[i]
    BY <1>2, <2>1
  <2>3. \A i \in DOMAIN passkeys : passkeys'[i] \in PasskeyRows /\ passkeys'[i].active = passkeys[i].active
    BY <1>1, <2>1, <2>2 DEF PasskeyRows
  <2> QED BY <2>1, <2>2, <2>3, RowsRewritten
<1>4. KeysStay /\ k \in DOMAIN passkeys' /\ passkeys'[k].active
  BY <1>1, <1>3 DEF KeysStay
<1>5. RecoveryTyped' /\ CodesAreLost
  BY <1>2 DEF FactorInv, FactorTyped, RecoveryTyped, Issued, CodesAreLost
<1>6. FactorInv'
  BY <1>1, <1>2, <1>3, <1>4, <1>5, CompletionHolds
<1>7. FactorsAreEarned
  BY <1>2, <1>3, <1>4, FactorsStay DEF AppsStay
<1> QED BY <1>6, <1>7

-----------------------------------------------------------------------------
(* SecondFactors: steps of the app.                                        *)

LEMMA GoneApps ==
  ASSUME totps \in Seq(AppRows), NEW S
  PROVE  LET after == AppsGone(totps, S) IN
         /\ after \in Seq(AppRows) /\ DOMAIN after = DOMAIN totps /\ Len(after) = Len(totps)
         /\ \A t \in DOMAIN totps :
              /\ after[t] \in AppRows /\ after[t].step = totps[t].step
              /\ t \in S => after[t].state = "gone"
              /\ t \notin S => after[t] = totps[t]
<1> DEFINE after == AppsGone(totps, S)
<1>1. after = [t \in DOMAIN totps |-> after[t]]
  BY DEF AppsGone
<1>2. \A t \in DOMAIN totps : after[t] = IF t \in S THEN [totps[t] EXCEPT !.state = "gone"] ELSE totps[t]
  BY DEF AppsGone
<1> HIDE DEF after
<1>3. \A t \in DOMAIN totps : totps[t] \in AppRows
  BY RowsAreMapped
<1>4. \A t \in DOMAIN totps : /\ after[t] \in AppRows /\ after[t].step = totps[t].step
                              /\ (t \in S => after[t].state = "gone")
                              /\ (t \notin S => after[t] = totps[t])
  BY <1>2, <1>3 DEF AppRows
<1>5. after \in Seq(AppRows) /\ DOMAIN after = DOMAIN totps /\ Len(after) = Len(totps)
  BY <1>1, <1>4, RowsRewritten
<1> QED BY <1>4, <1>5 DEF after

LEMMA AppRowFacts ==
  ASSUME FactorInv
  PROVE  /\ totps \in Seq(AppRows) /\ totps = [t \in DOMAIN totps |-> totps[t]]
         /\ \A t \in DOMAIN totps : totps[t] \in AppRows /\ totps[t].step \in Nat /\ totps[t].step <= totps[t].step
<1>1. totps \in Seq(AppRows) /\ totps = [t \in DOMAIN totps |-> totps[t]] /\ \A t \in DOMAIN totps : totps[t] \in AppRows
  BY RowsAreMapped DEF FactorInv, FactorTyped
<1> QED BY <1>1 DEF AppRows

\* A setup begins or ends, or an attempt is counted: no app becomes or ceases to be the person's.
LEMMA SetupsHold ==
  ASSUME FactorInv, UNCHANGED <<ways, passkeys, recovery, ceremonies, proofs, window>>,
         totps' \in Seq(AppRows), AppsStay, StepsGrow, OneApp', ChecksRead',
         \A t \in DOMAIN totps' : totps'[t].state = "active" => t \in DOMAIN totps /\ totps[t].state = "active"
  PROVE  FactorInv' /\ FactorsAreEarned
<1>1. FactorTyped'
  BY DEF FactorInv, FactorTyped, RecoveryTyped, Issued
<1>2. KeysStay /\ SpentStays /\ CodesAreLost /\ WaysClose
  BY DEF KeysStay, SpentStays, CodesAreLost, Issued, WaysClose
<1>3. LiveProofsFirm' /\ OneRecovery'
  BY <1>2, ClosingKeepsFirm, ClosingKeepsOneRecovery DEF FactorInv
<1>4. RecordUsedUp' /\ NothingProvesTwice'
  BY <1>1, <1>2, RecordKept DEF FactorInv
<1>5. FactorsAreEarned
  BY <1>2, FactorsStay
<1> QED BY <1>1, <1>3, <1>4, <1>5 DEF FactorInv

LEMMA BeginningHolds ==
  ASSUME FactorInv, NEW w \in DOMAIN ways, begin_totp_enrolment(w)
  PROVE  FactorInv' /\ FactorsAreEarned
<1> DEFINE old == AppsGone(totps, PendingApps)
           row == [state |-> "pending", step |-> 0, failed |-> 0]
           n == Len(totps) + 1
<1>1. row \in AppRows /\ row.state = "pending"
  BY FactorAssumption DEF AppRows
<1>2. /\ old \in Seq(AppRows) /\ DOMAIN old = DOMAIN totps /\ Len(old) = Len(totps)
      /\ \A t \in DOMAIN totps :
           /\ old[t].step = totps[t].step
           /\ t \in PendingApps => old[t].state = "gone"
           /\ t \notin PendingApps => old[t] = totps[t]
  BY AppRowFacts, GoneApps
<1>3. totps' = Append(old, row)
  BY DEF begin_totp_enrolment
<1> HIDE DEF old, row
<1>4. /\ totps' \in Seq(AppRows) /\ DOMAIN totps' = DOMAIN totps \cup {n} /\ n \notin DOMAIN totps
      /\ \A t \in DOMAIN totps : totps'[t] = old[t]
      /\ totps'[n] = row
  BY <1>1, <1>2, <1>3, RowAdded
<1> HIDE DEF n
<1>5. AppsStay /\ StepsGrow
  BY <1>2, <1>4, AppRowFacts DEF AppsStay, StepsGrow, PendingApps
<1>6. /\ PendingApps' = {n} /\ ActiveApps' = ActiveApps
  BY <1>1, <1>2, <1>4 DEF PendingApps, ActiveApps
<1>7. OneApp'
  BY <1>6 DEF OneApp, FactorInv
<1>8. ChecksRead'
  BY ChecksKept DEF begin_totp_enrolment, FactorInv
<1>9. \A t \in DOMAIN totps' : totps'[t].state = "active" => t \in DOMAIN totps /\ totps[t].state = "active"
  BY <1>6 DEF ActiveApps
<1> QED BY <1>4, <1>5, <1>7, <1>8, <1>9, SetupsHold DEF begin_totp_enrolment

LEMMA SetupExpiryHolds ==
  ASSUME FactorInv, NEW a \in DOMAIN totps, SetupExpires(a)
  PROVE  FactorInv' /\ FactorsAreEarned
<1>1. totps' = AppsGone(totps, {a}) /\ totps[a].state = "pending"
  BY DEF SetupExpires
<1>2. /\ totps' \in Seq(AppRows) /\ DOMAIN totps' = DOMAIN totps
      /\ \A t \in DOMAIN totps :
           /\ totps'[t].step = totps[t].step
           /\ t \in {a} => totps'[t].state = "gone"
           /\ t \notin {a} => totps'[t] = totps[t]
  BY <1>1, AppRowFacts, GoneApps
<1>3. AppsStay /\ StepsGrow
  BY <1>1, <1>2, AppRowFacts DEF AppsStay, StepsGrow
<1>4. PendingApps' \subseteq PendingApps /\ ActiveApps' \subseteq ActiveApps
  BY <1>2 DEF PendingApps, ActiveApps
<1>5. OneApp'
  BY <1>4 DEF OneApp, FactorInv
<1>6. ChecksRead'
  BY ChecksKept DEF SetupExpires, FactorInv
<1>7. \A t \in DOMAIN totps' : totps'[t].state = "active" => t \in DOMAIN totps /\ totps[t].state = "active"
  BY <1>4 DEF ActiveApps
<1> QED BY <1>2, <1>3, <1>5, <1>6, <1>7, SetupsHold DEF SetupExpires

LEMMA AttemptHolds ==
  ASSUME FactorInv, NEW c \in Checking, NEW w \in DOMAIN ways, NEW a \in DOMAIN totps, NEW fresh \in BOOLEAN,
         reserve_totp_attempt(c, w, a, fresh)
  PROVE  FactorInv' /\ FactorsAreEarned
<1>1. PICK n \in 0 .. AttemptCap : totps' = [totps EXCEPT ![a].failed = n]
  <2>1. totps[a].failed \in 0 .. AttemptCap
    BY AppRowFacts DEF AppRows
  <2> DEFINE n == (IF fresh THEN 0 ELSE totps[a].failed) + 1
  <2>2. totps' = [totps EXCEPT ![a].failed = n] /\ (fresh \/ totps[a].failed < AttemptCap)
    BY DEF reserve_totp_attempt
  <2>3. n \in 0 .. AttemptCap
    BY <2>1, <2>2, FactorAssumption
  <2> HIDE DEF n
  <2> QED BY <2>2, <2>3
<1>2. /\ totps' \in Seq(AppRows) /\ DOMAIN totps' = DOMAIN totps
      /\ \A t \in DOMAIN totps : totps'[t].step = totps[t].step /\ totps'[t].state = totps[t].state
  <2>1. /\ totps' = [t \in DOMAIN totps |-> totps'[t]]
        /\ \A t \in DOMAIN totps : totps'[t] = IF t = a THEN [totps[t] EXCEPT !.failed = n] ELSE totps[t]
    BY <1>1, AppRowFacts
  <2>2. \A t \in DOMAIN totps :
          totps'[t] \in AppRows /\ totps'[t].step = totps[t].step /\ totps'[t].state = totps[t].state
    BY <2>1, AppRowFacts DEF AppRows
  <2> QED BY <2>1, <2>2, AppRowFacts, RowsRewritten
<1>3. AppsStay /\ StepsGrow
  BY <1>2, AppRowFacts DEF AppsStay, StepsGrow
<1>4. PendingApps' = PendingApps /\ ActiveApps' = ActiveApps
  BY <1>2 DEF PendingApps, ActiveApps
<1>5. OneApp'
  BY <1>4 DEF OneApp, FactorInv
<1>6. ChecksRead'
  <2>1. checks' = [checks EXCEPT ![c] = [op |-> "totp", way |-> w, totp |-> a, last |-> totps[a].step]]
    BY DEF reserve_totp_attempt, CheckBegins
  <2> QED BY <2>1 DEF reserve_totp_attempt, ChecksRead, FactorInv
<1>7. \A t \in DOMAIN totps' : totps'[t].state = "active" => t \in DOMAIN totps /\ totps[t].state = "active"
  BY <1>4 DEF ActiveApps
<1> QED BY <1>2, <1>3, <1>5, <1>6, <1>7, SetupsHold DEF reserve_totp_attempt

\* A code is right: a setup becomes the person's app, in place of the one a recovery replaces.
LEMMA CodeHolds ==
  ASSUME FactorInv, NEW c \in Checking, NEW step \in 1 .. MaxStep, complete_totp(c, step)
  PROVE  FactorInv' /\ FactorsAreEarned
<1> DEFINE w == checks[c].way
           a == checks[c].totp
           S == IF a \in PendingApps THEN ActiveApps ELSE {}
           old == AppsGone(totps, S)
           row == [state |-> "active", step |-> step, failed |-> 0]
<1>1. /\ checks[c].op = "totp" /\ w \in DOMAIN ways /\ a \in PendingApps \cup ActiveApps /\ a \in DOMAIN totps
      /\ step > totps[a].step
      /\ a \in PendingApps => mfa_enrolment_verdict(w, "totp")
      /\ CheckEnds(c) /\ UNCHANGED <<passkeys, ceremonies, window>>
  BY DEF complete_totp, mfa_lock_session, PendingApps, ActiveApps
<1>2. totps' = [old EXCEPT ![a] = row]
  BY DEF complete_totp
<1>3. PICK p : p = [factor |-> "totp", id |-> a, mark |-> step]
  OBVIOUS
<1>4. IF SecondFactor(w) # "passkey" THEN mfa_raise_session(w, p) ELSE UNCHANGED <<ways, proofs>>
  BY <1>3 DEF complete_totp
<1>5. RecoveryTyped' /\ CodesAreLost
  <2>1. (\E b \in BOOLEAN : mfa_store_recovery_codes(b)) \/ UNCHANGED recovery
    BY DEF complete_totp
  <2>2. CASE UNCHANGED recovery
    BY <2>2 DEF FactorInv, FactorTyped, RecoveryTyped, Issued, CodesAreLost
  <2> QED BY <2>1, <2>2, CodesStored DEF FactorInv
<1>6. row \in AppRows /\ row.state = "active" /\ row.step = step /\ step \in Nat
  BY FactorAssumption DEF AppRows
<1>7. p \in ProofRows /\ p.factor = "totp" /\ p.id = a /\ p.mark = step
  BY <1>1, <1>6, <1>3, AppRowFacts DEF ProofRows
<1>8. /\ old \in Seq(AppRows) /\ DOMAIN old = DOMAIN totps
      /\ \A t \in DOMAIN totps :
           /\ old[t] \in AppRows /\ old[t].step = totps[t].step
           /\ t \in S => old[t].state = "gone"
           /\ t \notin S => old[t] = totps[t]
  BY AppRowFacts, GoneApps
<1> HIDE DEF w, a, old, row
<1>9. /\ totps' \in Seq(AppRows) /\ DOMAIN totps' = DOMAIN totps
      /\ totps'[a] = row /\ \A t \in DOMAIN totps \ {a} : totps'[t] = old[t]
  <2>1. old = [t \in DOMAIN old |-> old[t]]
    BY <1>8, RowsAreMapped
  <2>2. totps' = [t \in DOMAIN old |-> totps'[t]] /\ \A t \in DOMAIN old : totps'[t] \in AppRows
    BY <1>2, <1>6, <1>8, <2>1
  <2> QED BY <1>1, <1>2, <1>8, <2>1, <2>2, RowsRewritten
<1>10. StepsGrow
  BY <1>1, <1>6, <1>8, <1>9, AppRowFacts DEF StepsGrow
<1>11. AppsStay \/ Limited(w)
  <2>1. ActiveApps = {} \/ Limited(w) \/ a \notin PendingApps
    BY <1>1 DEF mfa_enrolment_verdict, mfa_has_totp, ActiveApps
  <2>2. S = {} => AppsStay
    BY <1>1, <1>6, <1>8, <1>9 DEF AppsStay
  <2> QED BY <2>1, <2>2
<1>12. KeysStay /\ SpentStays
  BY <1>1 DEF KeysStay, SpentStays
<1>13. Firm(p)' /\ ~UsedUp(p) /\ UsedUp(p)'
  <2>1. Firm(p)' /\ UsedUp(p)'
    BY <1>1, <1>6, <1>7, <1>9 DEF Firm, UsedUp
  <2>2. ~UsedUp(p)
    BY <1>1, <1>6, <1>7, AppRowFacts DEF UsedUp
  <2> QED BY <2>1, <2>2
<1>14. ways' \in Seq(WayRows) /\ LiveProofsFirm' /\ OneRecovery'
  <2>1. CASE SecondFactor(w) # "passkey"
    BY <1>1, <1>4, <1>7, <1>11, <1>12, <1>13, <2>1, RaisingHolds DEF FactorInv
  <2>2. CASE SecondFactor(w) = "passkey"
    <3>1. WaysClose /\ AppsStay
      BY <1>4, <1>11, <2>2 DEF WaysClose, Limited
    <3> QED BY <1>4, <1>12, <2>2, <3>1, ClosingKeepsFirm, ClosingKeepsOneRecovery DEF FactorInv, FactorTyped
  <2> QED BY <2>1, <2>2
<1>15. proofs' = Append(proofs, p) \/ UNCHANGED proofs
  BY <1>4 DEF mfa_raise_session
<1>16. FactorTyped'
  <2>1. proofs \in Seq(ProofRows)
    BY DEF FactorInv, FactorTyped
  <2>2. proofs' \in Seq(ProofRows)
    <3>1. CASE proofs' = Append(proofs, p)
      BY <1>7, <2>1, <3>1, RowAdded
    <3> QED BY <1>15, <2>1, <3>1
  <2> QED BY <1>1, <1>5, <1>9, <1>14, <2>2 DEF FactorInv, FactorTyped
<1>17. RecordUsedUp' /\ NothingProvesTwice'
  BY <1>5, <1>7, <1>10, <1>12, <1>13, <1>15, <1>16, RecordKept, RecordAdded DEF FactorInv
<1>18. ChecksRead'
  BY <1>1, ChecksKept DEF FactorInv
<1>19. IF a \in PendingApps THEN ActiveApps' = {a} /\ PendingApps' \subseteq PendingApps
       ELSE ActiveApps' = ActiveApps /\ PendingApps' \subseteq PendingApps
  BY <1>1, <1>6, <1>8, <1>9 DEF ActiveApps, PendingApps
<1>20. OneApp'
  BY <1>19 DEF OneApp, FactorInv
<1>21. FactorsAreEarned
  <2>1. <<"totp", a>> \in Factors'
    BY <1>1, <1>19 DEF Factors
  <2>2. CASE a \notin PendingApps
    <3>1. Factors' = Factors
      BY <1>1, <1>19, <2>2 DEF Factors
    <3> QED BY <2>1, <3>1 DEF FactorsAreEarned
  <2>3. CASE a \in PendingApps
    <3>1. ASSUME Factors # {} PROVE SecondFactor(w) # "none"
      <4>1. mfa_has_passkey \/ mfa_has_totp
        BY <3>1 DEF Factors, ActiveApps, mfa_has_passkey, mfa_has_totp
      <4> QED BY <1>1, <2>3, <4>1 DEF mfa_enrolment_verdict, Limited
    <3>2. checks'[c] = Idle /\ checks[c] # Idle
      BY <1>1 DEF CheckEnds, FactorInv, ChecksRead, Idle
    <3>3. ~(Len(passkeys') > Len(passkeys))
      BY <1>1 DEF FactorInv, FactorTyped
    <3> QED BY <2>1, <3>1, <3>2, <3>3 DEF FactorsAreEarned, w
  <2> QED BY <2>2, <2>3
<1> QED BY <1>14, <1>16, <1>17, <1>18, <1>20, <1>21 DEF FactorInv

-----------------------------------------------------------------------------
(* SecondFactors: codes of recovery, removal and reset.                    *)

\* Everything ends but, at most, one session.
LEMMA OthersEndHolds ==
  ASSUME FactorInv, NEW keep, ways' = mfa_revoke_other_sessions(ways, keep),
         \A w \in DOMAIN ways : w = keep => \A p \in ProofRows : ways[w].live /\ ways[w].proof = p => Firm(p)'
  PROVE  ways' \in Seq(WayRows) /\ LiveProofsFirm' /\ OneRecovery'
<1>1. /\ ways' \in Seq(WayRows) /\ DOMAIN ways' = DOMAIN ways
      /\ \A w \in DOMAIN ways :
           /\ w # keep => ~ways'[w].live
           /\ w = keep => ways'[w] = ways[w]
  BY OthersEnd DEF FactorInv, FactorTyped
<1>2. LiveProofsFirm'
  BY <1>1 DEF LiveProofsFirm, LiveProof
<1>3. OneRecovery'
  BY <1>1 DEF OneRecovery, Recovers
<1> QED BY <1>1, <1>2, <1>3

LEMMA RecoveryHolds ==
  ASSUME FactorInv, NEW w \in DOMAIN ways, NEW code \in recovery.usable, consume_recovery_code(w, code)
  PROVE  FactorInv' /\ FactorsAreEarned
<1>1. PICK p : p = [factor |-> "recovery_code", id |-> code, mark |-> 0]
  OBVIOUS
<1> DEFINE raised == [ways EXCEPT ![w].proof = p]
<1>2. /\ recovery' = [recovery EXCEPT !.usable = @ \ {code}]
      /\ proofs' = Append(proofs, p) /\ ways' = mfa_revoke_other_sessions(raised, w)
      /\ UNCHANGED <<passkeys, totps, ceremonies, window, checks>>
  BY <1>1 DEF consume_recovery_code
<1>3. /\ recovery'.sets = recovery.sets /\ recovery'.usable = recovery.usable \ {code}
      /\ recovery' = [usable |-> recovery'.usable, sets |-> recovery'.sets]
  BY <1>2 DEF FactorInv, FactorTyped, RecoveryTyped
<1>4. code \in Issued /\ code \in Nat /\ Issued' = Issued
  BY <1>3 DEF Issued, FactorInv, FactorTyped, RecoveryTyped
<1>5. p \in ProofRows /\ p.factor = "recovery_code" /\ p.id = code
  BY <1>1, <1>4 DEF ProofRows
<1>6. /\ raised \in Seq(WayRows) /\ DOMAIN raised = DOMAIN ways
  <2>1. ways \in Seq(WayRows) /\ ways = [v \in DOMAIN ways |-> ways[v]] /\ \A v \in DOMAIN ways : ways[v] \in WayRows
    BY RowsAreMapped DEF FactorInv, FactorTyped
  <2>2. \A v \in DOMAIN ways : raised[v] = IF v = w THEN [ways[v] EXCEPT !.proof = p] ELSE ways[v]
    BY <2>1
  <2>3. raised = [v \in DOMAIN ways |-> raised[v]] /\ \A v \in DOMAIN ways : raised[v] \in WayRows
    BY <1>5, <2>1, <2>2 DEF WayRows
  <2> HIDE DEF raised
  <2> QED BY <2>1, <2>3, RowsRewritten
<1>7. raised[w].proof = p
  <2>1. ways[w] \in WayRows
    BY RowsAreMapped DEF FactorInv, FactorTyped
  <2>2. raised[w] = [ways[w] EXCEPT !.proof = p]
    OBVIOUS
  <2> HIDE DEF raised
  <2> QED BY <2>1, <2>2 DEF WayRows
<1> HIDE DEF raised
<1>8. /\ ways' \in Seq(WayRows) /\ DOMAIN ways' = DOMAIN ways
      /\ \A v \in DOMAIN ways : (v # w => ~ways'[v].live) /\ (v = w => ways'[v] = raised[v])
  BY <1>2, <1>6, OthersEnd
<1>9. LiveProofsFirm' /\ OneRecovery'
  <2>1. LiveProofsFirm'
    BY <1>5, <1>7, <1>8 DEF LiveProofsFirm, LiveProof, Firm
  <2>2. OneRecovery'
    BY <1>8 DEF OneRecovery, Recovers
  <2> QED BY <2>1, <2>2
<1>10. StepsGrow /\ SpentStays /\ CodesAreLost
  BY <1>2, <1>3, <1>4, AppRowFacts DEF StepsGrow, SpentStays, CodesAreLost
<1>11. FactorTyped'
  BY <1>2, <1>3, <1>4, <1>5, <1>8, RowAdded DEF FactorInv, FactorTyped, RecoveryTyped
<1>12. ~UsedUp(p) /\ UsedUp(p)'
  BY <1>3, <1>4, <1>5 DEF UsedUp
<1>13. RecordUsedUp' /\ NothingProvesTwice'
  BY <1>2, <1>5, <1>10, <1>11, <1>12, RecordAdded DEF FactorInv
<1>14. ChecksRead'
  BY <1>2, ChecksKept DEF FactorInv
<1>15. OneApp'
  BY <1>2 DEF FactorInv, OneApp, ActiveApps, PendingApps
<1>16. FactorsAreEarned
  BY <1>2, FactorsStay DEF KeysStay, AppsStay
<1> QED BY <1>9, <1>11, <1>13, <1>14, <1>15, <1>16 DEF FactorInv

LEMMA NewCodesHold ==
  ASSUME FactorInv, NEW w \in DOMAIN ways, regenerate_recovery_codes(w)
  PROVE  FactorInv' /\ FactorsAreEarned
<1>1. mfa_store_recovery_codes(FALSE) /\ UNCHANGED <<ways, passkeys, totps, ceremonies, proofs, window, checks>>
  BY DEF regenerate_recovery_codes
<1>2. RecoveryTyped' /\ CodesAreLost
  BY <1>1, CodesStored DEF FactorInv
<1>3. FactorTyped'
  BY <1>1, <1>2 DEF FactorInv, FactorTyped
<1>4. WaysClose /\ KeysStay /\ AppsStay /\ StepsGrow /\ SpentStays
  BY <1>1, AppRowFacts DEF WaysClose, KeysStay, AppsStay, StepsGrow, SpentStays
<1>5. LiveProofsFirm' /\ OneRecovery' /\ RecordUsedUp' /\ NothingProvesTwice'
  BY <1>1, <1>2, <1>3, <1>4, ClosingKeepsFirm, ClosingKeepsOneRecovery, RecordKept DEF FactorInv
<1>6. ChecksRead' /\ OneApp'
  BY <1>1, ChecksKept DEF FactorInv, OneApp, ActiveApps, PendingApps
<1>7. FactorsAreEarned
  BY <1>1, <1>4, FactorsStay
<1> QED BY <1>3, <1>5, <1>6, <1>7 DEF FactorInv

\* Factors go, and with them what rests on them.
LEMMA LossesHold ==
  ASSUME FactorInv, passkeys' \in Seq(PasskeyRows), DOMAIN passkeys' = DOMAIN passkeys,
         totps' \in Seq(AppRows), DOMAIN totps' = DOMAIN totps, StepsGrow,
         PendingApps' \subseteq PendingApps, ActiveApps' \subseteq ActiveApps,
         RecoveryTyped', CodesAreLost, window' \in BOOLEAN, UNCHANGED <<ceremonies, proofs, checks>>,
         ways' \in Seq(WayRows), LiveProofsFirm', OneRecovery'
  PROVE  FactorInv'
<1>1. FactorTyped'
  BY DEF FactorInv, FactorTyped
<1>2. RecordUsedUp' /\ NothingProvesTwice'
  BY <1>1, RecordKept DEF FactorInv, SpentStays
<1>3. ChecksRead' /\ OneApp'
  BY ChecksKept DEF FactorInv, OneApp
<1> QED BY <1>1, <1>2, <1>3 DEF FactorInv

LEMMA RemovalHolds ==
  ASSUME FactorInv, NEW w \in DOMAIN ways, NEW f \in Factors, remove_authenticator(w, f[1], f[2])
  PROVE  FactorInv' /\ FactorsAreEarned
<1>1. PICK what, i : what = f[1] /\ i = f[2] /\ f = <<what, i>>
  BY DEF Factors
<1>2. \/ what = "passkey" /\ i \in DOMAIN passkeys /\ passkeys[i].active
      \/ what = "totp" /\ i \in ActiveApps /\ i \in DOMAIN totps
  BY <1>1 DEF Factors, ActiveApps
<1>3. PICK g \in Factors : g # <<what, i>>
  <2>1. Cardinality(Factors) > 1 /\ Factors # {}
    BY DEF remove_authenticator
  <2>2. ASSUME \A g \in Factors : g = <<what, i>> PROVE FALSE
    <3>1. Factors = {<<what, i>>}
      BY <2>1, <2>2
    <3> QED BY <2>1, <3>1, FS_Singleton
  <2> QED BY <2>2
<1> DEFINE ending == ways[w].proof.factor = what /\ ways[w].proof.id = i
           keep == IF ending THEN 0 ELSE w
<1>4. /\ ways[w].live
      /\ passkeys' = IF what = "passkey" THEN [passkeys EXCEPT ![i].active = FALSE] ELSE passkeys
      /\ totps' = IF what = "totp" THEN AppsGone(totps, {i}) ELSE totps
      /\ ways' = mfa_revoke_other_sessions(ways, keep)
      /\ UNCHANGED <<recovery, ceremonies, proofs, window, checks>>
  BY <1>1 DEF remove_authenticator, resolve_session
<1>5. /\ passkeys' \in Seq(PasskeyRows) /\ DOMAIN passkeys' = DOMAIN passkeys
      /\ \A k \in DOMAIN passkeys :
           passkeys'[k].active <=> passkeys[k].active /\ ~(what = "passkey" /\ k = i)
  <2>1. /\ passkeys \in Seq(PasskeyRows) /\ passkeys = [k \in DOMAIN passkeys |-> passkeys[k]]
        /\ \A k \in DOMAIN passkeys : passkeys[k] \in PasskeyRows
    BY RowsAreMapped DEF FactorInv, FactorTyped
  <2>2. CASE what = "passkey"
    <3>1. /\ passkeys' = [k \in DOMAIN passkeys |-> passkeys'[k]]
          /\ \A k \in DOMAIN passkeys :
               passkeys'[k] = IF k = i THEN [passkeys[k] EXCEPT !.active = FALSE] ELSE passkeys[k]
      BY <1>4, <2>1, <2>2
    <3>2. \A k \in DOMAIN passkeys : /\ passkeys'[k] \in PasskeyRows
                                     /\ passkeys'[k].active <=> passkeys[k].active /\ k # i
      BY <2>1, <3>1 DEF PasskeyRows
    <3> QED BY <2>1, <2>2, <3>1, <3>2, RowsRewritten
  <2>3. CASE what # "passkey"
    BY <1>4, <2>1, <2>3
  <2> QED BY <2>2, <2>3
<1>6. /\ totps' \in Seq(AppRows) /\ DOMAIN totps' = DOMAIN totps /\ StepsGrow
      /\ PendingApps' = PendingApps
      /\ ActiveApps' = IF what = "totp" THEN ActiveApps \ {i} ELSE ActiveApps
  <2>1. CASE what = "totp"
    <3>1. totps' = AppsGone(totps, {i}) /\ totps[i].state = "active"
      BY <1>2, <1>4, <2>1 DEF ActiveApps
    <3>2. /\ totps' \in Seq(AppRows) /\ DOMAIN totps' = DOMAIN totps
          /\ \A t \in DOMAIN totps :
               /\ totps'[t].step = totps[t].step
               /\ t \in {i} => totps'[t].state = "gone"
               /\ t \notin {i} => totps'[t] = totps[t]
      BY <3>1, AppRowFacts, GoneApps
    <3>3. StepsGrow
      BY <3>2, AppRowFacts DEF StepsGrow
    <3>4. PendingApps' = PendingApps /\ ActiveApps' = ActiveApps \ {i}
      BY <3>1, <3>2, ZenonT(30) DEF PendingApps, ActiveApps
    <3> QED BY <2>1, <3>2, <3>3, <3>4
  <2>2. CASE what # "totp"
    BY <1>4, <2>2, AppRowFacts DEF StepsGrow, PendingApps, ActiveApps
  <2> QED BY <2>1, <2>2
<1>7. RecoveryTyped' /\ CodesAreLost
  BY <1>4 DEF FactorInv, FactorTyped, RecoveryTyped, Issued, CodesAreLost
<1>8. ASSUME NEW p \in ProofRows, ways[w].live, ways[w].proof = p, ~ending PROVE Firm(p)'
  <2>1. Firm(p)
    BY <1>8 DEF FactorInv, LiveProofsFirm, LiveProof
  <2>2. p.factor = "passkey" => p.id \in DOMAIN passkeys' /\ passkeys'[p.id].active
    BY <1>5, <1>8, <2>1 DEF Firm
  <2>3. p.factor = "totp" => p.id \in DOMAIN totps' /\ totps'[p.id].state = "active"
    BY <1>6, <1>8, <2>1 DEF Firm, ActiveApps
  <2> QED BY <2>2, <2>3 DEF Firm
<1>9. ways' \in Seq(WayRows) /\ LiveProofsFirm' /\ OneRecovery'
  <2>1. \A v \in DOMAIN ways : v # 0
    BY DEF FactorInv, FactorTyped
  <2>2. PICK kept : kept = keep
    OBVIOUS
  <2>3. \A v \in DOMAIN ways : v = kept => v = w /\ ~ending
    BY <2>1, <2>2
  <2> HIDE DEF keep, ending
  <2> QED BY <1>4, <1>8, <2>2, <2>3, OthersEndHolds
<1>10. FactorInv'
  BY <1>4, <1>5, <1>6, <1>7, <1>9, LossesHold DEF FactorInv, FactorTyped
<1>11. Factors' \subseteq Factors /\ g \in Factors'
  BY <1>3, <1>5, <1>6 DEF Factors
<1> QED BY <1>10, <1>11 DEF FactorsAreEarned

LEMMA ResetHolds ==
  ASSUME FactorInv, FactorsReset
  PROVE  FactorInv' /\ FactorsAreEarned
<1>1. /\ passkeys' = [k \in DOMAIN passkeys |-> [passkeys[k] EXCEPT !.active = FALSE]]
      /\ totps' = AppsGone(totps, DOMAIN totps)
      /\ recovery' = [recovery EXCEPT !.usable = {}]
      /\ ways' = mfa_revoke_other_sessions(ways, 0)
      /\ window' = TRUE /\ UNCHANGED <<ceremonies, proofs, checks>>
  BY DEF FactorsReset
<1>2. /\ passkeys' \in Seq(PasskeyRows) /\ DOMAIN passkeys' = DOMAIN passkeys
      /\ \A k \in DOMAIN passkeys : ~passkeys'[k].active
  <2>1. /\ passkeys \in Seq(PasskeyRows) /\ \A k \in DOMAIN passkeys : passkeys[k] \in PasskeyRows
    BY RowsAreMapped DEF FactorInv, FactorTyped
  <2>2. passkeys' = [k \in DOMAIN passkeys |-> passkeys'[k]]
        /\ \A k \in DOMAIN passkeys : passkeys'[k] = [passkeys[k] EXCEPT !.active = FALSE]
    BY <1>1
  <2>3. \A k \in DOMAIN passkeys : passkeys'[k] \in PasskeyRows /\ ~passkeys'[k].active
    BY <2>1, <2>2 DEF PasskeyRows
  <2> QED BY <2>1, <2>2, <2>3, RowsRewritten
<1>3. /\ totps' \in Seq(AppRows) /\ DOMAIN totps' = DOMAIN totps
      /\ \A t \in DOMAIN totps : totps'[t].step = totps[t].step /\ totps'[t].state = "gone"
  BY <1>1, AppRowFacts, GoneApps
<1>4. StepsGrow /\ PendingApps' = {} /\ ActiveApps' = {}
  BY <1>3, AppRowFacts DEF StepsGrow, PendingApps, ActiveApps
<1>5. RecoveryTyped' /\ CodesAreLost
  <2>1. recovery'.sets = recovery.sets /\ recovery'.usable = {}
        /\ recovery' = [usable |-> recovery'.usable, sets |-> recovery'.sets]
    BY <1>1 DEF FactorInv, FactorTyped, RecoveryTyped
  <2> QED BY <2>1 DEF FactorInv, FactorTyped, RecoveryTyped, Issued, CodesAreLost
<1>6. /\ ways' \in Seq(WayRows) /\ LiveProofsFirm' /\ OneRecovery'
      /\ DOMAIN ways' = DOMAIN ways /\ \A w \in DOMAIN ways : ~ways'[w].live
  <2>1. \A v \in DOMAIN ways : v # 0
    BY DEF FactorInv, FactorTyped
  <2>2. DOMAIN ways' = DOMAIN ways /\ \A w \in DOMAIN ways : w # 0 => ~ways'[w].live
    BY <1>1, OthersEnd DEF FactorInv, FactorTyped
  <2> QED BY <1>1, <2>1, <2>2, OthersEndHolds
<1>7. FactorInv'
  BY <1>1, <1>2, <1>3, <1>4, <1>5, <1>6, LossesHold
<1>8. Factors' = {}
  BY <1>2, <1>4 DEF Factors
<1> QED BY <1>6, <1>7, <1>8 DEF FactorsAreEarned

-----------------------------------------------------------------------------
(* SecondFactors: the theorems.                                            *)

LEMMA FactorStart == FactorInit => FactorInv
<1> SUFFICES ASSUME FactorInit PROVE FactorInv
  OBVIOUS
<1>1. FactorTyped
  <2>1. Issued = 1 .. 0
    BY FactorAssumption DEF FactorInit, Issued
  <2> QED BY <2>1, FactorAssumption DEF FactorInit, FactorTyped, RecoveryTyped
<1>2. ChecksRead
  BY DEF FactorInit, ChecksRead, Idle
<1>3. DOMAIN ways = {} /\ DOMAIN totps = {} /\ DOMAIN proofs = {}
  BY DEF FactorInit
<1>4. LiveProofsFirm /\ OneRecovery /\ OneApp /\ RecordUsedUp /\ NothingProvesTwice
  BY <1>3 DEF LiveProofsFirm, LiveProof, OneRecovery, OneApp, ActiveApps, PendingApps, RecordUsedUp, OnRecord,
              NothingProvesTwice
<1> QED BY <1>1, <1>2, <1>4 DEF FactorInv

LEMMA FactorStep ==
  FactorInv /\ [FactorNext]_factorVars => FactorInv' /\ FactorsAreEarned
<1> SUFFICES ASSUME FactorInv, [FactorNext]_factorVars PROVE FactorInv' /\ FactorsAreEarned
  OBVIOUS
<1>1. CASE FirstFactor \/ FactorsReset
  BY <1>1, SignInHolds, ResetHolds
<1>2. CASE open_bootstrap_enrolment_window \/ WindowCloses \/ UNCHANGED factorVars
  BY <1>2, WindowHolds
<1>3. CASE revoke_subject_sessions \/ \E w \in DOMAIN ways : SessionEnds(w)
  BY <1>3, EndsHold
<1>4. CASE \/ \E h \in DOMAIN ceremonies : ChallengeExpires(h)
           \/ \E w \in DOMAIN ways, purpose \in {"registration", "authentication"} :
                create_webauthn_challenge(w, purpose)
  BY <1>4, ChallengesHold
<1>5. CASE \E t \in DOMAIN totps : SetupExpires(t)
  BY <1>5, SetupExpiryHolds
<1>6. CASE \E w \in DOMAIN ways :
             \/ begin_totp_enrolment(w)
             \/ \E code \in recovery.usable : consume_recovery_code(w, code)
             \/ regenerate_recovery_codes(w)
  BY <1>6, BeginningHolds, RecoveryHolds, NewCodesHold
<1>7. CASE \E w \in DOMAIN ways : \E f \in Factors : remove_authenticator(w, f[1], f[2])
  BY <1>7, RemovalHolds
<1>8. CASE \E w \in DOMAIN ways, c \in Checking :
             \/ RegistrationReads(c, w)
             \/ \E k \in DOMAIN passkeys, count \in 0 .. MaxCount : AuthenticationReads(c, w, k, count)
  BY <1>8, ChecksHold
<1>9. CASE \E w \in DOMAIN ways, c \in Checking :
             \E t \in DOMAIN totps, fresh \in BOOLEAN : reserve_totp_attempt(c, w, t, fresh)
  BY <1>9, AttemptHolds
<1>10. CASE \E c \in Checking :
              \/ CheckFails(c)
              \/ complete_webauthn_registration(c) \/ complete_webauthn_authentication(c)
              \/ \E step \in 1 .. MaxStep : complete_totp(c, step)
  BY <1>10, ChecksHold, RegistrationHolds, AuthenticationHolds, CodeHolds
<1> QED BY <1>1, <1>2, <1>3, <1>4, <1>5, <1>6, <1>7, <1>8, <1>9, <1>10 DEF FactorNext

LEMMA FactorAlways == FactorSpec => []FactorInv
<1> QED BY FactorStart, FactorStep, PTL DEF FactorSpec

LEMMA AtMostOne ==
  ASSUME NEW S, \A x, y \in S : x = y
  PROVE  Cardinality(S) <= 1
<1>1. CASE S = {}
  BY <1>1, FS_EmptySet
<1>2. ASSUME NEW x \in S PROVE Cardinality(S) <= 1
  <2>1. S = {x}
    OBVIOUS
  <2> QED BY <2>1, FS_Singleton
<1> QED BY <1>1, <1>2

LEMMA IssuedInBound ==
  ASSUME RecoveryTyped
  PROVE  recovery.usable \subseteq 1 .. MaxSets * CodesInSet
<1> DEFINE n == recovery.sets
           rest == MaxSets - n
<1>1. n \in Nat /\ rest \in Nat /\ MaxSets = n + rest /\ CodesInSet \in Nat
  BY FactorAssumption DEF RecoveryTyped
<1> HIDE DEF n, rest
<1>2. MaxSets * CodesInSet = n * CodesInSet + rest * CodesInSet
      /\ n * CodesInSet \in Nat /\ rest * CodesInSet \in Nat
  BY <1>1
<1>3. recovery.usable \subseteq 1 .. n * CodesInSet
  BY DEF RecoveryTyped, Issued, n
<1> QED BY <1>2, <1>3

\* No session outlives its factor, one session recovers and one app is the person's at a time,
\* and a challenge, a code of the app and a recovery code prove once, for any checks racing.
THEOREM FactorsAlwaysHold == FactorSpec => []FactorsHold
<1>1. FactorInv => FactorsHold
  <2> SUFFICES ASSUME FactorInv PROVE FactorsHold
    OBVIOUS
  <2>1. FactorTypeOK
    <3>1. \A w \in DOMAIN ways : ways[w] \in WayRows
      BY RowsAreMapped DEF FactorInv, FactorTyped
    <3>2. \A t \in DOMAIN totps : totps[t] \in AppRows
      BY AppRowFacts
    <3>3. recovery.usable \subseteq 1 .. MaxSets * CodesInSet
      BY IssuedInBound DEF FactorInv, FactorTyped
    <3>4. DOMAIN checks = Checking
      BY DEF FactorInv, ChecksRead
    <3> QED BY <3>1, <3>2, <3>3, <3>4, FactorAssumption DEF FactorTypeOK, WayRows, AppRows
  <2>2. SessionsRestOnFactors
    <3> SUFFICES ASSUME NEW w \in DOMAIN ways, ways[w].live PROVE Stands(ways[w].proof)
      BY DEF SessionsRestOnFactors
    <3>1. ways[w] \in WayRows
      BY RowsAreMapped DEF FactorInv, FactorTyped
    <3>2. ways[w].proof \in ProofRows
      BY <3>1 DEF WayRows
    <3>3. Firm(ways[w].proof)
      BY <3>2 DEF FactorInv, LiveProofsFirm, LiveProof
    <3> QED BY <3>3 DEF Firm, Stands
  <2>3. OneRecovers
    <3>1. \A v, w \in {x \in DOMAIN ways : ways[x].live /\ Limited(x)} : v = w
      BY DEF FactorInv, OneRecovery, Recovers
    <3>2. Cardinality({w \in DOMAIN ways : ways[w].live /\ Limited(w)}) <= 1
      BY <3>1, AtMostOne
    <3>3. Cardinality(ActiveApps) <= 1 /\ Cardinality(PendingApps) <= 1
      BY AtMostOne DEF FactorInv, OneApp
    <3> QED BY <3>2, <3>3 DEF OneRecovers
  <2> QED BY <2>1, <2>2, <2>3 DEF FactorsHold, FactorInv
<1> QED BY <1>1, FactorAlways, PTL

\* Who has only the first factor adds nothing to an account that has a second one, and the
\* last factor goes only with every session.
THEOREM EnrolmentsAreEarned == FactorSpec => EnrolmentIsEarned
<1>1. FactorInv /\ [FactorNext]_factorVars => [FactorsAreEarned]_factorVars
  BY FactorStep
<1> QED BY <1>1, FactorAlways, PTL DEF FactorSpec, EnrolmentIsEarned

-----------------------------------------------------------------------------
(* Accounts: the rows of requests and what each of them stands for.        *)

RequestKinds == {"suspend", "reinstate", "reset", "email", "elevate", "grant", "revoke", "invite"}
RequestStates == {"pending", "approved", "rejected", "completed", "expired", "withdrawn",
                  "active", "released", "revoked"}
\* Whatever the times are.
RequestRows(T) ==
  [kind : RequestKinds, target : Person \cup {NobodyYet}, by : Person,
   decider : Person \cup {NobodyYet}, state : RequestStates, closed : BOOLEAN,
   window : BOOLEAN, at : T, for : T]
RequestsFit == \E T : requests \in Seq(RequestRows(T))
IsRequest(r) == \E T : r \in RequestRows(T)

RowCounts(r) == r.state \in {"pending", "approved", "completed"} \/ r.closed
PartsOf(r) == {r.by, r.decider} \ {NobodyYet}
OfRecovery(r) == Side(r.kind) \in RecoverySides

\* What a suspension of p has to close ...
Standing(r, p) ==
  \/ r.state = "pending" /\ (r.by = p \/ (r.target = p /\ r.kind \in {"email", "reset"}))
  \/ r.kind = "email" /\ r.state = "approved" /\ p \in {r.target} \cup PartsOf(r)
  \/ r.kind = "reset" /\ r.state = "approved" /\ r.window /\ ~r.closed /\ r.decider = p
\* ... and what a suspended p must not have.
Says(r, p) ==
  \/ r.by = p /\ r.state = "pending"
  \/ r.kind = "email" /\ r.state = "approved" /\ p \in {r.target} \cup PartsOf(r)
  \/ r.kind = "reset" /\ r.decider = p /\ r.window /\ ~r.closed
  \/ r.kind = "elevate" /\ r.target = p /\ r.state = "active" /\ r.window

RowStands(r) ==
  /\ r.state \in {"pending", "active"} => ~r.closed
  /\ r.kind = "reset" /\ r.window => r.state = "approved"
  /\ r.kind = "elevate" => r.by = r.target
  /\ r.kind # "invite" => r.target \in Person
RowsStand == \A i \in DOMAIN requests : RowStands(requests[i])

SaysNothing == \A p \in Person : people[p].suspended => \A i \in DOMAIN requests : ~Says(requests[i], p)

\* The rows an open suspension has locked.
Held(p) == {open[p].suspension.request} \cup open[p].suspension.closes

\* An open suspension has its request and all it has to close under lock, nobody
\* else has, and its decider still takes part in nothing else about the person.
SuspensionReady(p) ==
  LET s == open[p].suspension IN
  /\ s.request \in DOMAIN requests /\ s.closes \subseteq DOMAIN requests /\ s.decider \in Person
  /\ requests[s.request].kind = "suspend" /\ requests[s.request].target = p
  /\ requests[s.request].state = "pending"
  /\ \A i \in DOMAIN requests : Standing(requests[i], p) => i \in Held(p)
  /\ \A i \in s.closes : RowCounts(requests[i])
  /\ ~recovery_separation_conflict(p, s.decider, "suspension")
HeldApart == \A p, q \in Person : p # q /\ Suspending(p) /\ Suspending(q) => Held(p) \cap Held(q) = {}
SuspensionsReady == \A p \in Person : Suspending(p) => SuspensionReady(p)

AuthorityInv ==
  RequestsFit /\ RowsStand /\ SuspensionsReady /\ HeldApart /\ SaysNothing /\ SidesApart

LEMMA RequestFacts ==
  ASSUME RequestsFit
  PROVE  /\ requests = [i \in DOMAIN requests |-> requests[i]]
         /\ \A i \in DOMAIN requests : IsRequest(requests[i])
         /\ DOMAIN requests = 1 .. Len(requests) /\ Len(requests) \in Nat
<1>1. PICK T : requests \in Seq(RequestRows(T))
  BY DEF RequestsFit
<1>2. /\ requests = [i \in DOMAIN requests |-> requests[i]]
      /\ \A i \in DOMAIN requests : requests[i] \in RequestRows(T)
  BY <1>1, RowsAreMapped
<1> QED BY <1>1, <1>2 DEF IsRequest

\* A row of requests that is rewritten is a row of requests, with one more time perhaps.
StillRequest(r, n, U) == \A T : r \in RequestRows(T) => n \in RequestRows(T \cup U)

LEMMA RequestsRewritten ==
  ASSUME RequestsFit, requests' = [i \in DOMAIN requests |-> requests'[i]],
         NEW U, \A i \in DOMAIN requests : StillRequest(requests[i], requests'[i], U)
  PROVE  RequestsFit' /\ DOMAIN requests' = DOMAIN requests
<1>1. PICK T : requests \in Seq(RequestRows(T))
  BY DEF RequestsFit
<1>2. \A i \in DOMAIN requests : requests[i] \in RequestRows(T)
  BY <1>1, RowsAreMapped
<1>3. \A i \in DOMAIN requests : requests'[i] \in RequestRows(T \cup U)
  BY <1>2 DEF StillRequest
<1>4. requests' \in Seq(RequestRows(T \cup U))
  BY <1>1, <1>3, RowsRewritten
<1> QED BY <1>4 DEF RequestsFit

LEMMA SameRow ==
  ASSUME NEW r, NEW U PROVE StillRequest(r, r, U)
BY DEF StillRequest, RequestRows

\* The fields of a row after an update of what may change in it.
Updated(r, n, state, decider, win, closed) ==
  /\ n.kind = r.kind /\ n.target = r.target /\ n.by = r.by
  /\ n.state = state /\ n.decider = decider /\ n.window = win /\ n.closed = closed

LEMMA RequestFields ==
  ASSUME NEW r, IsRequest(r)
  PROVE  /\ r.kind \in RequestKinds /\ r.target \in Person \cup {NobodyYet} /\ r.by \in Person
         /\ r.decider \in Person \cup {NobodyYet} /\ r.state \in RequestStates
         /\ r.closed \in BOOLEAN /\ r.window \in BOOLEAN
BY DEF IsRequest, RequestRows

LEMMA RowMovedOn ==
  ASSUME NEW r, IsRequest(r), NEW s \in RequestStates,
         NEW n, n = [r EXCEPT !.state = s]
  PROVE  Updated(r, n, s, r.decider, r.window, r.closed) /\ StillRequest(r, n, {})
<1>1. Updated(r, n, s, r.decider, r.window, r.closed)
  BY DEF IsRequest, RequestRows, Updated
<1>2. ASSUME NEW V, r \in RequestRows(V) PROVE n \in RequestRows(V \cup {})
  BY <1>2 DEF RequestRows
<1> QED BY <1>1, <1>2 DEF StillRequest

LEMMA RowClosed ==
  ASSUME NEW r, IsRequest(r), NEW s \in RequestStates, NEW w, w \in BOOLEAN,
         NEW n, n = [r EXCEPT !.state = s, !.window = w]
  PROVE  Updated(r, n, s, r.decider, w, r.closed) /\ StillRequest(r, n, {})
<1>1. Updated(r, n, s, r.decider, w, r.closed)
  BY DEF IsRequest, RequestRows, Updated
<1>2. ASSUME NEW V, r \in RequestRows(V) PROVE n \in RequestRows(V \cup {})
  BY <1>2 DEF RequestRows
<1> QED BY <1>1, <1>2 DEF StillRequest

LEMMA RowLapsed ==
  ASSUME NEW r, IsRequest(r), NEW w, w \in BOOLEAN,
         NEW n, n = [r EXCEPT !.window = w]
  PROVE  Updated(r, n, r.state, r.decider, w, r.closed) /\ StillRequest(r, n, {})
<1>1. Updated(r, n, r.state, r.decider, w, r.closed)
  BY DEF IsRequest, RequestRows, Updated
<1>2. ASSUME NEW V, r \in RequestRows(V) PROVE n \in RequestRows(V \cup {})
  BY <1>2 DEF RequestRows
<1> QED BY <1>1, <1>2 DEF StillRequest

LEMMA RowStamped ==
  ASSUME NEW r, IsRequest(r), NEW s \in RequestStates, NEW t,
         NEW n, n = [r EXCEPT !.state = s, !.at = t]
  PROVE  Updated(r, n, s, r.decider, r.window, r.closed) /\ StillRequest(r, n, {t})
<1>1. Updated(r, n, s, r.decider, r.window, r.closed)
  BY DEF IsRequest, RequestRows, Updated
<1>2. ASSUME NEW V, r \in RequestRows(V) PROVE n \in RequestRows(V \cup {t})
  BY <1>2 DEF RequestRows
<1> QED BY <1>1, <1>2 DEF StillRequest

LEMMA RowDecided ==
  ASSUME NEW r, IsRequest(r), NEW s \in RequestStates, NEW d \in Person \cup {NobodyYet},
         NEW n, n = [r EXCEPT !.state = s, !.decider = d]
  PROVE  Updated(r, n, s, d, r.window, r.closed) /\ StillRequest(r, n, {})
<1>1. Updated(r, n, s, d, r.window, r.closed)
  BY DEF IsRequest, RequestRows, Updated
<1>2. ASSUME NEW V, r \in RequestRows(V) PROVE n \in RequestRows(V \cup {})
  BY <1>2 DEF RequestRows
<1> QED BY <1>1, <1>2 DEF StillRequest

LEMMA RowBegun ==
  ASSUME NEW r, IsRequest(r), NEW s \in RequestStates, NEW d \in Person \cup {NobodyYet}, NEW w, w \in BOOLEAN,
         NEW n, n = [r EXCEPT !.state = s, !.decider = d, !.window = w]
  PROVE  Updated(r, n, s, d, w, r.closed) /\ StillRequest(r, n, {})
<1>1. Updated(r, n, s, d, w, r.closed)
  BY DEF IsRequest, RequestRows, Updated
<1>2. ASSUME NEW V, r \in RequestRows(V) PROVE n \in RequestRows(V \cup {})
  BY <1>2 DEF RequestRows
<1> QED BY <1>1, <1>2 DEF StillRequest

LEMMA RowOpened ==
  ASSUME NEW r, IsRequest(r), NEW s \in RequestStates, NEW d \in Person \cup {NobodyYet}, NEW w, w \in BOOLEAN, NEW t, NEW a,
         NEW n, n = [r EXCEPT !.state = s, !.decider = d, !.window = w, !.at = t, !.for = a]
  PROVE  Updated(r, n, s, d, w, r.closed) /\ StillRequest(r, n, {t, a})
<1>1. Updated(r, n, s, d, w, r.closed)
  BY DEF IsRequest, RequestRows, Updated
<1>2. ASSUME NEW V, r \in RequestRows(V) PROVE n \in RequestRows(V \cup {t, a})
  BY <1>2 DEF RequestRows
<1> QED BY <1>1, <1>2 DEF StillRequest

-----------------------------------------------------------------------------
(* What a step may do to the requests.  All rows but one fade at most: they *)
(* count for less, and a row under lock is left alone.                      *)

Fades(r, n) ==
  /\ n.kind = r.kind /\ n.target = r.target /\ n.by = r.by
  /\ n.state # r.state => n.state \notin {"pending", "approved", "active"}
  /\ n.window => r.window
  /\ r.closed => n.closed
  /\ RowCounts(n) => RowCounts(r) /\ n.decider = r.decider
  /\ RowStands(n)

Faded(i) == i \in DOMAIN requests /\ Fades(requests[i], requests'[i])
            /\ (requests'[i] = requests[i] \/ RowFree(i)')

\* The one row that comes to count for more is filed or decided as it may be.
Earned(k) ==
  LET n == requests'[k] IN
  /\ k \in DOMAIN requests => RowFree(k)'
  /\ RowStands(n)
  /\ RowCounts(n) /\ OfRecovery(n) =>
       /\ \A q \in Person : n.target = q => ~Suspending(q)'
       /\ \A actor \in PartsOf(n) : ~recovery_separation_conflict(n.target, actor, Side(n.kind))
  /\ \A q \in Person : /\ Suspending(q)' => ~Standing(n, q)
                       /\ people[q].suspended => ~Says(n, q)

RowsMove(k) ==
  /\ DOMAIN requests \subseteq DOMAIN requests'
  /\ \A i \in DOMAIN requests' : i # k => Faded(i)
  /\ k \in DOMAIN requests' => Earned(k)

SuspensionsOnlyEnd ==
  \A p \in Person : open'[p].suspension = open[p].suspension \/ open'[p].suspension = NoSuspension
SuspensionsKept ==
  SuspensionsOnlyEnd /\ \A p \in Person : people'[p].suspended => people[p].suspended

LEMMA LocksOnlyEnd ==
  ASSUME SuspensionsOnlyEnd, RequestsFit
  PROVE  /\ \A p \in Person : Suspending(p)' => Suspending(p)
         /\ \A i \in DOMAIN requests : RowFree(i) => RowFree(i)'
<1>1. 0 \notin DOMAIN requests
  BY RequestFacts
<1>2. NoSuspension.request = 0 /\ NoSuspension.closes = {}
  BY DEF NoSuspension
<1>3. ASSUME NEW p \in Person, Suspending(p)' PROVE Suspending(p)
  BY <1>3 DEF SuspensionsOnlyEnd, Suspending
<1>4. ASSUME NEW i \in DOMAIN requests, RowFree(i), NEW p \in Person
      PROVE  i # open'[p].suspension.request /\ i \notin open'[p].suspension.closes
  BY <1>1, <1>2, <1>4 DEF SuspensionsOnlyEnd, RowFree
<1>5. \A i \in DOMAIN requests : RowFree(i) => RowFree(i)'
  BY <1>4 DEF RowFree
<1> QED BY <1>3, <1>5

LEMMA FadingRow ==
  ASSUME NEW r, NEW n, Fades(r, n), RowStands(r), NEW p
  PROVE  /\ Standing(n, p) => Standing(r, p)
         /\ Says(n, p) => Says(r, p)
         /\ RowCounts(n) => RowCounts(r) /\ PartsOf(n) = PartsOf(r)
<1>1. Standing(n, p) => RowCounts(n)
  BY DEF Standing, RowCounts
<1>2. Standing(n, p) => Standing(r, p)
  BY <1>1 DEF Fades, Standing, PartsOf
<1>3. RowCounts(n) => RowCounts(r) /\ PartsOf(n) = PartsOf(r)
  BY DEF Fades, PartsOf
<1>4. n.kind = "reset" /\ n.window => RowCounts(n)
  BY DEF Fades, RowStands, RowCounts
<1>5. n.kind = "email" /\ n.state = "approved" => RowCounts(n)
  BY DEF RowCounts
<1>6. Says(n, p) => Says(r, p)
  BY <1>4, <1>5 DEF Fades, Says, PartsOf
<1> QED BY <1>2, <1>3, <1>6

LEMMA SidesMove ==
  ASSUME SidesApart, RowsStand, NEW k, RowsMove(k)
  PROVE  SidesApart'
<1> SUFFICES ASSUME NEW i \in DOMAIN requests', NEW j \in DOMAIN requests',
                    requests'[i].target = requests'[j].target,
                    OfRecovery(requests'[i]), OfRecovery(requests'[j]),
                    Side(requests'[i].kind) # Side(requests'[j].kind),
                    RowCounts(requests'[i]), RowCounts(requests'[j]),
                    NEW actor \in PartsOf(requests'[i]) \cap PartsOf(requests'[j])
             PROVE  FALSE
  BY DEF SidesApart, OfRecovery, RowCounts, PartsOf, Counts, Parts
<1>1. ASSUME NEW m \in DOMAIN requests', m # k, RowCounts(requests'[m])
      PROVE  /\ m \in DOMAIN requests /\ RowCounts(requests[m]) /\ PartsOf(requests'[m]) = PartsOf(requests[m])
             /\ requests'[m].kind = requests[m].kind /\ requests'[m].target = requests[m].target
  BY <1>1, FadingRow DEF RowsMove, Faded, RowsStand, Fades
<1>2. ASSUME NEW m \in DOMAIN requests', NEW l \in DOMAIN requests', m # k, l = k,
             requests'[m].target = requests'[l].target, OfRecovery(requests'[l]), OfRecovery(requests'[m]),
             Side(requests'[m].kind) # Side(requests'[l].kind),
             RowCounts(requests'[m]), RowCounts(requests'[l]),
             actor \in PartsOf(requests'[m]), actor \in PartsOf(requests'[l])
      PROVE  FALSE
  <2>1. /\ m \in DOMAIN requests /\ RowCounts(requests[m]) /\ PartsOf(requests'[m]) = PartsOf(requests[m])
        /\ requests'[m].kind = requests[m].kind /\ requests'[m].target = requests[m].target
    BY <1>1, <1>2
  <2>2. ~recovery_separation_conflict(requests'[l].target, actor, Side(requests'[l].kind))
    BY <1>2 DEF RowsMove, Earned
  <2>3. /\ requests[m].target = requests'[l].target
        /\ Side(requests[m].kind) \in RecoverySides \ {Side(requests'[l].kind)}
        /\ Counts(m) /\ actor \in Parts(m)
    BY <1>2, <2>1 DEF OfRecovery, RowCounts, Counts, PartsOf, Parts
  <2> QED BY <2>1, <2>2, <2>3 DEF recovery_separation_conflict
<1>3. CASE i # k /\ j # k
  <2>1. /\ i \in DOMAIN requests /\ RowCounts(requests[i]) /\ PartsOf(requests'[i]) = PartsOf(requests[i])
        /\ requests'[i].kind = requests[i].kind /\ requests'[i].target = requests[i].target
    BY <1>1, <1>3
  <2>2. /\ j \in DOMAIN requests /\ RowCounts(requests[j]) /\ PartsOf(requests'[j]) = PartsOf(requests[j])
        /\ requests'[j].kind = requests[j].kind /\ requests'[j].target = requests[j].target
    BY <1>1, <1>3
  <2>3. /\ {Side(requests[i].kind), Side(requests[j].kind)} \subseteq RecoverySides
        /\ Side(requests[i].kind) # Side(requests[j].kind) /\ requests[i].target = requests[j].target
        /\ Counts(i) /\ Counts(j) /\ actor \in Parts(i) \cap Parts(j)
    BY <2>1, <2>2 DEF OfRecovery, RowCounts, Counts, PartsOf, Parts
  <2> QED BY <2>1, <2>2, <2>3 DEF SidesApart
<1> QED BY <1>2, <1>3

LEMMA SuspensionsMove ==
  ASSUME SuspensionsReady, HeldApart, RowsStand, NEW k, RowsMove(k), SuspensionsOnlyEnd
  PROVE  SuspensionsReady' /\ HeldApart'
<1>1. ASSUME NEW p \in Person, Suspending(p)'
      PROVE  Suspending(p) /\ open'[p].suspension = open[p].suspension /\ Held(p)' = Held(p)
  BY <1>1 DEF Suspending, SuspensionsOnlyEnd, Held
<1>2. HeldApart'
  BY <1>1 DEF HeldApart
<1>3. ASSUME NEW p \in Person, Suspending(p)' PROVE SuspensionReady(p)'
  <2> DEFINE s == open[p].suspension
  <2>1. Suspending(p) /\ SuspensionReady(p) /\ open'[p].suspension = s /\ Held(p)' = Held(p)
    BY <1>1, <1>3 DEF SuspensionsReady
  <2>2. s.request \in DOMAIN requests /\ s.closes \subseteq DOMAIN requests /\ Held(p) \subseteq DOMAIN requests
    BY <2>1 DEF SuspensionReady, Held
  <2>3. \A i \in Held(p) : ~RowFree(i)'
    BY <2>1 DEF RowFree, Held
  <2>4. \A i \in Held(p) : i \in DOMAIN requests' /\ requests'[i] = requests[i]
    BY <2>2, <2>3 DEF RowsMove, Faded, Earned
  <2>5. ASSUME NEW i \in DOMAIN requests', Standing(requests'[i], p) PROVE i \in Held(p)
    <3>1. i # k
      BY <1>3, <2>5 DEF RowsMove, Earned
    <3>2. i \in DOMAIN requests /\ Standing(requests[i], p)
      BY <2>5, <3>1, FadingRow DEF RowsMove, Faded, RowsStand
    <3> QED BY <2>1, <3>2 DEF SuspensionReady
  <2>6. ~recovery_separation_conflict(p, s.decider, "suspension")'
    <3> SUFFICES ASSUME NEW i \in DOMAIN requests', requests'[i].target = p,
                        Side(requests'[i].kind) \in RecoverySides \ {"suspension"},
                        RowCounts(requests'[i]), s.decider' \in PartsOf(requests'[i])
                 PROVE  FALSE
      BY DEF recovery_separation_conflict, Counts, RowCounts, Parts, PartsOf
    <3>1. i # k
      BY <1>3 DEF RowsMove, Earned, OfRecovery
    <3>2. /\ i \in DOMAIN requests /\ RowCounts(requests[i]) /\ PartsOf(requests'[i]) = PartsOf(requests[i])
          /\ requests'[i].kind = requests[i].kind /\ requests'[i].target = requests[i].target
      BY <3>1, FadingRow DEF RowsMove, Faded, RowsStand, Fades
    <3>3. s.decider' = s.decider /\ Counts(i) /\ s.decider \in Parts(i)
      BY <2>1, <3>2 DEF Counts, RowCounts, Parts, PartsOf
    <3> QED BY <2>1, <3>2, <3>3 DEF SuspensionReady, recovery_separation_conflict
  <2> QED BY <2>1, <2>2, <2>4, <2>5, <2>6 DEF SuspensionReady, Held
<1> QED BY <1>2, <1>3 DEF SuspensionsReady

LEMMA AuthorityMoves ==
  ASSUME AuthorityInv, RequestsFit', NEW k, RowsMove(k), SuspensionsKept
  PROVE  AuthorityInv'
<1>1. RowsStand'
  BY DEF RowsStand, RowsMove, Faded, Fades, Earned
<1>2. SaysNothing'
  <2> SUFFICES ASSUME NEW p \in Person, people'[p].suspended, NEW i \in DOMAIN requests'
               PROVE  ~Says(requests'[i], p)
    BY DEF SaysNothing
  <2>1. people[p].suspended
    BY DEF SuspensionsKept
  <2>2. CASE i = k
    BY <2>1, <2>2 DEF RowsMove, Earned
  <2>3. CASE i # k
    BY <2>1, <2>3, FadingRow DEF RowsMove, Faded, AuthorityInv, RowsStand, SaysNothing
  <2> QED BY <2>2, <2>3
<1>3. SuspensionsOnlyEnd
  BY DEF SuspensionsKept
<1> QED BY <1>1, <1>2, <1>3, SidesMove, SuspensionsMove DEF AuthorityInv

-----------------------------------------------------------------------------
(* The steps on requests.                                                  *)

\* A row that an open suspension has to close is locked by it.
LEMMA LockedRows ==
  ASSUME AuthorityInv, NEW i \in DOMAIN requests, RowFree(i), NEW q \in Person
  PROVE  /\ Suspending(q) => ~Standing(requests[i], q)
         /\ people[q].suspended => ~Says(requests[i], q)
<1>1. Suspending(q) => i \notin Held(q)
  BY DEF RowFree, Held
<1> QED BY <1>1 DEF AuthorityInv, SuspensionsReady, SuspensionReady, SaysNothing

LEMMA Filing ==
  ASSUME AuthorityInv, NEW what \in RequestKinds, NEW p \in Person \cup {NobodyYet}, NEW by \in Person,
         Propose(what, p, by), what = "elevate" => by = p, what # "invite" => p \in Person,
         what \in {"suspend", "reinstate", "reset", "email"} =>
           p \in Person /\ Lockable(p) /\ ~recovery_separation_conflict(p, by, Side(what))
  PROVE  AuthorityInv'
<1> DEFINE n == [kind |-> what, target |-> p, by |-> by, decider |-> NobodyYet,
                 state |-> "pending", closed |-> FALSE, window |-> FALSE, at |-> 0, for |-> 0]
           k == Len(requests) + 1
<1>1. PICK T : requests \in Seq(RequestRows(T))
  BY DEF AuthorityInv, RequestsFit
<1>2. requests \in Seq(RequestRows(T \cup {0}))
  <2>1. \A i \in DOMAIN requests : requests[i] \in RequestRows(T)
    BY <1>1, RowsAreMapped
  <2>2. \A i \in DOMAIN requests : requests[i] \in RequestRows(T \cup {0})
    BY <2>1 DEF RequestRows
  <2>3. requests = [i \in DOMAIN requests |-> requests[i]]
    BY <1>1, RowsAreMapped
  <2> QED BY <1>1, <2>2, <2>3, RowsRewritten
<1>3. n \in RequestRows(T \cup {0})
  BY DEF RequestRows, RequestStates
<1>4. /\ n.kind = what /\ n.target = p /\ n.by = by /\ n.decider = NobodyYet
      /\ n.state = "pending" /\ n.closed = FALSE /\ n.window = FALSE
  OBVIOUS
<1>5. requests' = Append(requests, n) /\ UNCHANGED <<people, open>> /\ Shareable(by) /\ ~people[by].suspended
  BY DEF Propose, Filed, refuse_suspended_actor
<1> HIDE DEF n
<1>6. /\ requests' \in Seq(RequestRows(T \cup {0})) /\ DOMAIN requests' = DOMAIN requests \cup {k}
      /\ k \notin DOMAIN requests /\ requests'[k] = n
      /\ \A i \in DOMAIN requests : requests'[i] = requests[i]
  BY <1>2, <1>3, <1>5, RowAdded
<1> HIDE DEF k
<1>7. ASSUME NEW i \in DOMAIN requests PROVE Faded(i)
  BY <1>6 DEF Faded, Fades, AuthorityInv, RowsStand
<1>8. Earned(k)
  <2>0. \A q \in Person : Suspending(q)' <=> Suspending(q)
    BY <1>5 DEF Suspending
  <2>1. RowStands(n)
    BY <1>4 DEF RowStands
  <2>2. ASSUME OfRecovery(n)
        PROVE  /\ \A q \in Person : n.target = q => ~Suspending(q)'
               /\ \A actor \in PartsOf(n) : ~recovery_separation_conflict(n.target, actor, Side(n.kind))
    <3>1. what \in {"suspend", "reinstate", "reset", "email"}
      BY <1>4, <2>2 DEF OfRecovery, Side, RecoverySides, RequestKinds
    <3>2. PartsOf(n) \subseteq {by} /\ ~Suspending(p)
      BY <1>4, <3>1 DEF PartsOf, Lockable, Shareable
    <3> QED BY <1>4, <2>0, <3>1, <3>2
  <2>3. ASSUME NEW q \in Person
        PROVE  /\ Suspending(q)' => ~Standing(n, q)
               /\ people[q].suspended => ~Says(n, q)
    BY <1>4, <1>5, <2>0 DEF Shareable, Lockable, Standing, Says
  <2> QED BY <1>6, <2>1, <2>2, <2>3 DEF Earned
<1>9. RowsMove(k) /\ SuspensionsKept /\ RequestsFit'
  BY <1>5, <1>6, <1>7, <1>8 DEF RowsMove, SuspensionsKept, SuspensionsOnlyEnd, RequestsFit
<1> QED BY <1>9, AuthorityMoves

\* One row that is not locked fades ...
LEMMA RowFades ==
  ASSUME AuthorityInv, SuspensionsKept, NEW i \in DOMAIN requests, RowFree(i), NEW n, NEW U,
         requests' = [requests EXCEPT ![i] = n],
         Fades(requests[i], n), StillRequest(requests[i], n, U)
  PROVE  AuthorityInv'
<1>1. /\ requests' = [j \in DOMAIN requests |-> requests'[j]] /\ DOMAIN requests' = DOMAIN requests
      /\ \A j \in DOMAIN requests : requests'[j] = IF j = i THEN n ELSE requests[j]
  BY RequestFacts DEF AuthorityInv
<1>2. \A j \in DOMAIN requests : StillRequest(requests[j], requests'[j], U)
  BY <1>1, SameRow
<1>3. RequestsFit'
  BY <1>1, <1>2, RequestsRewritten DEF AuthorityInv
<1>4. \A j \in DOMAIN requests : Faded(j)
  <2>1. RowFree(i)'
    BY LocksOnlyEnd DEF AuthorityInv, SuspensionsKept
  <2>2. \A j \in DOMAIN requests : Fades(requests[j], requests'[j])
    BY <1>1 DEF Fades, AuthorityInv, RowsStand
  <2> QED BY <1>1, <2>1, <2>2 DEF Faded
<1>5. 0 \notin DOMAIN requests
  BY RequestFacts DEF AuthorityInv
<1>6. RowsMove(0)
  BY <1>1, <1>4, <1>5 DEF RowsMove
<1> QED BY <1>3, <1>6, AuthorityMoves

\* No row changes.
LEMMA RequestsStay ==
  ASSUME AuthorityInv, SuspensionsKept, UNCHANGED requests
  PROVE  AuthorityInv'
<1>1. RequestsFit' /\ 0 \notin DOMAIN requests
  BY RequestFacts DEF AuthorityInv, RequestsFit
<1>2. \A j \in DOMAIN requests : Faded(j)
  BY DEF Faded, Fades, AuthorityInv, RowsStand
<1>3. RowsMove(0)
  BY <1>1, <1>2 DEF RowsMove
<1> QED BY <1>1, <1>3, AuthorityMoves

\* ... or earns what it becomes, while elevations end with it.
Ending(L) ==
  \A j \in L : j \in DOMAIN requests /\ requests[j].kind = "elevate" /\ requests[j].state = "active"
EndedWith(i, n, L) ==
  [j \in DOMAIN requests |-> IF j = i THEN n
                             ELSE IF j \in L THEN [requests[j] EXCEPT !.state = "released", !.window = FALSE]
                             ELSE requests[j]]

LEMMA ElevationEnds ==
  ASSUME AuthorityInv, NEW L, Ending(L), NEW j \in L, NEW n,
         n = [requests[j] EXCEPT !.state = "released", !.window = FALSE]
  PROVE  StillRequest(requests[j], n, {}) /\ Fades(requests[j], n) /\ RowFree(j)
<1>1. /\ j \in DOMAIN requests /\ requests[j].kind = "elevate" /\ requests[j].state = "active"
      /\ ~requests[j].closed /\ RowStands(requests[j])
  BY DEF Ending, AuthorityInv, RowsStand, RowStands
<1>2. PICK T : requests[j] \in RequestRows(T)
  BY <1>1, RequestFacts DEF AuthorityInv, IsRequest
<1>3. /\ n.kind = "elevate" /\ n.target = requests[j].target /\ n.by = requests[j].by
      /\ n.decider = requests[j].decider /\ n.state = "released" /\ n.window = FALSE
      /\ n.closed = requests[j].closed
  BY <1>1, <1>2 DEF RequestRows
<1>4. Fades(requests[j], n)
  BY <1>1, <1>3 DEF Fades, RowCounts, RowStands
<1>5. ASSUME NEW V, requests[j] \in RequestRows(V) PROVE n \in RequestRows(V \cup {})
  BY <1>5 DEF RequestRows, RequestStates
<1>6. RowFree(j)
  <2> SUFFICES ASSUME NEW p \in Person, Suspending(p), j \in Held(p) PROVE FALSE
    BY <1>1, RequestFacts DEF RowFree, Held, Suspending, NoSuspension, AuthorityInv
  <2> QED BY <1>1 DEF AuthorityInv, SuspensionsReady, SuspensionReady, Held, RowCounts
<1> QED BY <1>4, <1>5, <1>6 DEF StillRequest

LEMMA RowEarns ==
  ASSUME AuthorityInv, SuspensionsKept, NEW i \in DOMAIN requests, RowFree(i), NEW n, NEW U,
         NEW L, Ending(L), i \notin L, requests' = EndedWith(i, n, L), StillRequest(requests[i], n, U),
         RowStands(n),
         RowCounts(n) /\ OfRecovery(n) =>
           /\ \A q \in Person : n.target = q => ~Suspending(q)
           /\ \A actor \in PartsOf(n) : ~recovery_separation_conflict(n.target, actor, Side(n.kind)),
         \A q \in Person : /\ Suspending(q) => ~Standing(n, q)
                           /\ people[q].suspended => ~Says(n, q)
  PROVE  AuthorityInv'
<1>1. /\ requests' = [j \in DOMAIN requests |-> requests'[j]] /\ DOMAIN requests' = DOMAIN requests
      /\ requests'[i] = n
      /\ \A j \in DOMAIN requests :
           /\ j \in L => requests'[j] = [requests[j] EXCEPT !.state = "released", !.window = FALSE]
           /\ j # i /\ j \notin L => requests'[j] = requests[j]
  BY DEF EndedWith
<1>2. ASSUME NEW j \in DOMAIN requests PROVE StillRequest(requests[j], requests'[j], U)
  <2>1. j \in L => StillRequest(requests[j], requests'[j], {})
    BY <1>1, ElevationEnds
  <2>2. j \in L => StillRequest(requests[j], requests'[j], U)
    BY <2>1 DEF StillRequest, RequestRows
  <2> QED BY <1>1, <2>2, SameRow
<1>3. RequestsFit'
  BY <1>1, <1>2, RequestsRewritten DEF AuthorityInv
<1>4. ASSUME NEW j \in DOMAIN requests, j # i PROVE Faded(j)
  <2>0. RowFree(j) => RowFree(j)'
    BY LocksOnlyEnd DEF AuthorityInv, SuspensionsKept
  <2>1. CASE j \in L
    BY <1>1, <2>0, <2>1, ElevationEnds DEF Faded
  <2>2. CASE j \notin L
    BY <1>1, <1>4, <2>2 DEF Faded, Fades, AuthorityInv, RowsStand
  <2> QED BY <2>1, <2>2
<1>5. Earned(i)
  <2>1. RowFree(i)' /\ \A q \in Person : Suspending(q)' => Suspending(q)
    BY LocksOnlyEnd DEF AuthorityInv, SuspensionsKept
  <2> QED BY <1>1, <2>1 DEF Earned
<1>6. RowsMove(i)
  BY <1>1, <1>4, <1>5 DEF RowsMove
<1> QED BY <1>3, <1>6, AuthorityMoves

-----------------------------------------------------------------------------
(* People, their sessions, and what is under way for them.                 *)

PersonRows == [suspended : BOOLEAN, address : Nat, identity : BOOLEAN, factor : BOOLEAN, approver : BOOLEAN]
SessionRows == [via : {"code", "identity"}, address : Nat]
OpenRows(S, T) == [suspension : S, signing : Nat, completing : T]
PeopleFit == people \in [Person -> PersonRows] /\ sessions \in [Person -> SUBSET SessionRows]
OpenFits == \E S, T : open \in [Person -> OpenRows(S, T)]

\* What is held as a way in is of the address the person has now, and a
\* suspended person holds none.
WaysIn(p) ==
  /\ people[p].suspended => sessions[p] = {} /\ ~people[p].identity /\ open[p].signing = 0
  /\ open[p].signing # 0 => open[p].signing = people[p].address
  /\ \A s \in sessions[p] : s.via = "code" => s.address = people[p].address
WaysInStand == \A p \in Person : WaysIn(p)

RestInv == PeopleFit /\ OpenFits /\ WaysInStand
AccountsInv == AuthorityInv /\ RestInv

LEMMA RestKept ==
  ASSUME RestInv, UNCHANGED <<people, sessions, open>>
  PROVE  RestInv' /\ SuspensionsKept
BY DEF RestInv, PeopleFit, OpenFits, WaysInStand, WaysIn, SuspensionsKept, SuspensionsOnlyEnd

\* One person changes, and their sessions.
LEMMA PersonMoves ==
  ASSUME RestInv, NEW p \in Person, NEW new \in PersonRows, people' = [people EXCEPT ![p] = new],
         NEW kept \in SUBSET SessionRows, sessions' = [sessions EXCEPT ![p] = kept],
         new.suspended => open[p].signing = 0 /\ kept = {} /\ ~new.identity,
         open[p].signing # 0 => open[p].signing = new.address,
         \A s \in kept : s.via = "code" => s.address = new.address,
         OpenFits', \A q \in Person : open'[q].signing = open[q].signing
  PROVE  /\ RestInv'
         /\ \A q \in Person : people'[q] = IF q = p THEN new ELSE people[q]
<1>1. /\ PeopleFit' /\ OpenFits'
      /\ \A q \in Person : /\ people'[q] = IF q = p THEN new ELSE people[q]
                           /\ sessions'[q] = IF q = p THEN kept ELSE sessions[q]
  BY DEF RestInv, PeopleFit
<1>2. ASSUME NEW q \in Person PROVE WaysIn(q)'
  <2>1. CASE q = p
    BY <1>1, <2>1 DEF RestInv, WaysInStand, WaysIn
  <2>2. CASE q # p
    BY <1>1, <2>2 DEF RestInv, WaysInStand, WaysIn
  <2> QED BY <2>1, <2>2
<1> QED BY <1>1, <1>2 DEF RestInv, WaysInStand

LEMMA PersonChanges ==
  ASSUME RestInv, NEW p \in Person, NEW new \in PersonRows, people' = [people EXCEPT ![p] = new],
         NEW kept \in SUBSET SessionRows, sessions' = [sessions EXCEPT ![p] = kept],
         new.suspended => people[p].suspended /\ kept = {} /\ ~new.identity,
         open[p].signing # 0 => open[p].signing = new.address,
         \A s \in kept : s.via = "code" => s.address = new.address,
         UNCHANGED open
  PROVE  RestInv' /\ SuspensionsKept
<1>1. OpenFits' /\ \A q \in Person : open'[q].signing = open[q].signing
  BY DEF RestInv, OpenFits
<1>2. new.suspended => open[p].signing = 0 /\ kept = {} /\ ~new.identity
  BY DEF RestInv, WaysInStand, WaysIn
<1>3. RestInv' /\ \A q \in Person : people'[q] = IF q = p THEN new ELSE people[q]
  BY <1>1, <1>2, PersonMoves
<1> QED BY <1>3 DEF SuspensionsKept, SuspensionsOnlyEnd

\* The record of what is open, by its fields.
LEMMA OpenForms ==
  ASSUME OpenFits, NEW p \in Person, NEW x
  PROVE  /\ [open EXCEPT ![p].completing = x] =
              [open EXCEPT ![p] = [suspension |-> open[p].suspension, signing |-> open[p].signing,
                                   completing |-> x]]
         /\ [open EXCEPT ![p].signing = x] =
              [open EXCEPT ![p] = [suspension |-> open[p].suspension, signing |-> x,
                                   completing |-> open[p].completing]]
         /\ [open EXCEPT ![p].suspension = x] =
              [open EXCEPT ![p] = [suspension |-> x, signing |-> open[p].signing,
                                   completing |-> open[p].completing]]
<1>1. PICK S, T : open \in [Person -> OpenRows(S, T)]
  BY DEF OpenFits
<1>2. open[p] \in OpenRows(S, T)
  BY <1>1
<1>4. [open[p] EXCEPT !.completing = x] =
        [suspension |-> open[p].suspension, signing |-> open[p].signing, completing |-> x]
  BY <1>2 DEF OpenRows
<1>5. [open[p] EXCEPT !.signing = x] =
        [suspension |-> open[p].suspension, signing |-> x, completing |-> open[p].completing]
  BY <1>2 DEF OpenRows
<1>6. [open[p] EXCEPT !.suspension = x] =
        [suspension |-> x, signing |-> open[p].signing, completing |-> open[p].completing]
  BY <1>2 DEF OpenRows
<1> QED BY <1>4, <1>5, <1>6

LEMMA SigningIsAddress ==
  ASSUME OpenFits, NEW p \in Person PROVE open[p].signing \in Nat
<1>1. PICK S, T : open \in [Person -> OpenRows(S, T)]
  BY DEF OpenFits
<1>2. open[p] \in OpenRows(S, T)
  BY <1>1
<1> QED BY <1>2 DEF OpenRows

\* What is open for one person changes.
LEMMA OpenChanges ==
  ASSUME RestInv, NEW p \in Person, NEW s, NEW n \in Nat, NEW c,
         open' = [open EXCEPT ![p] = [suspension |-> s, signing |-> n, completing |-> c]],
         n # 0 => n = people[p].address /\ ~people[p].suspended,
         UNCHANGED <<people, sessions>>
  PROVE  /\ RestInv'
         /\ s \in {open[p].suspension, NoSuspension} => SuspensionsKept
         /\ open'[p].suspension = s
         /\ \A q \in Person : q # p => open'[q] = open[q]
<1>1. PICK S, T : open \in [Person -> OpenRows(S, T)]
  BY DEF RestInv, OpenFits
<1>2. /\ open \in [Person -> OpenRows(S \cup {s}, T \cup {c})]
      /\ [suspension |-> s, signing |-> n, completing |-> c] \in OpenRows(S \cup {s}, T \cup {c})
  BY <1>1 DEF OpenRows
<1>3. /\ open' \in [Person -> OpenRows(S \cup {s}, T \cup {c})]
      /\ open'[p] = [suspension |-> s, signing |-> n, completing |-> c]
      /\ \A q \in Person : q # p => open'[q] = open[q]
  BY <1>2
<1>4. OpenFits' /\ PeopleFit'
  BY <1>3 DEF OpenFits, RestInv, PeopleFit
<1>5. open'[p].suspension = s /\ open'[p].signing = n
  BY <1>3
<1>6. ASSUME NEW q \in Person PROVE WaysIn(q)'
  <2>1. CASE q = p
    BY <1>5, <2>1 DEF RestInv, WaysInStand, WaysIn
  <2>2. CASE q # p
    BY <1>3, <2>2 DEF RestInv, WaysInStand, WaysIn
  <2> QED BY <2>1, <2>2
<1>7. s \in {open[p].suspension, NoSuspension} => SuspensionsKept
  BY <1>3, <1>5 DEF SuspensionsKept, SuspensionsOnlyEnd
<1> QED BY <1>3, <1>4, <1>5, <1>6, <1>7 DEF RestInv, WaysInStand

-----------------------------------------------------------------------------
(* Steps that leave people, their sessions and what is open alone.         *)

LEMMA ProposalHolds ==
  ASSUME AuthorityInv, NEW p \in Person, NEW by \in Person,
         \/ \E action \in {"suspend", "reinstate"} : ProposeSuspension(action, p, by)
         \/ ProposeReset(p, by) \/ request_email_change(p, by)
         \/ p = by /\ (RequestElevation(p) \/ create_invitation(p))
         \/ ProposeGrant(p, by) \/ ProposeRevocation(p, by)
  PROVE  AuthorityInv' /\ UNCHANGED <<people, sessions, open>>
<1>1. UNCHANGED <<people, sessions, open>>
  BY DEF ProposeSuspension, ProposeReset, request_email_change, RequestElevation, create_invitation,
         ProposeGrant, ProposeRevocation, Propose
<1>2. ASSUME NEW action \in {"suspend", "reinstate"}, ProposeSuspension(action, p, by) PROVE AuthorityInv'
  BY <1>2, Filing DEF ProposeSuspension, subject_suspension_proposal_guard, RequestKinds, Side
<1>3. ASSUME ProposeReset(p, by) PROVE AuthorityInv'
  BY <1>3, Filing DEF ProposeReset, mfa_reset_separation_guard, RequestKinds, Side
<1>4. ASSUME request_email_change(p, by) PROVE AuthorityInv'
  BY <1>4, Filing DEF request_email_change, RequestKinds, Side
<1>5. ASSUME RequestElevation(p) PROVE AuthorityInv'
  BY <1>5, Filing DEF RequestElevation, RequestKinds
<1>6. ASSUME create_invitation(by) PROVE AuthorityInv'
  BY <1>6, Filing DEF create_invitation, RequestKinds
<1>7. ASSUME ProposeGrant(p, by) \/ ProposeRevocation(p, by) PROVE AuthorityInv'
  BY <1>7, Filing DEF ProposeGrant, ProposeRevocation, RequestKinds
<1> QED BY <1>1, <1>2, <1>3, <1>4, <1>5, <1>6, <1>7

LEMMA RejectionHolds ==
  ASSUME AuthorityInv, NEW i, NEW decider \in Person, Reject(i, decider)
  PROVE  AuthorityInv' /\ UNCHANGED <<people, sessions, open>>
<1> DEFINE n == [requests[i] EXCEPT !.state = "rejected", !.decider = decider]
<1>1. /\ i \in DOMAIN requests /\ RowFree(i) /\ requests[i].state = "pending" /\ IsRequest(requests[i])
      /\ RowStands(requests[i]) /\ UNCHANGED <<people, sessions, open>>
  BY RequestFacts DEF Reject, Pending, AuthorityInv, RowsStand
<1>2. requests' = [requests EXCEPT ![i] = n]
  BY DEF Reject, Decided
<1>3. Updated(requests[i], n, "rejected", decider, requests[i].window, requests[i].closed)
      /\ StillRequest(requests[i], n, {})
  BY <1>1, RowDecided DEF RequestStates
<1> HIDE DEF n
<1>4. Fades(requests[i], n)
  BY <1>1, <1>3 DEF Updated, Fades, RowCounts, RowStands
<1>5. SuspensionsKept
  BY <1>1 DEF SuspensionsKept, SuspensionsOnlyEnd
<1> QED BY <1>1, <1>2, <1>3, <1>4, <1>5, RowFades

LEMMA EndingHolds ==
  ASSUME AuthorityInv, NEW i,
         \/ \E by \in Person : ReleaseElevation(i, by)
         \/ revoke_invitation(i) \/ accept_invitation(i)
         \/ WindowLapses(i) \/ ApprovedAddressLapses(i)
  PROVE  AuthorityInv' /\ UNCHANGED <<people, sessions, open>>
<1>1. /\ i \in DOMAIN requests /\ RowFree(i) /\ IsRequest(requests[i])
      /\ RowStands(requests[i]) /\ UNCHANGED <<people, sessions, open>>
  BY RequestFacts DEF ReleaseElevation, revoke_invitation, accept_invitation, InvitationEnds, Pending,
                      WindowLapses, ApprovedAddressLapses, AuthorityInv, RowsStand
<1>2. PICK n : /\ requests' = [requests EXCEPT ![i] = n]
               /\ \/ /\ requests[i].kind = "elevate" /\ requests[i].state = "active"
                     /\ n = [requests[i] EXCEPT !.state = "released", !.window = FALSE]
                  \/ /\ requests[i].kind = "invite" /\ requests[i].state = "pending"
                     /\ \E s \in {"revoked", "completed"} : n = [requests[i] EXCEPT !.state = s]
                  \/ n = [requests[i] EXCEPT !.window = FALSE]
                  \/ /\ requests[i].kind = "email" /\ requests[i].state = "approved"
                     /\ n = [requests[i] EXCEPT !.state = "expired"]
  BY DEF ReleaseElevation, revoke_invitation, accept_invitation, InvitationEnds, Pending,
         WindowLapses, ApprovedAddressLapses
<1>3. StillRequest(requests[i], n, {}) /\ Fades(requests[i], n)
  <2>1. CASE requests[i].state = "active" /\ n = [requests[i] EXCEPT !.state = "released", !.window = FALSE]
    <3>1. Updated(requests[i], n, "released", requests[i].decider, FALSE, requests[i].closed)
          /\ StillRequest(requests[i], n, {})
      BY <1>1, <2>1, RowClosed DEF RequestStates
    <3> QED BY <1>1, <2>1, <3>1 DEF Updated, Fades, RowCounts, RowStands
  <2>2. ASSUME NEW s \in {"revoked", "completed", "expired"}, n = [requests[i] EXCEPT !.state = s],
               \/ requests[i].kind = "invite" /\ requests[i].state = "pending"
               \/ requests[i].kind = "email" /\ requests[i].state = "approved"
        PROVE  StillRequest(requests[i], n, {}) /\ Fades(requests[i], n)
    <3>1. Updated(requests[i], n, s, requests[i].decider, requests[i].window, requests[i].closed)
          /\ StillRequest(requests[i], n, {})
      BY <1>1, <2>2, RowMovedOn DEF RequestStates
    <3> QED BY <1>1, <2>2, <3>1 DEF Updated, Fades, RowCounts, RowStands
  <2>3. CASE n = [requests[i] EXCEPT !.window = FALSE]
    <3>1. Updated(requests[i], n, requests[i].state, requests[i].decider, FALSE, requests[i].closed)
          /\ StillRequest(requests[i], n, {})
      BY <1>1, <2>3, RowLapsed
    <3> QED BY <1>1, <3>1 DEF Updated, Fades, RowCounts, RowStands
  <2>4. CASE /\ requests[i].kind = "invite" /\ requests[i].state = "pending"
             /\ \E s \in {"revoked", "completed"} : n = [requests[i] EXCEPT !.state = s]
    <3>1. PICK s \in {"revoked", "completed"} : n = [requests[i] EXCEPT !.state = s]
      BY <2>4
    <3> QED BY <2>2, <2>4, <3>1
  <2>5. CASE /\ requests[i].kind = "email" /\ requests[i].state = "approved"
             /\ n = [requests[i] EXCEPT !.state = "expired"]
    BY <2>2, <2>5
  <2> QED BY <1>2, <2>1, <2>3, <2>4, <2>5
<1>4. SuspensionsKept
  BY <1>1 DEF SuspensionsKept, SuspensionsOnlyEnd
<1> QED BY <1>1, <1>2, <1>3, <1>4, RowFades

\* What an approval needs of the row, its target and its decider.
LEMMA ApprovalFacts ==
  ASSUME AuthorityInv, NEW i, NEW what, Pending(i, {what})
  PROVE  /\ i \in DOMAIN requests /\ RowFree(i) /\ IsRequest(requests[i]) /\ RowStands(requests[i])
         /\ requests[i].kind = what /\ requests[i].state = "pending" /\ requests[i].closed = FALSE
         /\ \A q \in Person : Suspending(q) \/ people[q].suspended => requests[i].by # q
<1>1. /\ i \in DOMAIN requests /\ RowFree(i) /\ IsRequest(requests[i]) /\ RowStands(requests[i])
      /\ requests[i].kind = what /\ requests[i].state = "pending"
  BY RequestFacts DEF Pending, AuthorityInv, RowsStand
<1>2. requests[i].closed = FALSE
  BY <1>1, RequestFields DEF RowStands
<1>3. ASSUME NEW q \in Person, Suspending(q) \/ people[q].suspended PROVE requests[i].by # q
  BY <1>1, <1>3, LockedRows DEF Standing, Says
<1> QED BY <1>1, <1>2, <1>3

LEMMA EmailApprovalHolds ==
  ASSUME AuthorityInv, NEW i, NEW decider \in Person, decide_email_change(i, decider)
  PROVE  AuthorityInv' /\ UNCHANGED <<people, sessions, open>>
<1> DEFINE n == [requests[i] EXCEPT !.state = "approved", !.decider = decider]
<1>1. /\ i \in DOMAIN requests /\ RowFree(i) /\ IsRequest(requests[i]) /\ RowStands(requests[i])
      /\ requests[i].kind = "email" /\ requests[i].state = "pending" /\ requests[i].closed = FALSE
      /\ \A q \in Person : Suspending(q) \/ people[q].suspended => requests[i].by # q
  <2>1. Pending(i, {"email"})
    BY DEF decide_email_change, Approvable
  <2> QED BY <2>1, ApprovalFacts
<1>2. /\ requests' = [requests EXCEPT ![i] = n] /\ UNCHANGED <<people, sessions, open>>
      /\ ~Suspending(decider) /\ ~people[decider].suspended
      /\ ~Suspending(requests[i].target) /\ ~people[requests[i].target].suspended
      /\ NoConflict(i, decider)
  BY DEF decide_email_change, Approvable, Decided, Lockable, Shareable, refuse_suspended_actor
<1>3. Updated(requests[i], n, "approved", decider, requests[i].window, requests[i].closed)
      /\ StillRequest(requests[i], n, {})
  BY <1>1, RowDecided DEF RequestStates
<1> HIDE DEF n
<1>4. RowStands(n)
  BY <1>1, <1>3 DEF Updated, RowStands
<1>5. PartsOf(n) \subseteq {requests[i].by, decider}
  BY <1>3 DEF Updated, PartsOf
<1>6. \A actor \in PartsOf(n) : ~recovery_separation_conflict(n.target, actor, Side(n.kind))
  BY <1>2, <1>3, <1>5 DEF Updated, NoConflict
<1>7. ASSUME NEW q \in Person
      PROVE  /\ Suspending(q) => ~Standing(n, q)
             /\ people[q].suspended => ~Says(n, q)
  BY <1>1, <1>2, <1>3, <1>5 DEF Updated, Standing, Says
<1>8. SuspensionsKept /\ Ending({}) /\ requests' = EndedWith(i, n, {})
  BY <1>1, <1>2, RequestFacts DEF SuspensionsKept, SuspensionsOnlyEnd, Ending, EndedWith, AuthorityInv
<1>9. n.target = requests[i].target
  BY <1>3 DEF Updated
<1> QED BY <1>1, <1>2, <1>3, <1>4, <1>6, <1>7, <1>8, <1>9, RowEarns

LEMMA ElevationApprovalHolds ==
  ASSUME AuthorityInv, NEW i, NEW decider \in Person, ApproveElevation(i, decider)
  PROVE  AuthorityInv' /\ UNCHANGED <<people, sessions, open>>
<1> DEFINE n == [requests[i] EXCEPT !.state = "active", !.decider = decider, !.window = TRUE]
<1>1. /\ i \in DOMAIN requests /\ RowFree(i) /\ IsRequest(requests[i]) /\ RowStands(requests[i])
      /\ requests[i].kind = "elevate" /\ requests[i].state = "pending" /\ requests[i].closed = FALSE
      /\ \A q \in Person : Suspending(q) \/ people[q].suspended => requests[i].by # q
  <2>1. Pending(i, {"elevate"})
    BY DEF ApproveElevation
  <2> QED BY <2>1, ApprovalFacts
<1>2. requests' = [requests EXCEPT ![i] = n] /\ UNCHANGED <<people, sessions, open>>
  BY DEF ApproveElevation, Decided
<1>3. Updated(requests[i], n, "active", decider, TRUE, requests[i].closed)
      /\ StillRequest(requests[i], n, {})
  BY <1>1, RowBegun DEF RequestStates
<1> HIDE DEF n
<1>4. RowStands(n) /\ ~RowCounts(n)
  BY <1>1, <1>3 DEF Updated, RowStands, RowCounts
<1>5. ASSUME NEW q \in Person
      PROVE  /\ Suspending(q) => ~Standing(n, q)
             /\ people[q].suspended => ~Says(n, q)
  BY <1>1, <1>3 DEF Updated, Standing, Says, RowStands
<1>6. SuspensionsKept /\ Ending({}) /\ requests' = EndedWith(i, n, {})
  BY <1>1, <1>2, RequestFacts DEF SuspensionsKept, SuspensionsOnlyEnd, Ending, EndedWith, AuthorityInv
<1> QED BY <1>1, <1>2, <1>3, <1>4, <1>5, <1>6, RowEarns

\* A role changes hands; the request stands for nothing more.
LEMMA RoleDecided ==
  ASSUME AuthorityInv, SuspensionsKept, NEW i, NEW decider \in Person, NEW what \in {"grant", "revoke"},
         Pending(i, {what}), requests' = Decided(i, "approved", decider)
  PROVE  AuthorityInv'
<1> DEFINE n == [requests[i] EXCEPT !.state = "approved", !.decider = decider]
<1>1. /\ i \in DOMAIN requests /\ RowFree(i) /\ IsRequest(requests[i]) /\ RowStands(requests[i])
      /\ requests[i].kind = what /\ requests[i].state = "pending" /\ requests[i].closed = FALSE
  BY ApprovalFacts
<1>2. requests' = [requests EXCEPT ![i] = n]
  BY DEF Decided
<1>3. Updated(requests[i], n, "approved", decider, requests[i].window, requests[i].closed)
      /\ StillRequest(requests[i], n, {})
  BY <1>1, RowDecided DEF RequestStates
<1> HIDE DEF n
<1>4. RowStands(n) /\ ~OfRecovery(n)
  BY <1>1, <1>3 DEF Updated, RowStands, OfRecovery, Side, RecoverySides
<1>5. ASSUME NEW q \in Person PROVE ~Standing(n, q) /\ ~Says(n, q)
  BY <1>1, <1>3 DEF Updated, Standing, Says
<1>6. Ending({}) /\ requests' = EndedWith(i, n, {})
  BY <1>1, <1>2, RequestFacts DEF Ending, EndedWith, AuthorityInv
<1> QED BY <1>1, <1>2, <1>3, <1>4, <1>5, <1>6, RowEarns

\* Changes of one person that leave their sessions alone.
LEMMA RoleChanges ==
  ASSUME RestInv, NEW p \in Person, NEW kept \in BOOLEAN,
         people' = [people EXCEPT ![p].approver = kept], UNCHANGED <<sessions, open>>
  PROVE  RestInv' /\ SuspensionsKept
<1> DEFINE new == [people[p] EXCEPT !.approver = kept]
<1>1. people[p] \in PersonRows /\ sessions \in [Person -> SUBSET SessionRows] /\ WaysIn(p)
  BY DEF RestInv, PeopleFit, WaysInStand
<1>2. people' = [people EXCEPT ![p] = new] /\ sessions' = [sessions EXCEPT ![p] = sessions[p]]
  BY <1>1
<1>3. /\ new \in PersonRows /\ new.suspended = people[p].suspended
      /\ new.address = people[p].address /\ new.identity = people[p].identity
  BY <1>1 DEF PersonRows
<1> HIDE DEF new
<1>4. sessions[p] \in SUBSET SessionRows
  BY <1>1
<1>5. /\ new.suspended => people[p].suspended /\ sessions[p] = {} /\ ~new.identity
      /\ open[p].signing # 0 => open[p].signing = new.address
      /\ \A s \in sessions[p] : s.via = "code" => s.address = new.address
  BY <1>1, <1>3 DEF WaysIn
<1> QED BY <1>2, <1>3, <1>4, <1>5, PersonChanges

LEMMA RoleStepHolds ==
  ASSUME AccountsInv, NEW i, NEW by \in Person, NEW p \in Person,
         ApproveGrant(i, by) \/ ApproveRevocation(i, by) \/ QuarantineAccess(p, by)
  PROVE  AccountsInv'
<1>1. ASSUME ApproveGrant(i, by) PROVE AccountsInv'
  <2>1. /\ Pending(i, {"grant"}) /\ requests' = Decided(i, "approved", by) /\ UNCHANGED <<sessions, open>>
        /\ people' = [people EXCEPT ![requests[i].target].approver = TRUE]
    BY <1>1 DEF ApproveGrant
  <2>2. requests[i].target \in Person
    <3>1. RowStands(requests[i]) /\ requests[i].kind = "grant"
      BY <2>1, ApprovalFacts DEF AccountsInv
    <3> QED BY <3>1 DEF RowStands
  <2>3. RestInv' /\ SuspensionsKept
    BY <2>1, <2>2, RoleChanges DEF AccountsInv
  <2> QED BY <2>1, <2>3, RoleDecided DEF AccountsInv
<1>2. ASSUME ApproveRevocation(i, by) PROVE AccountsInv'
  <2>1. /\ Pending(i, {"revoke"}) /\ requests' = Decided(i, "approved", by) /\ UNCHANGED <<sessions, open>>
        /\ people' = [people EXCEPT ![requests[i].target].approver = FALSE]
    BY <1>2 DEF ApproveRevocation
  <2>2. requests[i].target \in Person
    <3>1. RowStands(requests[i]) /\ requests[i].kind = "revoke"
      BY <2>1, ApprovalFacts DEF AccountsInv
    <3> QED BY <3>1 DEF RowStands
  <2>3. RestInv' /\ SuspensionsKept
    BY <2>1, <2>2, RoleChanges DEF AccountsInv
  <2> QED BY <2>1, <2>3, RoleDecided DEF AccountsInv
<1>3. ASSUME QuarantineAccess(p, by) PROVE AccountsInv'
  <2>1. people' = [people EXCEPT ![p].approver = FALSE] /\ UNCHANGED <<requests, sessions, open>>
    BY <1>3 DEF QuarantineAccess
  <2>2. RestInv' /\ SuspensionsKept
    BY <2>1, RoleChanges DEF AccountsInv
  <2>3. AuthorityInv'
    BY <2>1, <2>2, RequestsStay DEF AccountsInv
  <2> QED BY <2>2, <2>3 DEF AccountsInv
<1> QED BY <1>1, <1>2, <1>3

-----------------------------------------------------------------------------
(* A reset, a reinstatement and the completion of a change of address.     *)

\* What an approval under recovery_separation_conflict has checked.
LEMMA RecoveryApproval ==
  ASSUME AuthorityInv, NEW i, NEW what \in {"suspend", "reinstate", "reset", "email"},
         NEW decider \in Person, Approvable(i, what, decider)
  PROVE  /\ i \in DOMAIN requests /\ RowFree(i) /\ IsRequest(requests[i]) /\ RowStands(requests[i])
         /\ requests[i].kind = what /\ requests[i].state = "pending" /\ requests[i].closed = FALSE
         /\ \A q \in Person : Suspending(q) \/ people[q].suspended => requests[i].by # q
         /\ requests[i].target \in Person /\ Lockable(requests[i].target)
         /\ ~Suspending(requests[i].target)
         /\ ~Suspending(decider) /\ ~people[decider].suspended
         /\ \A actor \in {requests[i].by, decider} :
              ~recovery_separation_conflict(requests[i].target, actor, Side(what))
<1>1. Pending(i, {what}) /\ NoConflict(i, decider) /\ Lockable(requests[i].target)
      /\ refuse_suspended_actor(decider)
  BY DEF Approvable
<1>2. /\ i \in DOMAIN requests /\ RowFree(i) /\ IsRequest(requests[i]) /\ RowStands(requests[i])
      /\ requests[i].kind = what /\ requests[i].state = "pending" /\ requests[i].closed = FALSE
      /\ \A q \in Person : Suspending(q) \/ people[q].suspended => requests[i].by # q
  BY <1>1, ApprovalFacts
<1>3. requests[i].target \in Person
  BY <1>2 DEF RowStands
<1>4. ~Suspending(requests[i].target) /\ ~Suspending(decider) /\ ~people[decider].suspended
  BY <1>1 DEF Lockable, Shareable, refuse_suspended_actor
<1>5. \A actor \in {requests[i].by, decider} :
        ~recovery_separation_conflict(requests[i].target, actor, Side(what))
  BY <1>1, <1>2 DEF NoConflict
<1> QED BY <1>1, <1>2, <1>3, <1>4, <1>5

LEMMA ActiveElevationsEnd ==
  ASSUME NEW p PROVE Ending(ActiveElevations(p))
BY DEF Ending, ActiveElevations, InState, Of

\* A window opens: for a reset by one who may decide, or after a suspension.
LEMMA WindowOpens ==
  ASSUME AuthorityInv, SuspensionsKept, NEW i, NEW what \in {"reinstate", "reset"},
         NEW decider \in Person, Approvable(i, what, decider), NEW t, NEW a, NEW n,
         n = [requests[i] EXCEPT !.state = "approved", !.decider = decider, !.window = TRUE,
                                 !.at = t, !.for = a],
         NEW L, Ending(L), requests' = EndedWith(i, n, L)
  PROVE  AuthorityInv'
<1>1. /\ i \in DOMAIN requests /\ RowFree(i) /\ IsRequest(requests[i]) /\ RowStands(requests[i])
      /\ requests[i].kind = what /\ requests[i].state = "pending" /\ requests[i].closed = FALSE
      /\ \A q \in Person : Suspending(q) \/ people[q].suspended => requests[i].by # q
      /\ requests[i].target \in Person /\ ~Suspending(requests[i].target)
      /\ ~Suspending(decider) /\ ~people[decider].suspended
      /\ \A actor \in {requests[i].by, decider} :
           ~recovery_separation_conflict(requests[i].target, actor, Side(what))
  BY RecoveryApproval
<1>2. Updated(requests[i], n, "approved", decider, TRUE, requests[i].closed)
      /\ StillRequest(requests[i], n, {t, a})
  BY <1>1, RowOpened DEF RequestStates
<1>3. RowStands(n)
  BY <1>1, <1>2 DEF Updated, RowStands
<1>4. /\ ~Suspending(n.target)
      /\ \A actor \in PartsOf(n) : ~recovery_separation_conflict(n.target, actor, Side(n.kind))
  BY <1>1, <1>2 DEF Updated, PartsOf
<1>5. ASSUME NEW q \in Person
      PROVE  /\ Suspending(q) => ~Standing(n, q)
             /\ people[q].suspended => ~Says(n, q)
  BY <1>1, <1>2 DEF Updated, Standing, Says
<1>6. i \notin L
  BY <1>1 DEF Ending
<1> QED BY <1>1, <1>2, <1>3, <1>4, <1>5, <1>6, RowEarns

LEMMA ResetDecisionHolds ==
  ASSUME AccountsInv, NEW i, NEW decider \in Person, decide_mfa_reset(i, decider)
  PROVE  AccountsInv'
<1> DEFINE p == requests[i].target
           n == [requests[i] EXCEPT !.state = "approved", !.decider = decider, !.window = TRUE,
                                    !.at = Now, !.for = people[p].address]
           new == [people[p] EXCEPT !.factor = FALSE, !.identity = FALSE]
<1>1. /\ Approvable(i, "reset", decider) /\ ~people[p].suspended
      /\ sessions' = [sessions EXCEPT ![p] = {}] /\ UNCHANGED open
  BY DEF decide_mfa_reset
<1>2. i \in DOMAIN requests /\ p \in Person /\ requests[i].kind = "reset"
  BY <1>1, RecoveryApproval DEF AccountsInv
<1>3. people' = [people EXCEPT ![p] = new]
  BY DEF decide_mfa_reset
<1>4. new \in PersonRows /\ new.suspended = FALSE /\ new.address = people[p].address
  <2>1. people[p] \in PersonRows
    BY <1>2 DEF AccountsInv, RestInv, PeopleFit
  <2> QED BY <1>1, <2>1 DEF PersonRows
<1>5. open[p].signing # 0 => open[p].signing = people[p].address
  BY <1>2 DEF AccountsInv, RestInv, WaysInStand, WaysIn
<1>6. requests' = EndedWith(i, n, ActiveElevations(p))
  <2> DEFINE R == [Decided(i, "approved", decider) EXCEPT
                     ![i].window = TRUE, ![i].at = Now, ![i].for = people[p].address]
  <2>1. requests' = Released(R, p)
    BY DEF decide_mfa_reset
  <2>2. DOMAIN R = DOMAIN requests /\ \A j \in DOMAIN requests : R[j] = IF j = i THEN n ELSE requests[j]
    BY <1>2 DEF Decided
  <2>3. i \notin ActiveElevations(p)
    BY <1>2 DEF ActiveElevations, InState, Of
  <2> HIDE DEF R, n
  <2> QED BY <2>1, <2>2, <2>3 DEF Released, EndedWith
<1>7. RestInv' /\ SuspensionsKept
  <2>1. ~new.suspended /\ RestInv
    BY <1>4 DEF AccountsInv
  <2>2. /\ {} \in SUBSET SessionRows
        /\ new.suspended => people[p].suspended /\ {} = {} /\ ~new.identity
        /\ open[p].signing # 0 => open[p].signing = new.address
        /\ \A s \in {} : s.via = "code" => s.address = new.address
    BY <1>4, <1>5, <2>1
  <2> HIDE DEF new, p
  <2> QED BY <1>1, <1>2, <1>3, <1>4, <1>5, <2>1, <2>2, PersonChanges
<1>8. AuthorityInv'
  BY <1>1, <1>6, <1>7, ActiveElevationsEnd, WindowOpens DEF AccountsInv
<1> QED BY <1>7, <1>8 DEF AccountsInv

LEMMA ReinstatementHolds ==
  ASSUME AccountsInv, NEW i, NEW decider \in Person, reinstate(i, decider)
  PROVE  AccountsInv'
<1> DEFINE p == requests[i].target
           n == [requests[i] EXCEPT !.state = "approved", !.decider = decider, !.window = TRUE,
                                    !.at = Now, !.for = people[p].address]
           new == [people[p] EXCEPT !.suspended = FALSE]
<1>1. /\ Approvable(i, "reinstate", decider) /\ people[p].suspended /\ UNCHANGED <<sessions, open>>
  BY DEF reinstate
<1>2. i \in DOMAIN requests /\ p \in Person
  BY <1>1, RecoveryApproval DEF AccountsInv
<1>3. people' = [people EXCEPT ![p] = new]
  BY DEF reinstate
<1>4. new \in PersonRows /\ new.suspended = FALSE /\ new.address = people[p].address
  BY <1>2 DEF AccountsInv, RestInv, PeopleFit, PersonRows
<1>5. /\ open[p].signing # 0 => open[p].signing = people[p].address
      /\ \A s \in sessions[p] : s.via = "code" => s.address = people[p].address
      /\ sessions[p] \in SUBSET SessionRows /\ sessions' = [sessions EXCEPT ![p] = sessions[p]]
  BY <1>1, <1>2 DEF AccountsInv, RestInv, WaysInStand, WaysIn, PeopleFit
<1>6. requests' = EndedWith(i, n, {})
  BY <1>2 DEF reinstate, Decided, EndedWith
<1>7. RestInv' /\ SuspensionsKept
  <2>1. ~new.suspended /\ RestInv
    BY <1>4 DEF AccountsInv
  <2>2. /\ new.suspended => people[p].suspended /\ sessions[p] = {} /\ ~new.identity
        /\ open[p].signing # 0 => open[p].signing = new.address
        /\ \A s \in sessions[p] : s.via = "code" => s.address = new.address
    BY <1>4, <1>5, <2>1
  <2> HIDE DEF new, p
  <2> QED BY <1>1, <1>2, <1>3, <1>4, <1>5, <2>1, <2>2, PersonChanges
<1>8. AuthorityInv'
  <2>1. Ending({}) /\ AuthorityInv
    BY DEF Ending, AccountsInv
  <2> QED BY <1>1, <1>6, <1>7, <2>1, WindowOpens
<1> QED BY <1>7, <1>8 DEF AccountsInv

LEMMA CompletionOpens ==
  ASSUME AccountsInv, NEW p \in Person, CompletionBegins(p) \/ CompletionRefused(p) \/ SigningRollsBack(p)
  PROVE  AccountsInv'
<1>1. UNCHANGED <<people, requests, sessions>>
  BY DEF CompletionBegins, CompletionRefused, SigningRollsBack
<1>2. ASSUME NEW x, NEW n \in {open[p].signing, 0},
             open' = [open EXCEPT ![p] = [suspension |-> open[p].suspension,
                                          signing |-> n, completing |-> x]]
      PROVE  AccountsInv'
  <2>1. n \in Nat /\ (n # 0 => n = people[p].address /\ ~people[p].suspended)
    BY SigningIsAddress DEF AccountsInv, RestInv, WaysInStand, WaysIn
  <2>2. RestInv' /\ SuspensionsKept
    BY <1>1, <1>2, <2>1, OpenChanges DEF AccountsInv
  <2> QED BY <1>1, <2>2, RequestsStay DEF AccountsInv
<1>3. ASSUME CompletionBegins(p) \/ CompletionRefused(p) PROVE AccountsInv'
  <2>1. PICK t : open' = [open EXCEPT ![p].completing = t]
    BY <1>3 DEF CompletionBegins, CompletionRefused
  <2>2. open' = [open EXCEPT ![p] = [suspension |-> open[p].suspension,
                                     signing |-> open[p].signing, completing |-> t]]
    BY <2>1, OpenForms DEF AccountsInv, RestInv
  <2> QED BY <1>2, <2>2
<1>4. ASSUME SigningRollsBack(p) PROVE AccountsInv'
  <2>1. open' = [open EXCEPT ![p].signing = 0]
    BY <1>4 DEF SigningRollsBack
  <2>2. open' = [open EXCEPT ![p] = [suspension |-> open[p].suspension,
                                     signing |-> 0, completing |-> open[p].completing]]
    BY <2>1, OpenForms DEF AccountsInv, RestInv
  <2> QED BY <1>2, <2>2
<1> QED BY <1>3, <1>4

LEMMA AddressChangeHolds ==
  ASSUME AccountsInv, NEW p \in Person, NEW i, complete_email_change(p, i)
  PROVE  AccountsInv'
<1> DEFINE n == [requests[i] EXCEPT !.state = "completed", !.at = open[p].completing]
           new == [people[p] EXCEPT !.address = people[p].address + 1, !.identity = FALSE]
<1>1. /\ i \in DOMAIN requests /\ RowFree(i) /\ IsRequest(requests[i]) /\ RowStands(requests[i])
      /\ requests[i].kind = "email" /\ requests[i].state = "approved"
      /\ ~people[p].suspended /\ open[p].signing # people[p].address
      /\ sessions' = [sessions EXCEPT ![p] = {}]
  BY RequestFacts DEF complete_email_change, InState, Of, AccountsInv, AuthorityInv, RowsStand
<1>2. requests' = [requests EXCEPT ![i] = n]
  BY DEF complete_email_change
<1>3. /\ Updated(requests[i], n, "completed", requests[i].decider, requests[i].window, requests[i].closed)
      /\ StillRequest(requests[i], n, {open[p].completing})
  BY <1>1, RowStamped DEF RequestStates
<1>4. Fades(requests[i], n)
  <2> HIDE DEF n
  <2> QED BY <1>1, <1>3 DEF Updated, Fades, RowCounts, RowStands
<1>5. people' = [people EXCEPT ![p] = new]
  BY DEF complete_email_change
<1>6. new \in PersonRows /\ ~new.suspended
  <2>1. PICK a \in Nat : a = people[p].address + 1
    BY DEF AccountsInv, RestInv, PeopleFit, PersonRows
  <2>2. new = [people[p] EXCEPT !.address = a, !.identity = FALSE]
    BY <2>1
  <2> HIDE DEF new
  <2> QED BY <1>1, <2>2 DEF AccountsInv, RestInv, PeopleFit, PersonRows
<1>7. open[p].signing = 0
  BY <1>1 DEF AccountsInv, RestInv, WaysInStand, WaysIn
<1>8. open' = [open EXCEPT ![p] = [suspension |-> open[p].suspension,
                                   signing |-> open[p].signing, completing |-> 0]]
  BY OpenForms DEF complete_email_change, AccountsInv, RestInv
<1>9. OpenFits' /\ \A q \in Person : /\ open'[q].signing = open[q].signing
                                     /\ open'[q].suspension = open[q].suspension
  <2>1. PICK S, T : open \in [Person -> OpenRows(S, T)]
    BY DEF AccountsInv, RestInv, OpenFits
  <2>2. /\ open \in [Person -> OpenRows(S, T \cup {0})]
        /\ [suspension |-> open[p].suspension, signing |-> open[p].signing, completing |-> 0]
             \in OpenRows(S, T \cup {0})
    BY <2>1 DEF OpenRows
  <2>3. open' \in [Person -> OpenRows(S, T \cup {0})]
    BY <1>8, <2>2
  <2>4. \A q \in Person : /\ open'[q].signing = open[q].signing
                          /\ open'[q].suspension = open[q].suspension
    BY <1>8, <2>1
  <2> QED BY <2>3, <2>4 DEF OpenFits
<1> HIDE DEF n, new
<1>10. /\ {} \in SUBSET SessionRows
       /\ new.suspended => open[p].signing = 0 /\ {} = {} /\ ~new.identity
       /\ open[p].signing # 0 => open[p].signing = new.address
       /\ \A s \in {} : s.via = "code" => s.address = new.address
  BY <1>6, <1>7
<1>11. RestInv' /\ \A q \in Person : people'[q] = IF q = p THEN new ELSE people[q]
  BY <1>1, <1>5, <1>6, <1>9, <1>10, PersonMoves DEF AccountsInv
<1>12. SuspensionsKept
  BY <1>6, <1>9, <1>11 DEF SuspensionsKept, SuspensionsOnlyEnd
<1> QED BY <1>1, <1>2, <1>3, <1>4, <1>11, <1>12, RowFades DEF AccountsInv

-----------------------------------------------------------------------------
(* A suspension: locks what it will close, closes it, or rolls back.       *)

LEMMA RollbackHolds ==
  ASSUME AccountsInv, NEW p \in Person, SuspensionRollsBack(p)
  PROVE  AccountsInv'
<1>1. /\ open' = [open EXCEPT ![p] = [suspension |-> NoSuspension, signing |-> open[p].signing,
                                      completing |-> open[p].completing]]
      /\ UNCHANGED <<people, requests, sessions>>
  <2>1. open' = [open EXCEPT ![p].suspension = NoSuspension] /\ UNCHANGED <<people, requests, sessions>>
    BY DEF SuspensionRollsBack
  <2> QED BY <2>1, OpenForms DEF AccountsInv, RestInv
<1>2. /\ open[p].signing \in Nat
      /\ open[p].signing # 0 => open[p].signing = people[p].address /\ ~people[p].suspended
  BY SigningIsAddress DEF AccountsInv, RestInv, WaysInStand, WaysIn
<1>3. RestInv' /\ SuspensionsKept
  BY <1>1, <1>2, OpenChanges DEF AccountsInv
<1> QED BY <1>1, <1>3, RequestsStay DEF AccountsInv

LEMMA ClosingHolds ==
  ASSUME AccountsInv, NEW i, NEW decider \in Person, SuspensionCloses(i, decider),
         NEW p, p = requests[i].target
  PROVE  AccountsInv'
<1>1. /\ i \in DOMAIN requests /\ RowFree(i) /\ requests[i].kind = "suspend" /\ requests[i].state = "pending"
      /\ p \in Person /\ ~Suspending(p)
      /\ \A actor \in {requests[i].by, decider} : ~recovery_separation_conflict(p, actor, "suspension")
  <2>1. Approvable(i, "suspend", decider) /\ Side("suspend") = "suspension"
    BY DEF SuspensionCloses, Side
  <2> QED BY <2>1, RecoveryApproval DEF AccountsInv
<1>2. /\ \A c \in ToClose(p) \ {i} : RowFree(c)
      /\ UNCHANGED <<people, requests, sessions>>
  BY DEF SuspensionCloses
<1>3. PICK s : /\ s.request = i /\ s.decider = decider /\ s.closes = ToClose(p) \ {i}
               /\ open' = [open EXCEPT ![p].suspension = s]
  BY DEF SuspensionCloses
<1>4. open' = [open EXCEPT ![p] = [suspension |-> s, signing |-> open[p].signing,
                                   completing |-> open[p].completing]]
  BY <1>1, <1>3, OpenForms DEF AccountsInv, RestInv
<1>5. /\ open[p].signing \in Nat
      /\ open[p].signing # 0 => open[p].signing = people[p].address /\ ~people[p].suspended
  BY <1>1, SigningIsAddress DEF AccountsInv, RestInv, WaysInStand, WaysIn
<1>6. RestInv' /\ open'[p].suspension = s /\ \A q \in Person : q # p => open'[q] = open[q]
  BY <1>1, <1>2, <1>4, <1>5, OpenChanges DEF AccountsInv
<1>7. /\ ToClose(p) = {c \in DOMAIN requests : Standing(requests[c], p)}
      /\ \A c \in ToClose(p) : RowCounts(requests[c])
  BY DEF ToClose, Standing, Parts, PartsOf, RowCounts
<1>8. /\ \A q \in Person : q # p => (Suspending(q)' <=> Suspending(q)) /\ Held(q)' = Held(q)
      /\ Held(p)' = {i} \cup (ToClose(p) \ {i})
  BY <1>3, <1>6 DEF Suspending, Held
<1>9. SuspensionReady(p)'
  <2>1. ~recovery_separation_conflict(p, decider, "suspension")'
    BY <1>1, <1>2 DEF recovery_separation_conflict, Counts, Parts
  <2>2. \A c \in DOMAIN requests' : Standing(requests'[c], p) => c \in Held(p)'
    BY <1>2, <1>7, <1>8
  <2> QED BY <1>1, <1>2, <1>3, <1>6, <1>7, <2>1, <2>2 DEF SuspensionReady
<1>10. ASSUME NEW q \in Person, q # p, Suspending(q)' PROVE SuspensionReady(q)'
  <2>1. SuspensionReady(q) /\ open'[q] = open[q]
    BY <1>6, <1>8, <1>10 DEF AccountsInv, AuthorityInv, SuspensionsReady
  <2>2. (~recovery_separation_conflict(q, open[q].suspension.decider, "suspension"))'
    BY <1>2, <2>1 DEF SuspensionReady, recovery_separation_conflict, Counts, Parts
  <2> QED BY <1>2, <1>8, <1>10, <2>1, <2>2 DEF SuspensionReady
<1>11. SuspensionsReady'
  BY <1>9, <1>10 DEF SuspensionsReady
<1>12. HeldApart'
  <2>1. ASSUME NEW q \in Person, q # p PROVE Held(q) \cap ({i} \cup (ToClose(p) \ {i})) = {}
    BY <1>1, <1>2, <2>1 DEF RowFree, Held
  <2>2. \A q \in Person : q # p => Held(q)' \cap Held(p)' = {}
    BY <1>8, <2>1
  <2>3. ASSUME NEW q \in Person, NEW r \in Person, q # p, r # p, q # r, Suspending(q)', Suspending(r)'
        PROVE  Held(q)' \cap Held(r)' = {}
    BY <1>8, <2>3 DEF AccountsInv, AuthorityInv, HeldApart
  <2> QED BY <2>2, <2>3 DEF HeldApart
<1>13. RequestsFit' /\ RowsStand' /\ SaysNothing' /\ SidesApart'
  BY <1>2 DEF AccountsInv, AuthorityInv, RequestsFit, RowsStand, SaysNothing, SidesApart, Counts, Parts
<1> QED BY <1>6, <1>11, <1>12, <1>13 DEF AccountsInv, AuthorityInv

\* What a suspension makes of a row it closes.
LEMMA RowClosedFor ==
  ASSUME NEW r, IsRequest(r), RowStands(r), RowCounts(r), NEW n, n = ClosedAs(r)
  PROVE  /\ StillRequest(r, n, {}) /\ Fades(r, n)
         /\ n.closed /\ n.state # "pending" /\ n.kind = r.kind
         /\ n.kind \in {"email", "elevate"} => n.state \in {"expired", "rejected"}
<1>1. ASSUME NEW s \in {"expired", "withdrawn", "rejected"}, n = [r EXCEPT !.state = s, !.closed = TRUE]
      PROVE  StillRequest(r, n, {}) /\ Updated(r, n, s, r.decider, r.window, TRUE)
  <2>1. Updated(r, n, s, r.decider, r.window, TRUE)
    BY <1>1 DEF IsRequest, RequestRows, Updated
  <2>2. ASSUME NEW V, r \in RequestRows(V) PROVE n \in RequestRows(V \cup {})
    BY <1>1, <2>2 DEF RequestRows, RequestStates
  <2> QED BY <2>1, <2>2 DEF StillRequest
<1>2. ASSUME n = [r EXCEPT !.closed = TRUE]
      PROVE  StillRequest(r, n, {}) /\ Updated(r, n, r.state, r.decider, r.window, TRUE)
  <2>1. Updated(r, n, r.state, r.decider, r.window, TRUE)
    BY <1>2 DEF IsRequest, RequestRows, Updated
  <2>2. ASSUME NEW V, r \in RequestRows(V) PROVE n \in RequestRows(V \cup {})
    BY <1>2, <2>2 DEF RequestRows
  <2> QED BY <2>1, <2>2 DEF StillRequest
<1>3. ASSUME NEW s \in {"expired", "withdrawn", "rejected"}, Updated(r, n, s, r.decider, r.window, TRUE),
             r.kind \in {"email", "elevate"} => s \in {"expired", "rejected"}, ~(r.kind = "reset" /\ r.window)
      PROVE  /\ Fades(r, n) /\ n.closed /\ n.state # "pending" /\ n.kind = r.kind
             /\ n.kind \in {"email", "elevate"} => n.state \in {"expired", "rejected"}
  BY <1>3 DEF Updated, Fades, RowCounts, RowStands
<1>4. CASE r.kind \in {"email", "invite"}
  <2>1. n = [r EXCEPT !.state = "expired", !.closed = TRUE]
    BY <1>4 DEF ClosedAs
  <2> QED BY <1>1, <1>3, <1>4, <2>1
<1>5. CASE r.kind \in {"grant", "revoke"}
  <2>1. n = [r EXCEPT !.state = "withdrawn", !.closed = TRUE]
    BY <1>5 DEF ClosedAs
  <2> QED BY <1>1, <1>3, <1>5, <2>1
<1>6. CASE r.kind = "reset" /\ r.state = "approved"
  <2>1. n = [r EXCEPT !.closed = TRUE]
    BY <1>6 DEF ClosedAs
  <2>2. StillRequest(r, n, {}) /\ Updated(r, n, r.state, r.decider, r.window, TRUE)
    BY <1>2, <2>1
  <2>3. Fades(r, n) /\ n.closed /\ n.state # "pending" /\ n.kind = r.kind
    BY <1>6, <2>2 DEF Updated, Fades, RowStands
  <2> QED BY <1>6, <2>2, <2>3
<1>7. CASE r.kind \notin {"email", "invite", "grant", "revoke"} /\ ~(r.kind = "reset" /\ r.state = "approved")
  <2>1. n = [r EXCEPT !.state = "rejected", !.closed = TRUE]
    BY <1>7 DEF ClosedAs
  <2>2. ~(r.kind = "reset" /\ r.window)
    BY <1>7 DEF RowStands
  <2> QED BY <1>1, <1>3, <1>7, <2>1, <2>2
<1> QED BY <1>4, <1>5, <1>6, <1>7

LEMMA RowApprovedAt ==
  ASSUME NEW r, IsRequest(r), NEW d \in Person \cup {NobodyYet}, NEW t, NEW n,
         n = Stamped([r EXCEPT !.state = "approved", !.decider = d], t)
  PROVE  Updated(r, n, "approved", d, r.window, r.closed) /\ StillRequest(r, n, {t})
<1>1. PICK m : m = [r EXCEPT !.state = "approved", !.decider = d]
  OBVIOUS
<1>2. Updated(r, m, "approved", d, r.window, r.closed) /\ StillRequest(r, m, {})
  BY <1>1, RowDecided DEF RequestStates
<1>3. IsRequest(m)
  BY <1>2 DEF IsRequest, StillRequest
<1>4. n = [m EXCEPT !.at = t]
  BY <1>1 DEF Stamped
<1>5. n.kind = m.kind /\ n.target = m.target /\ n.by = m.by /\ n.state = m.state
      /\ n.decider = m.decider /\ n.window = m.window /\ n.closed = m.closed
  BY <1>3, <1>4 DEF IsRequest, RequestRows
<1>6. ASSUME NEW V, r \in RequestRows(V) PROVE n \in RequestRows(V \cup {t})
  <2>1. m \in RequestRows(V \cup {})
    BY <1>2, <1>6 DEF StillRequest
  <2> QED BY <1>4, <2>1 DEF RequestRows
<1> QED BY <1>2, <1>5, <1>6 DEF Updated, StillRequest

LEMMA CommitHolds ==
  ASSUME AccountsInv, NEW p \in Person, decide_subject_suspension(p)
  PROVE  AccountsInv'
<1>1. PICK s : s = open[p].suspension
  OBVIOUS
<1>2. PICK L : L = ActiveElevations(p)
  OBVIOUS
<1>3. Suspending(p) /\ SuspensionReady(p) /\ RequestsFit /\ RowsStand
  BY DEF decide_subject_suspension, AccountsInv, AuthorityInv, SuspensionsReady
<1>4. /\ s.request \in DOMAIN requests /\ s.closes \subseteq DOMAIN requests /\ s.decider \in Person
      /\ requests[s.request].kind = "suspend" /\ requests[s.request].target = p
      /\ requests[s.request].state = "pending"
      /\ \A j \in DOMAIN requests : Standing(requests[j], p) => j = s.request \/ j \in s.closes
      /\ \A j \in s.closes : RowCounts(requests[j])
      /\ ~recovery_separation_conflict(p, s.decider, "suspension")
      /\ Held(p) = {s.request} \cup s.closes
  BY <1>1, <1>3 DEF SuspensionReady, Held
<1>5. /\ Ending(L) /\ s.request \notin L /\ L \cap s.closes = {}
      /\ \A j \in DOMAIN requests \ L :
           ~(requests[j].kind = "elevate" /\ requests[j].target = p
             /\ requests[j].state = "active" /\ requests[j].window)
  <2>1. Ending(L)
    BY <1>2, ActiveElevationsEnd
  <2>2. s.request \notin L /\ L \cap s.closes = {}
    BY <1>3, <1>4, <2>1 DEF Ending, RowsStand, RowStands, RowCounts
  <2>3. \A j \in DOMAIN requests \ L :
          ~(requests[j].kind = "elevate" /\ requests[j].target = p
            /\ requests[j].state = "active" /\ requests[j].window)
    BY <1>2 DEF ActiveElevations, InState, Of
  <2> QED BY <2>1, <2>2, <2>3
<1>6. PICK k : k = s.request
  OBVIOUS
<1>7. /\ requests' = [j \in DOMAIN requests |-> requests'[j]] /\ DOMAIN requests' = DOMAIN requests
      /\ requests'[k] = Stamped([requests[k] EXCEPT !.state = "approved", !.decider = s.decider], s.at)
      /\ \A j \in DOMAIN requests :
           /\ j \in L => requests'[j] = [requests[j] EXCEPT !.state = "released", !.window = FALSE]
           /\ j # k /\ j \in s.closes => requests'[j] = ClosedAs(requests[j])
           /\ j # k /\ j \notin L /\ j \notin s.closes => requests'[j] = requests[j]
  <2> DEFINE R == [j \in DOMAIN requests |->
          IF j = s.request THEN Stamped([requests[j] EXCEPT !.state = "approved", !.decider = s.decider], s.at)
          ELSE IF j \in s.closes THEN ClosedAs(requests[j]) ELSE requests[j]]
  <2>1. requests' = Released(R, p)
    BY <1>1 DEF decide_subject_suspension
  <2>2. requests' = [j \in DOMAIN requests |-> IF j \in L THEN [R[j] EXCEPT !.state = "released", !.window = FALSE]
                                               ELSE R[j]]
    BY <1>2, <2>1 DEF Released
  <2>3. \A j \in DOMAIN requests :
          R[j] = IF j = s.request THEN Stamped([requests[j] EXCEPT !.state = "approved", !.decider = s.decider], s.at)
                 ELSE IF j \in s.closes THEN ClosedAs(requests[j]) ELSE requests[j]
    OBVIOUS
  <2> HIDE DEF R
  <2>4. \A j \in L : R[j] = requests[j] /\ j # k
    BY <1>4, <1>5, <1>6, <2>3 DEF Ending
  <2> QED BY <1>4, <1>5, <1>6, <2>2, <2>3, <2>4
<1>8. PICK n : n = requests'[k]
  OBVIOUS
<1>9. /\ k \in DOMAIN requests /\ IsRequest(requests[k]) /\ RowStands(requests[k])
      /\ Updated(requests[k], n, "approved", s.decider, requests[k].window, requests[k].closed)
      /\ StillRequest(requests[k], n, {s.at})
  <2>1. k \in DOMAIN requests /\ IsRequest(requests[k]) /\ RowStands(requests[k])
    BY <1>3, <1>4, <1>6, RequestFacts DEF RowsStand
  <2> QED BY <1>4, <1>7, <1>8, <2>1, RowApprovedAt
<1>10. ASSUME NEW j \in DOMAIN requests, j \in s.closes, j # k
       PROVE  /\ StillRequest(requests[j], requests'[j], {}) /\ Fades(requests[j], requests'[j])
              /\ requests'[j].closed /\ requests'[j].state # "pending"
              /\ requests'[j].kind \in {"email", "elevate"} => requests'[j].state \in {"expired", "rejected"}
  <2>1. IsRequest(requests[j]) /\ RowStands(requests[j]) /\ RowCounts(requests[j])
    BY <1>3, <1>4, <1>10, RequestFacts DEF RowsStand
  <2>2. requests'[j] = ClosedAs(requests[j])
    BY <1>7, <1>10
  <2> QED BY <2>1, <2>2, RowClosedFor
<1>11. ASSUME NEW j \in L
       PROVE  /\ StillRequest(requests[j], requests'[j], {}) /\ Fades(requests[j], requests'[j])
              /\ RowFree(j) /\ j \in DOMAIN requests
  BY <1>5, <1>7, ElevationEnds DEF AccountsInv, Ending
<1>12. /\ open' = [open EXCEPT ![p] = [suspension |-> NoSuspension, signing |-> open[p].signing,
                                       completing |-> open[p].completing]]
       /\ sessions' = [sessions EXCEPT ![p] = {}]
       /\ open[p].signing # people[p].address
  <2>1. open' = [open EXCEPT ![p].suspension = NoSuspension]
    BY DEF decide_subject_suspension
  <2>2. sessions' = [sessions EXCEPT ![p] = {}] /\ open[p].signing # people[p].address
    BY DEF decide_subject_suspension
  <2> QED BY <2>1, <2>2, OpenForms DEF AccountsInv, RestInv
<1>13. /\ OpenFits' /\ open'[p].suspension = NoSuspension
       /\ \A q \in Person : /\ open'[q].signing = open[q].signing
                            /\ q # p => open'[q] = open[q]
  <2>1. PICK S, T : open \in [Person -> OpenRows(S, T)]
    BY DEF AccountsInv, RestInv, OpenFits
  <2>2. /\ open \in [Person -> OpenRows(S \cup {NoSuspension}, T)]
        /\ [suspension |-> NoSuspension, signing |-> open[p].signing, completing |-> open[p].completing]
             \in OpenRows(S \cup {NoSuspension}, T)
    BY <2>1 DEF OpenRows
  <2>3. open' \in [Person -> OpenRows(S \cup {NoSuspension}, T)]
    BY <1>12, <2>2
  <2>4. /\ open'[p].suspension = NoSuspension
        /\ \A q \in Person : open'[q].signing = open[q].signing /\ (q # p => open'[q] = open[q])
    BY <1>12, <2>1
  <2> QED BY <2>3, <2>4 DEF OpenFits
<1>14. SuspensionsOnlyEnd /\ ~Suspending(p)' /\ \A q \in Person : q # p => (Suspending(q)' <=> Suspending(q))
  BY <1>13 DEF SuspensionsOnlyEnd, Suspending
<1>15. ASSUME NEW j \in Held(p) PROVE RowFree(j)'
  <2>1. j \in DOMAIN requests /\ j # 0
    BY <1>3, <1>4, RequestFacts
  <2>2. NoSuspension.request = 0 /\ NoSuspension.closes = {}
    BY DEF NoSuspension
  <2>3. ASSUME NEW q \in Person
        PROVE  j # open'[q].suspension.request /\ j \notin open'[q].suspension.closes
    <3>1. CASE q = p \/ ~Suspending(q)
      BY <1>13, <2>1, <2>2, <3>1 DEF Suspending
    <3>2. CASE q # p /\ Suspending(q)
      <4>1. j \notin Held(q)
        BY <1>3, <3>2 DEF AccountsInv, AuthorityInv, HeldApart
      <4> QED BY <1>13, <3>2, <4>1 DEF Held
    <3> QED BY <3>1, <3>2
  <2> QED BY <2>3 DEF RowFree
<1>16. ASSUME NEW j \in DOMAIN requests, j # k PROVE Faded(j)
  <2>1. CASE j \in L
    BY <1>3, <1>11, <1>14, <2>1, LocksOnlyEnd DEF Faded
  <2>2. CASE j \in s.closes
    BY <1>4, <1>10, <1>15, <1>16, <2>2 DEF Faded
  <2>3. CASE j \notin L /\ j \notin s.closes
    BY <1>3, <1>7, <1>16, <2>3 DEF Faded, Fades, RowsStand
  <2> QED BY <2>1, <2>2, <2>3
<1>17. /\ n.kind = "suspend" /\ n.target = p /\ n.by = requests[k].by /\ n.state = "approved"
       /\ n.decider = s.decider
  BY <1>4, <1>6, <1>9 DEF Updated
<1>18. \A q : ~Standing(n, q) /\ ~Says(n, q)
  BY <1>17 DEF Standing, Says
<1>19. Earned(k)
  <2>1. RowFree(k)' /\ RowStands(n)
    BY <1>4, <1>6, <1>9, <1>15, <1>17 DEF Updated, RowStands
  <2>2. Side(n.kind) = "suspension"
    BY <1>17 DEF Side
  <2>3. ~recovery_separation_conflict(p, requests[k].by, "suspension")
    <3> SUFFICES ASSUME NEW j \in DOMAIN requests, requests[j].target = p,
                        Side(requests[j].kind) \in RecoverySides \ {"suspension"},
                        Counts(j), requests[k].by \in Parts(j)
                 PROVE  FALSE
      BY DEF recovery_separation_conflict
    <3>1. /\ requests[k].by \in Parts(k) /\ Counts(k) /\ Side(requests[k].kind) = "suspension"
          /\ "suspension" \in RecoverySides /\ k \in DOMAIN requests
      BY <1>4, <1>6 DEF Parts, Counts, Side, RecoverySides
    <3> QED BY <1>4, <1>6, <3>1 DEF SidesApart, AccountsInv, AuthorityInv
  <2>4. \A actor \in PartsOf(n) : ~recovery_separation_conflict(p, actor, "suspension")
    BY <1>4, <1>17, <2>3 DEF PartsOf
  <2>5. \A q \in Person : n.target = q => ~Suspending(q)'
    BY <1>14, <1>17
  <2> QED BY <1>8, <1>17, <1>18, <2>1, <2>2, <2>4, <2>5 DEF Earned
<1>20. RowsMove(k)
  BY <1>7, <1>16, <1>19 DEF RowsMove
<1>21. SidesApart' /\ SuspensionsReady' /\ HeldApart' /\ RowsStand'
  <2>1. RowsStand'
    BY <1>20 DEF RowsStand, RowsMove, Faded, Fades, Earned
  <2> QED BY <1>3, <1>14, <1>20, <2>1, SidesMove, SuspensionsMove DEF AccountsInv, AuthorityInv
<1>22. RequestsFit'
  <2>1. ASSUME NEW j \in DOMAIN requests PROVE StillRequest(requests[j], requests'[j], {s.at})
    <3>1. CASE j = k
      BY <1>8, <1>9, <3>1
    <3>2. CASE j # k /\ (j \in s.closes \/ j \in L)
      <4>1. StillRequest(requests[j], requests'[j], {})
        BY <1>10, <1>11, <3>2
      <4> QED BY <4>1 DEF StillRequest, RequestRows
    <3>3. CASE j # k /\ j \notin s.closes /\ j \notin L
      BY <1>7, <3>3, SameRow
    <3> QED BY <3>1, <3>2, <3>3
  <2> QED BY <1>3, <1>7, <2>1, RequestsRewritten
<1>23. PICK new : new = [people[p] EXCEPT !.suspended = TRUE, !.factor = FALSE, !.identity = FALSE]
  OBVIOUS
<1>24. new \in PersonRows /\ new.suspended = TRUE /\ new.identity = FALSE /\ new.address = people[p].address
  BY <1>23 DEF AccountsInv, RestInv, PeopleFit, PersonRows
<1>25. people' = [people EXCEPT ![p] = new]
  BY <1>23 DEF decide_subject_suspension
<1>26. open[p].signing = 0
  BY <1>12 DEF AccountsInv, RestInv, WaysInStand, WaysIn
<1>27. /\ {} \in SUBSET SessionRows
       /\ new.suspended => open[p].signing = 0 /\ {} = {} /\ ~new.identity
       /\ open[p].signing # 0 => open[p].signing = new.address
       /\ \A e \in {} : e.via = "code" => e.address = new.address
  BY <1>24, <1>26
<1>28. RestInv' /\ \A q \in Person : people'[q] = IF q = p THEN new ELSE people[q]
  BY <1>12, <1>13, <1>24, <1>25, <1>27, PersonMoves DEF AccountsInv
<1>29. SaysNothing'
  <2> SUFFICES ASSUME NEW q \in Person, people'[q].suspended, NEW j \in DOMAIN requests'
               PROVE  ~Says(requests'[j], q)
    BY DEF SaysNothing
  <2>1. j \in DOMAIN requests
    BY <1>7
  <2>2. CASE j = k
    BY <1>8, <1>18, <2>2
  <2>3. CASE j # k /\ q # p
    <3>1. people[q].suspended /\ ~Says(requests[j], q)
      BY <1>28, <2>1, <2>3 DEF AccountsInv, AuthorityInv, SaysNothing
    <3>2. Fades(requests[j], requests'[j]) /\ RowStands(requests[j])
      BY <1>3, <1>16, <2>1, <2>3 DEF Faded, RowsStand
    <3> QED BY <3>1, <3>2, FadingRow
  <2>4. CASE j # k /\ q = p /\ j \in s.closes
    BY <1>10, <2>1, <2>4 DEF Says
  <2>5. CASE j # k /\ q = p /\ j \in L
    <3>1. requests[j].kind = "elevate" /\ IsRequest(requests[j])
      BY <1>3, <1>5, <2>1, <2>5, RequestFacts DEF Ending
    <3>2. requests'[j].kind = "elevate" /\ requests'[j].state = "released"
      <4>1. requests'[j] = [requests[j] EXCEPT !.state = "released", !.window = FALSE]
        BY <1>7, <2>1, <2>5
      <4>2. PICK T : requests[j] \in RequestRows(T)
        BY <3>1 DEF IsRequest
      <4> QED BY <3>1, <4>1, <4>2 DEF RequestRows
    <3> QED BY <3>2 DEF Says
  <2>6. CASE j # k /\ q = p /\ j \notin L /\ j \notin s.closes
    <3>1. requests'[j] = requests[j] /\ RowStands(requests[j]) /\ ~Standing(requests[j], p)
      BY <1>3, <1>4, <1>6, <1>7, <2>1, <2>6 DEF RowsStand
    <3>2. ~(requests[j].kind = "elevate" /\ requests[j].target = p
            /\ requests[j].state = "active" /\ requests[j].window)
      BY <1>5, <2>1, <2>6
    <3> QED BY <2>6, <3>1, <3>2 DEF Says, Standing, RowStands
  <2> QED BY <2>2, <2>3, <2>4, <2>5, <2>6
<1> QED BY <1>21, <1>22, <1>28, <1>29 DEF AccountsInv, AuthorityInv

-----------------------------------------------------------------------------
(* The ways in.  The requests stay.                                        *)

LEMMA SignInCodeHolds ==
  ASSUME AccountsInv, NEW p \in Person, NEW a \in Nat,
         start_email_challenge(p) \/ CodeConsumed(p, a)
  PROVE  AccountsInv'
<1>1. UNCHANGED <<people, requests, sessions>>
  BY DEF start_email_challenge, CodeConsumed
<1>2. CASE UNCHANGED open
  BY <1>1, <1>2, RestKept, RequestsStay DEF AccountsInv
<1>3. CASE a = people[p].address /\ ~people[p].suspended /\ open' = [open EXCEPT ![p].signing = a]
  <2>1. open' = [open EXCEPT ![p] = [suspension |-> open[p].suspension, signing |-> a,
                                     completing |-> open[p].completing]]
    BY <1>3, OpenForms DEF AccountsInv, RestInv
  <2>2. /\ a # 0 => a = people[p].address /\ ~people[p].suspended
        /\ open[p].suspension \in {open[p].suspension, NoSuspension}
        /\ UNCHANGED <<people, sessions>> /\ RestInv
    BY <1>1, <1>3 DEF AccountsInv
  <2>3. RestInv' /\ SuspensionsKept
    BY <2>1, <2>2, OpenChanges
  <2> QED BY <1>1, <2>3, RequestsStay DEF AccountsInv
<1> QED BY <1>2, <1>3 DEF start_email_challenge, CodeConsumed

LEMMA CodeSignInHolds ==
  ASSUME AccountsInv, NEW p \in Person, verify_sign_in_code(p)
  PROVE  AccountsInv'
<1>1. /\ open[p].signing # 0 /\ ~people[p].suspended /\ UNCHANGED <<people, requests>>
      /\ sessions' = [sessions EXCEPT ![p] = @ \cup {[via |-> "code", address |-> open[p].signing]}]
      /\ open' = [open EXCEPT ![p].signing = 0]
  BY DEF verify_sign_in_code
<1>2. PICK e : e = [via |-> "code", address |-> open[p].signing]
  OBVIOUS
<1>3. open[p].signing \in Nat /\ open[p].signing = people[p].address /\ e \in SessionRows
      /\ e.via = "code" /\ e.address = people[p].address
  <2>1. open[p].signing \in Nat
    BY SigningIsAddress DEF AccountsInv, RestInv
  <2> QED BY <1>1, <1>2, <2>1 DEF AccountsInv, RestInv, WaysInStand, WaysIn, SessionRows
<1>4. /\ sessions \in [Person -> SUBSET SessionRows] /\ people \in [Person -> PersonRows]
      /\ sessions' = [sessions EXCEPT ![p] = sessions[p] \cup {e}]
  BY <1>1, <1>2 DEF AccountsInv, RestInv, PeopleFit
<1>5. PICK S, T : open \in [Person -> OpenRows(S, T)]
  BY DEF AccountsInv, RestInv, OpenFits
<1>6. open' = [open EXCEPT ![p] = [suspension |-> open[p].suspension, signing |-> 0,
                                   completing |-> open[p].completing]]
  BY <1>1, OpenForms DEF AccountsInv, RestInv
<1>7. [suspension |-> open[p].suspension, signing |-> 0, completing |-> open[p].completing] \in OpenRows(S, T)
  BY <1>5 DEF OpenRows
<1>8. /\ open' \in [Person -> OpenRows(S, T)] /\ open'[p].signing = 0
      /\ \A q \in Person : /\ open'[q].suspension = open[q].suspension
                           /\ q # p => open'[q] = open[q]
  BY <1>5, <1>6, <1>7
<1>9. SuspensionsKept /\ OpenFits'
  BY <1>1, <1>8 DEF SuspensionsKept, SuspensionsOnlyEnd, OpenFits
<1>10. PeopleFit'
  BY <1>1, <1>3, <1>4 DEF PeopleFit
<1>11. ASSUME NEW q \in Person PROVE WaysIn(q)'
  <2>1. WaysIn(q)
    BY DEF AccountsInv, RestInv, WaysInStand
  <2>2. CASE q = p
    <3>1. sessions'[p] = sessions[p] \cup {e}
      BY <1>4
    <3> QED BY <1>1, <1>3, <1>8, <2>1, <2>2, <3>1 DEF WaysIn
  <2>3. CASE q # p
    <3>1. sessions'[q] = sessions[q] /\ open'[q] = open[q] /\ people'[q] = people[q]
      BY <1>1, <1>4, <1>8, <2>3
    <3> QED BY <2>1, <3>1 DEF WaysIn
  <2> QED BY <2>2, <2>3
<1> QED BY <1>1, <1>9, <1>10, <1>11, RequestsStay DEF AccountsInv, RestInv, WaysInStand

LEMMA WayInHolds ==
  ASSUME AccountsInv, NEW p \in Person,
         \/ complete_oidc_sign_in(p) \/ EnrolFactor(p)
         \/ complete_oidc_link(p) \/ unlink_external_identity(p)
  PROVE  AccountsInv'
<1>1. /\ people \in [Person -> PersonRows] /\ sessions \in [Person -> SUBSET SessionRows] /\ WaysIn(p)
      /\ people[p] \in PersonRows /\ sessions[p] \in SUBSET SessionRows
      /\ UNCHANGED <<requests, open>> /\ RestInv
  BY DEF AccountsInv, RestInv, PeopleFit, WaysInStand, complete_oidc_sign_in, EnrolFactor,
         complete_oidc_link, unlink_external_identity
<1>2. PICK new, kept : /\ people' = [people EXCEPT ![p] = new] /\ sessions' = [sessions EXCEPT ![p] = kept]
                       /\ new \in PersonRows /\ new.suspended = people[p].suspended
                       /\ new.address = people[p].address
                       /\ new.suspended => ~new.identity
                       /\ kept \in SUBSET SessionRows
                       /\ new.suspended => kept = {}
                       /\ \A s \in kept : s.via = "code" => s \in sessions[p]
  <2>1. CASE complete_oidc_sign_in(p)
    <3>1. PICK e : e = [via |-> "identity", address |-> people[p].address]
      OBVIOUS
    <3>2. /\ people' = [people EXCEPT ![p] = people[p]] /\ ~people[p].suspended
          /\ sessions' = [sessions EXCEPT ![p] = sessions[p] \cup {e}]
      BY <1>1, <2>1, <3>1 DEF complete_oidc_sign_in
    <3>3. e \in SessionRows /\ e.via = "identity"
      BY <1>1, <3>1 DEF PersonRows, SessionRows
    <3>4. /\ sessions[p] \cup {e} \in SUBSET SessionRows
          /\ \A s \in sessions[p] \cup {e} : s.via = "code" => s \in sessions[p]
      BY <1>1, <3>3
    <3> QED BY <1>1, <3>2, <3>4
  <2>2. CASE EnrolFactor(p)
    <3>1. PICK new : new = [people[p] EXCEPT !.factor = TRUE]
      OBVIOUS
    <3>2. people' = [people EXCEPT ![p] = new] /\ sessions' = [sessions EXCEPT ![p] = sessions[p]]
      BY <1>1, <2>2, <3>1 DEF EnrolFactor
    <3>3. /\ new \in PersonRows /\ new.suspended = people[p].suspended
          /\ new.address = people[p].address /\ new.identity = people[p].identity
      BY <1>1, <3>1 DEF PersonRows
    <3> QED BY <1>1, <3>2, <3>3 DEF WaysIn
  <2>3. CASE complete_oidc_link(p)
    <3>1. PICK new : new = [people[p] EXCEPT !.identity = TRUE]
      OBVIOUS
    <3>2. /\ people' = [people EXCEPT ![p] = new] /\ sessions' = [sessions EXCEPT ![p] = sessions[p]]
          /\ sessions[p] # {}
      BY <1>1, <2>3, <3>1 DEF complete_oidc_link
    <3>3. /\ new \in PersonRows /\ new.suspended = people[p].suspended
          /\ new.address = people[p].address
      BY <1>1, <3>1 DEF PersonRows
    <3>4. ~people[p].suspended
      BY <1>1, <3>2 DEF WaysIn
    <3> QED BY <1>1, <3>2, <3>3, <3>4
  <2>4. CASE unlink_external_identity(p)
    <3>1. PICK new : new = [people[p] EXCEPT !.identity = FALSE]
      OBVIOUS
    <3>2. PICK kept : kept = {s \in sessions[p] : s.via # "identity"}
      OBVIOUS
    <3>3. people' = [people EXCEPT ![p] = new] /\ sessions' = [sessions EXCEPT ![p] = kept]
      BY <1>1, <2>4, <3>1, <3>2 DEF unlink_external_identity
    <3>4. /\ new \in PersonRows /\ new.suspended = people[p].suspended
          /\ new.address = people[p].address /\ ~new.identity
      BY <1>1, <3>1 DEF PersonRows
    <3>5. kept \subseteq sessions[p]
      BY <3>2
    <3> QED BY <1>1, <3>3, <3>4, <3>5 DEF WaysIn
  <2> QED BY <2>1, <2>2, <2>3, <2>4
<1>3. /\ new.suspended => people[p].suspended /\ kept = {} /\ ~new.identity
      /\ open[p].signing # 0 => open[p].signing = new.address
      /\ \A s \in kept : s.via = "code" => s.address = new.address
  BY <1>1, <1>2 DEF WaysIn
<1>4. RestInv' /\ SuspensionsKept
  BY <1>1, <1>2, <1>3, PersonChanges
<1> QED BY <1>1, <1>4, RequestsStay DEF AccountsInv

-----------------------------------------------------------------------------
LEMMA AccountsBegin ==
  AccountsInit => AccountsInv
<1> SUFFICES ASSUME AccountsInit PROVE AccountsInv
  OBVIOUS
<1>1. /\ requests = <<>> /\ DOMAIN requests = {} /\ sessions = [p \in Person |-> {}]
      /\ open = [p \in Person |-> NothingOpen]
      /\ people = [p \in Person |->
           [suspended |-> FALSE, address |-> 1, identity |-> TRUE, factor |-> TRUE, approver |-> TRUE]]
  BY DEF AccountsInit
<1>2. NothingOpen.suspension = NoSuspension /\ NothingOpen.signing = 0 /\ NothingOpen.completing = 0
      /\ NothingOpen \in OpenRows({NoSuspension}, {0})
  BY DEF NothingOpen, OpenRows
<1>3. RequestsFit
  BY <1>1 DEF RequestsFit
<1>4. \A p \in Person : ~Suspending(p)
  BY <1>1, <1>2 DEF Suspending
<1>5. RowsStand /\ SuspensionsReady /\ HeldApart /\ SaysNothing /\ SidesApart
  BY <1>1, <1>4 DEF RowsStand, SuspensionsReady, HeldApart, SaysNothing, SidesApart
<1>6. OpenFits
  BY <1>1, <1>2 DEF OpenFits
<1>7. PeopleFit
  BY <1>1 DEF PeopleFit, PersonRows
<1>8. WaysInStand
  BY <1>1, <1>2 DEF WaysInStand, WaysIn
<1> QED BY <1>3, <1>5, <1>6, <1>7, <1>8 DEF AccountsInv, AuthorityInv, RestInv

LEMMA AccountsStep ==
  AccountsInv /\ [AccountsNext]_accountsVars => AccountsInv'
<1> SUFFICES ASSUME AccountsInv, [AccountsNext]_accountsVars PROVE AccountsInv'
  OBVIOUS
<1>1. CASE UNCHANGED accountsVars
  BY <1>1, RestKept, RequestsStay DEF accountsVars, AccountsInv
<1>2. CASE SuspensionSteps
  <2>1. ASSUME NEW p \in Person, NEW by \in Person, NEW action \in {"suspend", "reinstate"},
               ProposeSuspension(action, p, by)
        PROVE  AccountsInv'
    BY <2>1, ProposalHolds, RestKept DEF AccountsInv
  <2>2. ASSUME NEW i \in 1..MaxRequests, NEW decider \in Person,
               Reject(i, decider) \/ reinstate(i, decider) \/ SuspensionCloses(i, decider)
        PROVE  AccountsInv'
    <3>1. CASE Reject(i, decider)
      BY <3>1, RejectionHolds, RestKept DEF AccountsInv
    <3>2. CASE reinstate(i, decider)
      BY <3>2, ReinstatementHolds
    <3>3. CASE SuspensionCloses(i, decider)
      BY <3>3, ClosingHolds
    <3> QED BY <2>2, <3>1, <3>2, <3>3
  <2>3. ASSUME NEW p \in Person, decide_subject_suspension(p) \/ SuspensionRollsBack(p)
        PROVE  AccountsInv'
    BY <2>3, CommitHolds, RollbackHolds
  <2>4. ASSUME NEW i \in 1..MaxRequests, WindowLapses(i) PROVE AccountsInv'
    BY <2>4, EndingHolds, RestKept DEF AccountsInv
  <2> QED BY <1>2, <2>1, <2>2, <2>3, <2>4 DEF SuspensionSteps
<1>3. CASE RecoverySteps
  <2>1. ASSUME NEW p \in Person, NEW by \in Person, ProposeReset(p, by) \/ request_email_change(p, by)
        PROVE  AccountsInv'
    BY <2>1, ProposalHolds, RestKept DEF AccountsInv
  <2>2. ASSUME NEW i \in 1..MaxRequests, NEW decider \in Person,
               decide_mfa_reset(i, decider) \/ decide_email_change(i, decider)
        PROVE  AccountsInv'
    BY <2>2, ResetDecisionHolds, EmailApprovalHolds, RestKept DEF AccountsInv
  <2>3. ASSUME NEW p \in Person, CompletionBegins(p) \/ CompletionRefused(p) PROVE AccountsInv'
    BY <2>3, CompletionOpens
  <2>4. ASSUME NEW p \in Person, NEW i \in 1..MaxRequests, complete_email_change(p, i) PROVE AccountsInv'
    BY <2>4, AddressChangeHolds
  <2>5. ASSUME NEW i \in 1..MaxRequests, ApprovedAddressLapses(i) PROVE AccountsInv'
    BY <2>5, EndingHolds, RestKept DEF AccountsInv
  <2> QED BY <1>3, <2>1, <2>2, <2>3, <2>4, <2>5 DEF RecoverySteps
<1>4. CASE AuthoritySteps
  <2>1. ASSUME NEW p \in Person, RequestElevation(p) \/ create_invitation(p) PROVE AccountsInv'
    BY <2>1, ProposalHolds, RestKept DEF AccountsInv
  <2>2. ASSUME NEW p \in Person, NEW by \in Person, ProposeGrant(p, by) \/ ProposeRevocation(p, by)
        PROVE  AccountsInv'
    BY <2>2, ProposalHolds, RestKept DEF AccountsInv
  <2>3. ASSUME NEW p \in Person, NEW by \in Person, QuarantineAccess(p, by) PROVE AccountsInv'
    BY <2>3, RoleStepHolds
  <2>4. ASSUME NEW i \in 1..MaxRequests, NEW by \in Person, ApproveElevation(i, by) \/ ReleaseElevation(i, by)
        PROVE  AccountsInv'
    BY <2>4, ElevationApprovalHolds, EndingHolds, RestKept DEF AccountsInv
  <2>5. ASSUME NEW i \in 1..MaxRequests, NEW by \in Person, ApproveGrant(i, by) \/ ApproveRevocation(i, by)
        PROVE  AccountsInv'
    BY <2>5, RoleStepHolds
  <2>6. ASSUME NEW i \in 1..MaxRequests, revoke_invitation(i) \/ accept_invitation(i) PROVE AccountsInv'
    BY <2>6, EndingHolds, RestKept DEF AccountsInv
  <2> QED BY <1>4, <2>1, <2>2, <2>3, <2>4, <2>5, <2>6 DEF AuthoritySteps
<1>5. CASE SignInSteps
  <2> SUFFICES ASSUME NEW p \in Person,
                      \/ start_email_challenge(p)
                      \/ \E a \in 1..MaxAddress : CodeConsumed(p, a)
                      \/ verify_sign_in_code(p) \/ SigningRollsBack(p)
                      \/ complete_oidc_sign_in(p) \/ EnrolFactor(p)
                      \/ complete_oidc_link(p) \/ unlink_external_identity(p)
               PROVE  AccountsInv'
    BY <1>5 DEF SignInSteps
  <2>1. CASE start_email_challenge(p)
    <3>1. 0 \in Nat
      OBVIOUS
    <3> QED BY <2>1, <3>1, SignInCodeHolds
  <2>2. ASSUME NEW a \in 1..MaxAddress, CodeConsumed(p, a) PROVE AccountsInv'
    BY <2>2, SignInCodeHolds
  <2>3. CASE verify_sign_in_code(p)
    BY <2>3, CodeSignInHolds
  <2>4. CASE SigningRollsBack(p)
    BY <2>4, CompletionOpens
  <2>5. CASE complete_oidc_sign_in(p) \/ EnrolFactor(p) \/ complete_oidc_link(p) \/ unlink_external_identity(p)
    BY <2>5, WayInHolds
  <2> QED BY <2>1, <2>2, <2>3, <2>4, <2>5
<1> QED BY <1>1, <1>2, <1>3, <1>4, <1>5 DEF AccountsNext

LEMMA AccountsStand ==
  AccountsInv => AuthorityStands /\ SessionsStand
<1> SUFFICES ASSUME AccountsInv PROVE AuthorityStands /\ SessionsStand
  OBVIOUS
<1>1. SidesApart /\ WaysInStand /\ SaysNothing
  BY DEF AccountsInv, AuthorityInv, RestInv
<1>2. SuspendedHasNoSay
  BY <1>1 DEF SuspendedHasNoSay, SaysNothing, Says, WaysInStand, WaysIn, Parts, PartsOf
<1>3. SessionsStand
  <2> SUFFICES ASSUME NEW p \in Person, NEW s \in sessions[p]
               PROVE  ~people[p].suspended /\ (s.via = "code" => s.address = people[p].address)
    BY DEF SessionsStand
  <2> QED BY <1>1 DEF WaysInStand, WaysIn
<1> QED BY <1>1, <1>2, <1>3 DEF AuthorityStands

\* Nothing a suspended person proposed or approved can still take effect, they hold no
\* elevation and no way in, and nobody takes part in two recovery flows of one person, for
\* any interleaving of a suspension with what others decide (decide_subject_suspension,
\* recovery_separation_conflict).
THEOREM AuthorityHolds == AccountsSpec => []AuthorityStands
<1>1. AccountsSpec => []AccountsInv
  BY AccountsBegin, AccountsStep, PTL DEF AccountsSpec
<1> QED BY <1>1, AccountsStand, PTL

\* No session outlives a suspension or the address it was opened with.
LEMMA SessionsHold == AccountsSpec => []SessionsStand
<1>1. AccountsSpec => []AccountsInv
  BY AccountsBegin, AccountsStep, PTL DEF AccountsSpec
<1> QED BY <1>1, AccountsStand, PTL

-----------------------------------------------------------------------------
(* ExternalSignIn: its rows, and which of them rest on which.              *)

Purposes == {"sign_in", "link", "invitation_accept"}
FlowStates == {"started", "claimed", "completed", "lapsed", "purged"}
Outcomes == {"none", "session", "linked", "not_found", "step_up_required", "unavailable",
             "invitation_invalid", "email_mismatch", "identity_unavailable", "email_unavailable"}
IdentityRows == [holder : Holder, account : Account, live : BOOLEAN, flow : Nat]
EntryRows == [holder : Holder, flow : Nat, live : BOOLEAN, second : BOOLEAN]
FlowRows == [provider : Providers, purpose : Purposes, entry : Nat, invitation : Invited \cup {NoHolder},
             state : FlowStates, outcome : Outcomes, identity : Nat]
RowsFit == identities \in Seq(IdentityRows) /\ entries \in Seq(EntryRows) /\ flows \in Seq(FlowRows)

\* A person is there before they can lose anything, and once invited, by accepting.
HoldersFit ==
  /\ holders \in [Holder -> [there : BOOLEAN, suspended : BOOLEAN]]
  /\ invitations \in [Invited -> [state : {"pending", "accepted", "closed"}, taken : BOOLEAN]]
  /\ \A h \in Holder : holders[h].suspended => holders[h].there
  /\ \A h \in Invited : holders[h].there <=> invitations[h].state = "accepted"

CallbacksFit ==
  /\ DOMAIN callbacks = Callback /\ callbacks = [c \in Callback |-> callbacks[c]]
  /\ \A c \in Callback :
       /\ callbacks[c].step \in {"claimed", "verified", "found"} => callbacks[c].flow \in DOMAIN flows
       /\ callbacks[c].step \in {"verified", "found"} => callbacks[c].account \in Account

FlowsFit ==
  \A f \in DOMAIN flows :
    /\ flows[f].purpose = "link" => flows[f].entry \in DOMAIN entries
    /\ flows[f].purpose = "invitation_accept" => flows[f].invitation \in Invited

\* An identity was made by the one flow that names it ...
IdentitiesFit ==
  \A i \in DOMAIN identities : LET f == identities[i].flow IN
    /\ f \in DOMAIN flows /\ flows[f].state \in {"completed", "purged"} /\ flows[f].identity = i
    /\ flows[f].purpose # "sign_in" /\ holders[identities[i].holder].there
    /\ identities[i].holder = IF flows[f].purpose = "link" THEN entries[flows[f].entry].holder
                              ELSE flows[f].invitation

\* ... and a session rests on the flow that made it, which is kept for it.
EntriesFit ==
  \A e \in DOMAIN entries : LET f == entries[e].flow IN
    /\ holders[entries[e].holder].there
    /\ entries[e].live => ~holders[entries[e].holder].suspended
    /\ f # 0 => /\ f \in DOMAIN flows /\ flows[f].state = "completed"
                /\ flows[f].identity \in DOMAIN identities
                /\ identities[flows[f].identity].holder = entries[e].holder
                /\ entries[e].live => identities[flows[f].identity].live

FlowsOpenOnce ==
  \A e, d \in DOMAIN entries : entries[e].flow = entries[d].flow /\ entries[e].flow # 0 => e = d
AcceptedOnce ==
  \A i, j \in DOMAIN identities :
    /\ identities[i].holder = identities[j].holder
    /\ flows[identities[i].flow].purpose = "invitation_accept"
    /\ flows[identities[j].flow].purpose = "invitation_accept"
    => i = j

ExternalInv ==
  /\ RowsFit /\ HoldersFit /\ CallbacksFit /\ FlowsFit /\ IdentitiesFit /\ EntriesFit
  /\ OneHolderEach /\ FlowsOpenOnce /\ AcceptedOnce

\* What a step may do to rows that are there: who and what they are of stays, an end is final.
FlowsStay ==
  \A f \in DOMAIN flows :
    /\ f \in DOMAIN flows' /\ flows'[f].purpose = flows[f].purpose
    /\ flows'[f].entry = flows[f].entry /\ flows'[f].invitation = flows[f].invitation
    /\ flows[f].state \in {"completed", "purged"} =>
         /\ flows'[f].identity = flows[f].identity
         /\ flows'[f].state \in {"completed", "purged"}
         /\ (\E e \in DOMAIN entries : entries[e].flow = f) => flows'[f].state = flows[f].state
IdentitiesStay ==
  \A i \in DOMAIN identities :
    /\ i \in DOMAIN identities' /\ identities'[i].holder = identities[i].holder
    /\ identities'[i].account = identities[i].account /\ identities'[i].flow = identities[i].flow
    /\ identities'[i].live => identities[i].live
EntriesStay ==
  \A e \in DOMAIN entries :
    /\ e \in DOMAIN entries' /\ entries'[e].holder = entries[e].holder /\ entries'[e].flow = entries[e].flow
    /\ entries'[e].live => entries[e].live
\* A session goes with its identity and with a suspension.
EntriesFollow ==
  \A e \in DOMAIN entries : entries'[e].live =>
    /\ holders'[entries[e].holder].suspended => holders[entries[e].holder].suspended
    /\ entries[e].flow # 0 => LET i == flows[entries[e].flow].identity IN
         identities[i].live => identities'[i].live
HoldersStay == \A h \in Holder : holders[h].there => holders'[h].there

SignInRowsStay == FlowsStay /\ IdentitiesStay /\ EntriesStay /\ EntriesFollow /\ HoldersStay

\* What a row that is added has to be.
FlowMayStart(g) ==
  g \in DOMAIN flows' \ DOMAIN flows =>
    /\ flows'[g].purpose = "link" => flows'[g].entry \in DOMAIN entries'
    /\ flows'[g].purpose = "invitation_accept" => flows'[g].invitation \in Invited
IdentityMayBegin(k) ==
  k \in DOMAIN identities' \ DOMAIN identities => LET f == identities'[k].flow  h == identities'[k].holder IN
    /\ f \in DOMAIN flows /\ flows'[f].state = "completed" /\ flows'[f].identity = k
    /\ flows[f].purpose # "sign_in" /\ holders'[h].there
    /\ h = IF flows[f].purpose = "link" THEN entries[flows[f].entry].holder ELSE flows[f].invitation
    /\ \A j \in DOMAIN identities : identities[j].live =>
         /\ identities[j].account # identities'[k].account
         /\ identities[j].holder = h => ProviderOf[identities[j].account] # ProviderOf[identities'[k].account]
    /\ flows[f].purpose # "link" => \A j \in DOMAIN identities : identities[j].holder # h
EntryMayBegin(d) ==
  d \in DOMAIN entries' \ DOMAIN entries => LET f == entries'[d].flow  h == entries'[d].holder IN
    /\ holders'[h].there /\ ~holders'[h].suspended
    /\ f # 0 => /\ f \in DOMAIN flows /\ flows'[f].state = "completed"
                /\ flows'[f].identity \in DOMAIN identities'
                /\ identities'[flows'[f].identity].holder = h /\ identities'[flows'[f].identity].live
                /\ \A e \in DOMAIN entries : entries[e].flow # f

LEMMA ExternalRows ==
  ASSUME RowsFit
  PROVE  /\ identities = [i \in DOMAIN identities |-> identities[i]]
         /\ \A i \in DOMAIN identities : identities[i] \in IdentityRows
         /\ entries = [e \in DOMAIN entries |-> entries[e]]
         /\ \A e \in DOMAIN entries : entries[e] \in EntryRows
         /\ flows = [f \in DOMAIN flows |-> flows[f]]
         /\ \A f \in DOMAIN flows : flows[f] \in FlowRows
         /\ DOMAIN flows \subseteq Nat \ {0} /\ DOMAIN identities \subseteq Nat \ {0}
         /\ DOMAIN entries \subseteq Nat \ {0}
<1>1. identities \in Seq(IdentityRows) /\ entries \in Seq(EntryRows) /\ flows \in Seq(FlowRows)
  BY DEF RowsFit
<1>2. ASSUME NEW S, NEW s \in Seq(S) PROVE DOMAIN s \subseteq Nat \ {0}
  OBVIOUS
<1> QED BY <1>1, <1>2, RowsAreMapped

LEMMA ExternalMoves ==
  ASSUME ExternalInv, RowsFit', HoldersFit', CallbacksFit', SignInRowsStay, NEW k, NEW d, NEW g,
         DOMAIN identities' \subseteq DOMAIN identities \cup {k}, IdentityMayBegin(k),
         DOMAIN entries' \subseteq DOMAIN entries \cup {d}, EntryMayBegin(d),
         DOMAIN flows' \subseteq DOMAIN flows \cup {g}, FlowMayStart(g)
  PROVE  ExternalInv'
<1>0. /\ FlowsStay /\ IdentitiesStay /\ EntriesStay /\ EntriesFollow /\ HoldersStay
      /\ FlowsFit /\ IdentitiesFit /\ EntriesFit
  BY DEF SignInRowsStay, ExternalInv
<1>a. \A i \in DOMAIN identities : identities[i].holder \in Holder
  BY ExternalRows DEF ExternalInv, IdentityRows
<1>b. \A e \in DOMAIN entries : entries[e].holder \in Holder
  BY ExternalRows DEF ExternalInv, EntryRows
<1>1. FlowsFit'
  <2>1. ASSUME NEW f \in DOMAIN flows
        PROVE  /\ flows'[f].purpose = "link" => flows'[f].entry \in DOMAIN entries'
               /\ flows'[f].purpose = "invitation_accept" => flows'[f].invitation \in Invited
    BY <1>0 DEF FlowsStay, EntriesStay, FlowsFit
  <2> QED BY <2>1 DEF FlowsFit, FlowMayStart
<1>2. IdentitiesFit'
  <2> SUFFICES ASSUME NEW i \in DOMAIN identities', NEW f, f = identities'[i].flow
               PROVE  /\ f \in DOMAIN flows' /\ flows'[f].state \in {"completed", "purged"}
                      /\ flows'[f].identity = i
                      /\ flows'[f].purpose # "sign_in" /\ holders'[identities'[i].holder].there
                      /\ identities'[i].holder = IF flows'[f].purpose = "link"
                                                 THEN entries'[flows'[f].entry].holder
                                                 ELSE flows'[f].invitation
    BY DEF IdentitiesFit
  <2>1. CASE i \in DOMAIN identities
    <3>1. /\ f = identities[i].flow /\ identities'[i].holder = identities[i].holder
          /\ f \in DOMAIN flows /\ flows[f].state \in {"completed", "purged"} /\ flows[f].identity = i
          /\ flows[f].purpose # "sign_in" /\ holders[identities[i].holder].there
          /\ identities[i].holder = IF flows[f].purpose = "link" THEN entries[flows[f].entry].holder
                                    ELSE flows[f].invitation
      BY <1>0, <2>1 DEF IdentitiesStay, IdentitiesFit
    <3>2. /\ f \in DOMAIN flows' /\ flows'[f].state \in {"completed", "purged"} /\ flows'[f].identity = i
          /\ flows'[f].purpose = flows[f].purpose /\ flows'[f].entry = flows[f].entry
          /\ flows'[f].invitation = flows[f].invitation
      BY <1>0, <3>1 DEF FlowsStay
    <3>3. flows[f].purpose = "link" => entries'[flows[f].entry].holder = entries[flows[f].entry].holder
      BY <1>0, <3>1 DEF FlowsFit, EntriesStay
    <3>4. holders'[identities'[i].holder].there
      BY <1>0, <1>a, <2>1, <3>1 DEF HoldersStay
    <3> QED BY <3>1, <3>2, <3>3, <3>4
  <2>2. CASE i = k /\ i \notin DOMAIN identities
    <3>1. /\ f \in DOMAIN flows /\ flows'[f].state = "completed" /\ flows'[f].identity = i
          /\ flows[f].purpose # "sign_in" /\ holders'[identities'[i].holder].there
          /\ identities'[i].holder = IF flows[f].purpose = "link" THEN entries[flows[f].entry].holder
                                     ELSE flows[f].invitation
      BY <2>2 DEF IdentityMayBegin
    <3>2. /\ f \in DOMAIN flows' /\ flows'[f].purpose = flows[f].purpose
          /\ flows'[f].entry = flows[f].entry /\ flows'[f].invitation = flows[f].invitation
      BY <1>0, <3>1 DEF FlowsStay
    <3>3. flows[f].purpose = "link" => entries'[flows[f].entry].holder = entries[flows[f].entry].holder
      BY <1>0, <3>1 DEF FlowsFit, EntriesStay
    <3> QED BY <3>1, <3>2, <3>3
  <2> QED BY <2>1, <2>2
<1>3. EntriesFit'
  <2> SUFFICES ASSUME NEW e \in DOMAIN entries', NEW f, f = entries'[e].flow
               PROVE  /\ holders'[entries'[e].holder].there
                      /\ entries'[e].live => ~holders'[entries'[e].holder].suspended
                      /\ f # 0 => /\ f \in DOMAIN flows' /\ flows'[f].state = "completed"
                                  /\ flows'[f].identity \in DOMAIN identities'
                                  /\ identities'[flows'[f].identity].holder = entries'[e].holder
                                  /\ entries'[e].live => identities'[flows'[f].identity].live
    BY DEF EntriesFit
  <2>1. CASE e \in DOMAIN entries
    <3>1. /\ f = entries[e].flow /\ entries'[e].holder = entries[e].holder
          /\ entries'[e].live => entries[e].live
          /\ holders[entries[e].holder].there /\ entries[e].holder \in Holder
          /\ entries[e].live => ~holders[entries[e].holder].suspended
      BY <1>0, <1>b, <2>1 DEF EntriesStay, EntriesFit
    <3>2. /\ holders'[entries'[e].holder].there
          /\ entries'[e].live => ~holders'[entries'[e].holder].suspended
      BY <1>0, <2>1, <3>1 DEF HoldersStay, EntriesFollow
    <3>3. ASSUME f # 0
          PROVE  /\ f \in DOMAIN flows' /\ flows'[f].state = "completed"
                 /\ flows'[f].identity \in DOMAIN identities'
                 /\ identities'[flows'[f].identity].holder = entries'[e].holder
                 /\ entries'[e].live => identities'[flows'[f].identity].live
      <4>1. /\ f \in DOMAIN flows /\ flows[f].state = "completed"
            /\ flows[f].identity \in DOMAIN identities
            /\ identities[flows[f].identity].holder = entries[e].holder
            /\ entries[e].live => identities[flows[f].identity].live
        BY <1>0, <2>1, <3>1, <3>3 DEF EntriesFit
      <4>2. /\ f \in DOMAIN flows' /\ flows'[f].state = "completed"
            /\ flows'[f].identity = flows[f].identity
        BY <1>0, <2>1, <3>1, <4>1 DEF FlowsStay
      <4>3. /\ flows[f].identity \in DOMAIN identities'
            /\ identities'[flows[f].identity].holder = identities[flows[f].identity].holder
        BY <1>0, <4>1 DEF IdentitiesStay
      <4>4. entries'[e].live => identities'[flows[f].identity].live
        BY <1>0, <2>1, <3>1, <3>3, <4>1 DEF EntriesFollow
      <4> QED BY <3>1, <4>1, <4>2, <4>3, <4>4
    <3> QED BY <3>2, <3>3
  <2>2. CASE e = d /\ e \notin DOMAIN entries
    <3>1. /\ holders'[entries'[e].holder].there /\ ~holders'[entries'[e].holder].suspended
          /\ f # 0 => /\ f \in DOMAIN flows /\ flows'[f].state = "completed"
                      /\ flows'[f].identity \in DOMAIN identities'
                      /\ identities'[flows'[f].identity].holder = entries'[e].holder
                      /\ identities'[flows'[f].identity].live
      BY <2>2 DEF EntryMayBegin
    <3> QED BY <1>0, <3>1 DEF FlowsStay
  <2> QED BY <2>1, <2>2
<1>4. OneHolderEach'
  <2>1. ASSUME NEW j \in DOMAIN identities, identities'[j].live, k \notin DOMAIN identities,
               k \in DOMAIN identities'
        PROVE  /\ identities'[j].account # identities'[k].account
               /\ identities'[j].holder = identities'[k].holder =>
                    ProviderOf[identities'[j].account] # ProviderOf[identities'[k].account]
    BY <1>0, <2>1 DEF IdentityMayBegin, IdentitiesStay
  <2>2. ASSUME NEW i \in DOMAIN identities, NEW j \in DOMAIN identities, i # j,
               identities'[i].live, identities'[j].live
        PROVE  /\ identities'[i].account # identities'[j].account
               /\ identities'[i].holder = identities'[j].holder =>
                    ProviderOf[identities'[i].account] # ProviderOf[identities'[j].account]
    BY <1>0, <2>2 DEF ExternalInv, OneHolderEach, IdentitiesStay
  <2> QED BY <2>1, <2>2 DEF OneHolderEach
<1>5. FlowsOpenOnce'
  <2>1. \A e \in DOMAIN entries : d \in DOMAIN entries' \ DOMAIN entries /\ entries'[d].flow # 0 =>
          entries'[e].flow # entries'[d].flow
    BY <1>0 DEF EntryMayBegin, EntriesStay
  <2>2. \A e, c \in DOMAIN entries : entries'[e].flow = entries'[c].flow /\ entries'[e].flow # 0 => e = c
    BY <1>0 DEF ExternalInv, FlowsOpenOnce, EntriesStay
  <2> QED BY <2>1, <2>2 DEF FlowsOpenOnce
<1>6. AcceptedOnce'
  <2>1. \A i \in DOMAIN identities : /\ identities'[i].holder = identities[i].holder
                                     /\ flows'[identities'[i].flow].purpose = flows[identities[i].flow].purpose
    BY <1>0 DEF IdentitiesStay, IdentitiesFit, FlowsStay
  <2>2. ASSUME k \notin DOMAIN identities, k \in DOMAIN identities',
               flows'[identities'[k].flow].purpose = "invitation_accept", NEW j \in DOMAIN identities
        PROVE  identities'[j].holder # identities'[k].holder
    <3>1. flows[identities'[k].flow].purpose = "invitation_accept"
      BY <1>0, <2>2 DEF IdentityMayBegin, FlowsStay
    <3> QED BY <2>1, <2>2, <3>1 DEF IdentityMayBegin
  <2>3. \A i, j \in DOMAIN identities :
          /\ identities'[i].holder = identities'[j].holder
          /\ flows'[identities'[i].flow].purpose = "invitation_accept"
          /\ flows'[identities'[j].flow].purpose = "invitation_accept"
          => i = j
    BY <2>1 DEF ExternalInv, AcceptedOnce
  <2> QED BY <2>2, <2>3 DEF AcceptedOnce
<1> QED BY <1>1, <1>2, <1>3, <1>4, <1>5, <1>6 DEF ExternalInv

-----------------------------------------------------------------------------
(* The steps of a callback.                                                *)

\* Flows that start, lapse, are claimed or purged, and what a callback learns.
LEMMA FlowStepHolds ==
  ASSUME ExternalInv,
         \/ \E provider \in Providers, purpose \in Purposes, e \in 0 .. Len(entries),
               h \in Invited \cup {NoHolder} : start_oidc_transaction(provider, purpose, e, h)
         \/ \E c \in Callback, f \in DOMAIN flows, provider \in Providers, e \in 0 .. Len(entries) :
              claim_oidc_transaction(c, f, provider, e)
         \/ \E f \in DOMAIN flows : FlowLapses(f)
         \/ purge_oidc_records
         \/ \E c \in Callback : \/ \E a \in Account, vouched \in BOOLEAN : VerifyAccount(c, a, vouched)
                                \/ CallbackFails(c) \/ SignInFinds(c)
  PROVE  ExternalInv'
<1>1. /\ UNCHANGED <<holders, invitations, identities, entries>>
      /\ RowsFit /\ HoldersFit /\ CallbacksFit /\ FlowsFit
  BY DEF start_oidc_transaction, claim_oidc_transaction, FlowLapses, purge_oidc_records, VerifyAccount,
         CallbackFails, SignInFinds, ExternalInv
<1>2. HoldersFit' /\ IdentitiesStay /\ EntriesStay /\ EntriesFollow /\ HoldersStay
  BY <1>1 DEF HoldersFit, IdentitiesStay, EntriesStay, EntriesFollow, HoldersStay
<1>3. ASSUME flows' \in Seq(FlowRows), CallbacksFit', FlowsStay, NEW g,
             DOMAIN flows' \subseteq DOMAIN flows \cup {g}, FlowMayStart(g)
      PROVE  ExternalInv'
  <2>1. RowsFit' /\ SignInRowsStay
    BY <1>1, <1>2, <1>3 DEF RowsFit, SignInRowsStay
  <2>2. /\ DOMAIN identities' \subseteq DOMAIN identities \cup {0} /\ IdentityMayBegin(0)
        /\ DOMAIN entries' \subseteq DOMAIN entries \cup {0} /\ EntryMayBegin(0)
    BY <1>1 DEF IdentityMayBegin, EntryMayBegin
  <2> QED BY <1>2, <1>3, <2>1, <2>2, ExternalMoves
<1>4. ASSUME flows' = [f \in DOMAIN flows |-> flows'[f]], CallbacksFit',
             \A f \in DOMAIN flows : /\ flows'[f] \in FlowRows /\ flows'[f].purpose = flows[f].purpose
                                     /\ flows'[f].entry = flows[f].entry
                                     /\ flows'[f].invitation = flows[f].invitation
                                     /\ flows'[f].identity = flows[f].identity
                                     /\ \/ flows'[f] = flows[f]
                                        \/ flows[f].state \notin {"completed", "purged"}
                                        \/ flows'[f].state = "purged" /\ \A e \in DOMAIN entries : entries[e].flow # f
      PROVE  ExternalInv'
  <2>1. flows' \in Seq(FlowRows) /\ DOMAIN flows' = DOMAIN flows
    BY <1>1, <1>4, RowsRewritten DEF RowsFit
  <2>2. FlowsStay /\ FlowMayStart(0)
    BY <1>4, <2>1 DEF FlowsStay, FlowMayStart
  <2> QED BY <1>3, <1>4, <2>1, <2>2
<1>5. ASSUME NEW provider \in Providers, NEW purpose \in Purposes, NEW e \in 0 .. Len(entries),
             NEW h \in Invited \cup {NoHolder}, start_oidc_transaction(provider, purpose, e, h)
      PROVE  ExternalInv'
  <2>1. PICK r : r = [provider |-> provider, purpose |-> purpose, entry |-> e, invitation |-> h,
                      state |-> "started", outcome |-> "none", identity |-> 0]
    OBVIOUS
  <2>2. r \in FlowRows /\ r.purpose = purpose /\ r.entry = e /\ r.invitation = h
    BY <2>1 DEF FlowRows, FlowStates, Outcomes
  <2>3. flows' = Append(flows, r) /\ UNCHANGED callbacks
    BY <1>5, <2>1 DEF start_oidc_transaction
  <2>4. purpose = "link" => e \in DOMAIN entries
    BY <1>5 DEF start_oidc_transaction
  <2>5. purpose = "invitation_accept" => h \in Invited
    BY <1>5 DEF start_oidc_transaction
  <2>6. PICK g : /\ flows' \in Seq(FlowRows) /\ DOMAIN flows' = DOMAIN flows \cup {g}
                 /\ \A f \in DOMAIN flows : flows'[f] = flows[f]
                 /\ flows'[g] = r
    <3>1. flows \in Seq(FlowRows) /\ r \in FlowRows
      BY <1>1, <2>2 DEF RowsFit
    <3>2. /\ Append(flows, r) \in Seq(FlowRows)
          /\ DOMAIN Append(flows, r) = DOMAIN flows \cup {Len(flows) + 1}
          /\ \A f \in DOMAIN flows : Append(flows, r)[f] = flows[f]
          /\ Append(flows, r)[Len(flows) + 1] = r
      BY <3>1, RowAdded
    <3> QED BY <2>3, <3>2
  <2>7. FlowsStay /\ FlowMayStart(g)
    BY <1>1, <2>2, <2>4, <2>5, <2>6 DEF FlowsStay, FlowMayStart
  <2>8. CallbacksFit'
    BY <1>1, <2>3, <2>6 DEF CallbacksFit
  <2> QED BY <1>3, <2>6, <2>7, <2>8
<1>6. ASSUME NEW f \in DOMAIN flows, NEW s \in {"claimed", "lapsed"}, flows[f].state \in {"started", "claimed"},
             flows' = [flows EXCEPT ![f].state = s], CallbacksFit'
      PROVE  ExternalInv'
  <2>1. /\ flows = [g \in DOMAIN flows |-> flows[g]]
        /\ \A g \in DOMAIN flows : flows[g] \in FlowRows
    BY <1>1, ExternalRows
  <2>2. /\ flows' = [g \in DOMAIN flows |-> flows'[g]]
        /\ flows'[f] = [flows[f] EXCEPT !.state = s]
        /\ \A g \in DOMAIN flows : g # f => flows'[g] = flows[g]
    BY <1>6, <2>1
  <2>3. /\ flows'[f] \in FlowRows /\ flows'[f].purpose = flows[f].purpose /\ flows'[f].entry = flows[f].entry
        /\ flows'[f].invitation = flows[f].invitation /\ flows'[f].identity = flows[f].identity
    BY <2>1, <2>2 DEF FlowRows, FlowStates
  <2> QED BY <1>4, <1>6, <2>1, <2>2, <2>3
<1>7. ASSUME NEW c \in Callback, NEW f \in DOMAIN flows, NEW provider \in Providers,
             NEW e \in 0 .. Len(entries), claim_oidc_transaction(c, f, provider, e)
      PROVE  ExternalInv'
  <2>1. /\ flows[f].state = "started" /\ flows' = [flows EXCEPT ![f].state = "claimed"]
        /\ callbacks' = [callbacks EXCEPT ![c] = [step |-> "claimed", flow |-> f]]
    BY <1>7 DEF claim_oidc_transaction
  <2>2. DOMAIN flows' = DOMAIN flows
    BY <1>1, <2>1, ExternalRows
  <2>3. CallbacksFit'
    BY <1>1, <2>1, <2>2 DEF CallbacksFit
  <2> QED BY <1>6, <2>1, <2>3
<1>8. ASSUME NEW f \in DOMAIN flows, FlowLapses(f) PROVE ExternalInv'
  <2>1. /\ flows[f].state \in {"started", "claimed"} /\ flows' = [flows EXCEPT ![f].state = "lapsed"]
        /\ UNCHANGED callbacks
    BY <1>8 DEF FlowLapses
  <2>2. DOMAIN flows' = DOMAIN flows
    BY <1>1, <2>1, ExternalRows
  <2>3. CallbacksFit'
    BY <1>1, <2>1, <2>2 DEF CallbacksFit
  <2> QED BY <1>6, <2>1, <2>3
<1>9. ASSUME purge_oidc_records PROVE ExternalInv'
  <2>1. /\ flows = [g \in DOMAIN flows |-> flows[g]]
        /\ \A g \in DOMAIN flows : flows[g] \in FlowRows
    BY <1>1, ExternalRows
  <2>2. /\ flows' = [g \in DOMAIN flows |-> flows'[g]] /\ DOMAIN flows' = DOMAIN flows
        /\ \A g \in DOMAIN flows :
             \/ flows'[g] = flows[g]
             \/ /\ flows'[g] = [flows[g] EXCEPT !.state = "purged"]
                /\ \A e \in DOMAIN entries : entries[e].flow # g
    BY <1>9 DEF purge_oidc_records
  <2>3. ASSUME NEW r \in FlowRows, NEW n, n = [r EXCEPT !.state = "purged"]
        PROVE  /\ n \in FlowRows /\ n.purpose = r.purpose /\ n.entry = r.entry /\ n.state = "purged"
               /\ n.invitation = r.invitation /\ n.identity = r.identity
    BY <2>3 DEF FlowRows, FlowStates
  <2>4. CallbacksFit'
    BY <1>1, <1>9, <2>2 DEF purge_oidc_records, CallbacksFit
  <2>5. ASSUME NEW g \in DOMAIN flows
        PROVE  /\ flows'[g] \in FlowRows /\ flows'[g].purpose = flows[g].purpose
               /\ flows'[g].entry = flows[g].entry /\ flows'[g].invitation = flows[g].invitation
               /\ flows'[g].identity = flows[g].identity
               /\ \/ flows'[g] = flows[g]
                  \/ flows[g].state \notin {"completed", "purged"}
                  \/ flows'[g].state = "purged" /\ \A e \in DOMAIN entries : entries[e].flow # g
    <3>1. CASE flows'[g] = flows[g]
      BY <2>1, <3>1
    <3>2. CASE /\ flows'[g] = [flows[g] EXCEPT !.state = "purged"]
               /\ \A e \in DOMAIN entries : entries[e].flow # g
      BY <2>1, <2>3, <3>2
    <3> QED BY <2>2, <3>1, <3>2
  <2> QED BY <1>4, <2>2, <2>4, <2>5
<1>10. ASSUME NEW c \in Callback, UNCHANGED flows, NEW n, callbacks' = [callbacks EXCEPT ![c] = n],
              n.step \in {"claimed", "verified", "found"} => n.flow \in DOMAIN flows,
              n.step \in {"verified", "found"} => n.account \in Account
       PROVE  ExternalInv'
  <2>1. CallbacksFit'
    BY <1>1, <1>10 DEF CallbacksFit
  <2>2. \A f \in DOMAIN flows : flows[f] \in FlowRows
    BY <1>1, ExternalRows
  <2>3. flows' = [f \in DOMAIN flows |-> flows'[f]]
    BY <1>1, <1>10, ExternalRows
  <2> QED BY <1>4, <1>10, <2>1, <2>2, <2>3
<1>11. ASSUME NEW c \in Callback, NEW a \in Account, NEW vouched \in BOOLEAN, VerifyAccount(c, a, vouched)
       PROVE  ExternalInv'
  <2>1. callbacks[c].flow \in DOMAIN flows
    BY <1>1, <1>11 DEF VerifyAccount, CallbacksFit
  <2>2. PICK n : n = [step |-> "verified", flow |-> callbacks[c].flow, account |-> a, vouched |-> vouched]
    OBVIOUS
  <2> QED BY <1>10, <1>11, <2>1, <2>2 DEF VerifyAccount
<1>12. ASSUME NEW c \in Callback, SignInFinds(c) PROVE ExternalInv'
  <2>1. callbacks[c].flow \in DOMAIN flows /\ callbacks[c].account \in Account
    BY <1>1, <1>12 DEF SignInFinds, Completing, CallbacksFit
  <2>2. PICK n : n = [step |-> "found", flow |-> callbacks[c].flow, account |-> callbacks[c].account,
                      found |-> LiveAt(callbacks[c].account)]
    OBVIOUS
  <2> QED BY <1>10, <1>12, <2>1, <2>2 DEF SignInFinds
<1>13. ASSUME NEW c \in Callback, CallbackFails(c) PROVE ExternalInv'
  <2>1. NotServing.step = "none"
    BY DEF NotServing
  <2> QED BY <1>10, <1>13, <2>1 DEF CallbackFails
<1> QED BY <1>5, <1>7, <1>8, <1>9, <1>11, <1>12, <1>13

\* A flow that is completed: it was claimed, so nothing rests on it yet.
LEMMA CompletionFacts ==
  ASSUME ExternalInv, NEW c \in Callback, NEW step \in {"verified", "found"}, NEW purpose,
         Completing(c, step, purpose), NEW outcome \in Outcomes, NEW n \in Nat, oidc_complete(c, outcome, n),
         NEW f, f = callbacks[c].flow
  PROVE  /\ f \in DOMAIN flows /\ f # 0 /\ flows[f].purpose = purpose /\ callbacks[c].account \in Account
         /\ flows' \in Seq(FlowRows) /\ DOMAIN flows' = DOMAIN flows
         /\ flows'[f].state = "completed" /\ flows'[f].identity = n
         /\ \A e \in DOMAIN entries : entries[e].flow # f
         /\ FlowsStay /\ CallbacksFit' /\ FlowMayStart(0)
<1>1. /\ RowsFit /\ CallbacksFit /\ IdentitiesFit /\ EntriesFit
      /\ flows = [g \in DOMAIN flows |-> flows[g]]
      /\ \A g \in DOMAIN flows : flows[g] \in FlowRows
      /\ DOMAIN flows \subseteq Nat \ {0}
  BY ExternalRows DEF ExternalInv
<1>2. /\ f \in DOMAIN flows /\ flows[f].purpose = purpose /\ flows[f].state = "claimed"
      /\ callbacks[c].account \in Account
  BY <1>1 DEF Completing, CallbacksFit
<1>3. f # 0
  BY <1>1, <1>2
<1>4. flows' = [flows EXCEPT ![f].state = "completed", ![f].outcome = outcome, ![f].identity = n]
      /\ callbacks' = [callbacks EXCEPT ![c] = NotServing]
  BY DEF oidc_complete
<1>5. PICK m : m = [flows[f] EXCEPT !.state = "completed", !.outcome = outcome, !.identity = n]
  OBVIOUS
<1>6. flows' = [flows EXCEPT ![f] = m]
  BY <1>1, <1>2, <1>4, <1>5
<1>7. /\ m \in FlowRows /\ m.purpose = flows[f].purpose /\ m.entry = flows[f].entry
      /\ m.invitation = flows[f].invitation /\ m.state = "completed" /\ m.identity = n
  <2>1. flows[f] \in FlowRows /\ "completed" \in FlowStates
    BY <1>1, <1>2 DEF FlowStates
  <2>2. /\ m.purpose = flows[f].purpose /\ m.entry = flows[f].entry
        /\ m.invitation = flows[f].invitation /\ m.state = "completed" /\ m.identity = n
    BY <1>5, <2>1 DEF FlowRows
  <2>3. m \in FlowRows
    BY <1>5, <2>1 DEF FlowRows
  <2> QED BY <2>2, <2>3
<1>8. /\ flows' = [g \in DOMAIN flows |-> flows'[g]] /\ flows'[f] = m
      /\ \A g \in DOMAIN flows : g # f => flows'[g] = flows[g]
  BY <1>1, <1>2, <1>6
<1>9. \A g \in DOMAIN flows : flows'[g] \in FlowRows
  BY <1>1, <1>7, <1>8
<1>10. flows' \in Seq(FlowRows) /\ DOMAIN flows' = DOMAIN flows
  BY <1>1, <1>8, <1>9, RowsRewritten DEF RowsFit
<1>11. \A e \in DOMAIN entries : entries[e].flow # f
  BY <1>1, <1>2, <1>3 DEF EntriesFit
<1>12. FlowsStay
  BY <1>2, <1>7, <1>8, <1>10 DEF FlowsStay
<1>13. CallbacksFit'
  BY <1>1, <1>4, <1>10 DEF CallbacksFit, NotServing
<1>14. FlowMayStart(0)
  BY <1>10 DEF FlowMayStart
<1> QED BY <1>2, <1>3, <1>7, <1>8, <1>10, <1>11, <1>12, <1>13, <1>14

\* The completion without a session or an identity.
LEMMA CompletedWithout ==
  ASSUME ExternalInv, NEW c \in Callback, NEW step \in {"verified", "found"}, NEW purpose,
         Completing(c, step, purpose), NEW outcome \in Outcomes, CompleteWithout(c, outcome),
         HoldersFit'
  PROVE  ExternalInv'
<1>1. oidc_complete(c, outcome, 0) /\ UNCHANGED <<holders, identities, entries>> /\ 0 \in Nat
  BY DEF CompleteWithout
<1>2. /\ flows' \in Seq(FlowRows) /\ DOMAIN flows' = DOMAIN flows
      /\ FlowsStay /\ CallbacksFit' /\ FlowMayStart(0)
  BY <1>1, CompletionFacts
<1>3. RowsFit' /\ IdentitiesStay /\ EntriesStay /\ EntriesFollow /\ HoldersStay
  BY <1>1, <1>2 DEF ExternalInv, RowsFit, IdentitiesStay, EntriesStay, EntriesFollow, HoldersStay
<1>4. /\ DOMAIN identities' \subseteq DOMAIN identities \cup {0} /\ IdentityMayBegin(0)
      /\ DOMAIN entries' \subseteq DOMAIN entries \cup {0} /\ EntryMayBegin(0)
  BY <1>1 DEF IdentityMayBegin, EntryMayBegin
<1> QED BY <1>2, <1>3, <1>4, ExternalMoves DEF SignInRowsStay

\* A session that is added.
EntryBegun(h, f) ==
  /\ entries' \in Seq(EntryRows) /\ EntriesStay
  /\ \E d : /\ DOMAIN entries' = DOMAIN entries \cup {d} /\ d \notin DOMAIN entries
            /\ entries'[d].holder = h /\ entries'[d].flow = f
            /\ \A e \in DOMAIN entries : entries'[e] = entries[e]

LEMMA EntryBegins ==
  ASSUME RowsFit, NEW h \in Holder, NEW f \in Nat, insert_oidc_session(h, f)
  PROVE  EntryBegun(h, f)
<1>1. PICK r : r = [holder |-> h, flow |-> f, live |-> TRUE, second |-> FALSE]
  OBVIOUS
<1>2. r \in EntryRows /\ r.holder = h /\ r.flow = f
  BY <1>1 DEF EntryRows
<1>3. entries' = Append(entries, r) /\ entries \in Seq(EntryRows)
  BY <1>1 DEF insert_oidc_session, RowsFit
<1>4. /\ Append(entries, r) \in Seq(EntryRows)
      /\ DOMAIN Append(entries, r) = DOMAIN entries \cup {Len(entries) + 1}
      /\ Len(entries) + 1 \notin DOMAIN entries
      /\ \A e \in DOMAIN entries : Append(entries, r)[e] = entries[e]
      /\ Append(entries, r)[Len(entries) + 1] = r
  BY <1>2, <1>3, RowAdded
<1>5. EntriesStay
  BY <1>3, <1>4 DEF EntriesStay
<1> QED BY <1>2, <1>3, <1>4, <1>5 DEF EntryBegun

\* An identity that is added.
IdentityBegun(h, a, f, k) ==
  /\ identities' \in Seq(IdentityRows) /\ IdentitiesStay
  /\ DOMAIN identities' = DOMAIN identities \cup {k} /\ k \notin DOMAIN identities /\ k \in Nat
  /\ identities'[k].holder = h /\ identities'[k].account = a /\ identities'[k].flow = f
  /\ identities'[k].live
  /\ \A i \in DOMAIN identities : identities'[i] = identities[i]

LEMMA IdentityBegins ==
  ASSUME RowsFit, NEW h \in Holder, NEW a \in Account, NEW f \in Nat, InsertIdentity(h, a, f)
  PROVE  IdentityBegun(h, a, f, Len(identities) + 1)
<1>0. PICK k : k = Len(identities) + 1
  OBVIOUS
<1>1. PICK r : r = [holder |-> h, account |-> a, live |-> TRUE, flow |-> f]
  OBVIOUS
<1>2. r \in IdentityRows /\ r.holder = h /\ r.account = a /\ r.flow = f /\ r.live
  BY <1>1 DEF IdentityRows
<1>3. identities' = Append(identities, r) /\ identities \in Seq(IdentityRows)
  BY <1>1 DEF InsertIdentity, RowsFit
<1>4. /\ identities' \in Seq(IdentityRows)
      /\ DOMAIN identities' = DOMAIN identities \cup {k} /\ k \notin DOMAIN identities
      /\ identities'[k] = r
      /\ \A i \in DOMAIN identities : identities'[i] = identities[i]
  BY <1>0, <1>2, <1>3, RowAdded
<1>5. IdentitiesStay
  BY <1>4 DEF IdentitiesStay
<1>6. k \in Nat
  BY <1>0 DEF RowsFit
<1> QED BY <1>0, <1>2, <1>4, <1>5, <1>6 DEF IdentityBegun

LEMMA ProviderSignInHolds ==
  ASSUME ExternalInv, NEW c \in Callback, SignsIn(c)
  PROVE  ExternalInv'
<1>1. PICK f : f = callbacks[c].flow
  OBVIOUS
<1>2. Completing(c, "found", "sign_in") /\ UNCHANGED <<holders, identities, invitations>> /\ HoldersFit /\ RowsFit
  BY DEF SignsIn, CompleteWithout, ExternalInv
<1>3. HoldersFit'
  BY <1>2 DEF HoldersFit
<1>4. CASE CompleteWithout(c, "not_found")
  <2>1. "not_found" \in Outcomes
    BY DEF Outcomes
  <2> QED BY <1>2, <1>3, <1>4, <2>1, CompletedWithout
<1>5. ASSUME NEW i \in FoundIdentity(c), oidc_complete(c, "session", i),
             insert_oidc_session(identities[i].holder, callbacks[c].flow)
      PROVE  ExternalInv'
  <2>1. /\ i \in DOMAIN identities /\ identities[i].live /\ ~holders[identities[i].holder].suspended
        /\ identities[i] \in IdentityRows /\ i \in Nat /\ "session" \in Outcomes
    BY <1>2, <1>5, ExternalRows DEF FoundIdentity, LiveAt, Outcomes
  <2>2. identities[i].holder \in Holder /\ holders[identities[i].holder].there
    BY <2>1 DEF IdentityRows, ExternalInv, IdentitiesFit
  <2>3. /\ f \in DOMAIN flows /\ f # 0 /\ flows' \in Seq(FlowRows) /\ DOMAIN flows' = DOMAIN flows
        /\ flows'[f].state = "completed" /\ flows'[f].identity = i
        /\ \A e \in DOMAIN entries : entries[e].flow # f
        /\ FlowsStay /\ CallbacksFit' /\ FlowMayStart(0)
    BY <1>1, <1>2, <1>5, <2>1, CompletionFacts
  <2>4. f \in Nat
    BY <1>2, <2>3, ExternalRows
  <2>5. PICK d : /\ entries' \in Seq(EntryRows) /\ EntriesStay
                 /\ DOMAIN entries' = DOMAIN entries \cup {d} /\ d \notin DOMAIN entries
                 /\ entries'[d].holder = identities[i].holder /\ entries'[d].flow = f
                 /\ \A e \in DOMAIN entries : entries'[e] = entries[e]
    <3>1. EntryBegun(identities[i].holder, f)
      <4>1. insert_oidc_session(identities[i].holder, f) /\ RowsFit
        BY <1>1, <1>2, <1>5
      <4> QED BY <2>2, <2>4, <4>1, EntryBegins
    <3> QED BY <3>1 DEF EntryBegun
  <2>6. RowsFit' /\ IdentitiesStay /\ EntriesFollow /\ HoldersStay
    BY <1>2, <2>3, <2>5 DEF RowsFit, IdentitiesStay, EntriesFollow, HoldersStay
  <2>7. /\ DOMAIN identities' \subseteq DOMAIN identities \cup {0} /\ IdentityMayBegin(0)
    BY <1>2 DEF IdentityMayBegin
  <2>8. EntryMayBegin(d)
    BY <1>2, <2>1, <2>2, <2>3, <2>5 DEF EntryMayBegin
  <2> QED BY <1>3, <2>3, <2>5, <2>6, <2>7, <2>8, ExternalMoves DEF SignInRowsStay
<1> QED BY <1>4, <1>5 DEF SignsIn

LEMMA LinkHolds ==
  ASSUME ExternalInv, NEW c \in Callback, Links(c)
  PROVE  ExternalInv'
<1>1. PICK f, e, h, a, k : /\ f = callbacks[c].flow /\ e = flows[f].entry /\ h = entries[e].holder
                           /\ a = callbacks[c].account /\ k = Len(identities) + 1
  OBVIOUS
<1>2. Completing(c, "verified", "link") /\ UNCHANGED invitations /\ HoldersFit /\ RowsFit
  BY DEF Links, ExternalInv
<1>3. ASSUME NEW outcome \in {"step_up_required", "unavailable"}, CompleteWithout(c, outcome)
      PROVE  ExternalInv'
  <2>1. outcome \in Outcomes
    BY <1>3 DEF Outcomes
  <2>2. HoldersFit'
    BY <1>2, <1>3 DEF CompleteWithout, HoldersFit
  <2> QED BY <1>2, <1>3, <2>1, <2>2, CompletedWithout
<1>4. ASSUME InsertIdentity(h, a, f), oidc_complete(c, "linked", k), UNCHANGED <<holders, entries>>,
             ~LinkRefused(h, a)
      PROVE  ExternalInv'
  <2>1. k \in Nat /\ "linked" \in Outcomes
    BY <1>1, <1>2 DEF RowsFit, Outcomes
  <2>2. /\ f \in DOMAIN flows /\ f # 0 /\ flows[f].purpose = "link" /\ a \in Account
        /\ flows' \in Seq(FlowRows) /\ DOMAIN flows' = DOMAIN flows
        /\ flows'[f].state = "completed" /\ flows'[f].identity = k
        /\ FlowsStay /\ CallbacksFit' /\ FlowMayStart(0)
    BY <1>1, <1>2, <1>4, <2>1, CompletionFacts
  <2>3. f \in Nat /\ e \in DOMAIN entries
    BY <1>1, <1>2, <2>2, ExternalRows DEF ExternalInv, FlowsFit
  <2>4. entries[e] \in EntryRows /\ holders[h].there
    BY <1>1, <1>2, <2>3, ExternalRows DEF ExternalInv, EntriesFit
  <2>5. h \in Holder
    BY <1>1, <2>4 DEF EntryRows
  <2>6. /\ identities' \in Seq(IdentityRows) /\ IdentitiesStay
        /\ DOMAIN identities' = DOMAIN identities \cup {k} /\ k \notin DOMAIN identities
        /\ identities'[k].holder = h /\ identities'[k].account = a /\ identities'[k].flow = f
        /\ identities'[k].live
        /\ \A i \in DOMAIN identities : identities'[i] = identities[i]
    <3>1. IdentityBegun(h, a, f, Len(identities) + 1)
      BY <1>4, <2>2, <1>2, <2>3, <2>5, IdentityBegins
    <3> QED BY <1>1, <3>1 DEF IdentityBegun
  <2>7. RowsFit' /\ HoldersFit' /\ EntriesStay /\ HoldersStay
    BY <1>2, <1>4, <2>2, <2>6 DEF RowsFit, HoldersFit, EntriesStay, HoldersStay
  <2>8. EntriesFollow
    BY <1>4, <2>6 DEF EntriesFollow, ExternalInv, EntriesFit
  <2>9. DOMAIN entries' \subseteq DOMAIN entries \cup {0} /\ EntryMayBegin(0)
    BY <1>4 DEF EntryMayBegin
  <2>10. \A j \in DOMAIN identities : identities[j].live =>
            /\ identities[j].account # a
            /\ identities[j].holder = h => ProviderOf[identities[j].account] # ProviderOf[a]
    BY <1>4 DEF LinkRefused, LiveAt, LiveOf
  <2>11. IdentityMayBegin(k)
    BY <1>1, <1>4, <2>2, <2>4, <2>6, <2>10 DEF IdentityMayBegin
  <2> QED BY <2>2, <2>6, <2>7, <2>8, <2>9, <2>11, ExternalMoves DEF SignInRowsStay
<1>5. \/ CompleteWithout(c, "step_up_required") \/ CompleteWithout(c, "unavailable")
      \/ /\ ~LinkRefused(h, a) /\ InsertIdentity(h, a, f)
         /\ oidc_complete(c, "linked", k) /\ UNCHANGED <<holders, entries>>
  BY <1>1 DEF Links
<1> QED BY <1>3, <1>4, <1>5

\* A person who is invited joins, and was not there before.
LEMMA JoiningFacts ==
  ASSUME ExternalInv, NEW h \in Invited, invitations[h].state = "pending", Joins(h)
  PROVE  /\ h \in Holder /\ ~holders[h].there /\ holders'[h].there /\ ~holders'[h].suspended
         /\ HoldersFit' /\ HoldersStay
         /\ \A g \in Holder : holders'[g].suspended = holders[g].suspended
<1>1. /\ HoldersFit /\ h \in Holder /\ ~holders[h].there /\ ~holders[h].suspended
  BY InvitedAssumption DEF ExternalInv, HoldersFit
<1>2. /\ holders' = [holders EXCEPT ![h].there = TRUE]
      /\ invitations' = [invitations EXCEPT ![h].state = "accepted"]
  BY DEF Joins
<1>3. /\ holders' \in [Holder -> [there : BOOLEAN, suspended : BOOLEAN]]
      /\ holders'[h].there /\ holders'[h].suspended = holders[h].suspended
      /\ \A g \in Holder : g # h => holders'[g] = holders[g]
  <2>1. holders \in [Holder -> [there : BOOLEAN, suspended : BOOLEAN]]
    BY <1>1 DEF HoldersFit
  <2>2. /\ holders'[h] = [holders[h] EXCEPT !.there = TRUE]
        /\ \A g \in Holder : g # h => holders'[g] = holders[g]
    BY <1>1, <1>2, <2>1
  <2>3. holders' \in [Holder -> [there : BOOLEAN, suspended : BOOLEAN]]
    BY <1>1, <1>2, <2>1
  <2>4. holders'[h].there /\ holders'[h].suspended = holders[h].suspended
    BY <1>1, <2>1, <2>2
  <2> QED BY <2>2, <2>3, <2>4
<1>4. /\ invitations' \in [Invited -> [state : {"pending", "accepted", "closed"}, taken : BOOLEAN]]
      /\ invitations'[h].state = "accepted"
      /\ \A g \in Invited : g # h => invitations'[g] = invitations[g]
  BY <1>1, <1>2 DEF HoldersFit
<1>5. HoldersFit'
  BY <1>1, <1>3, <1>4, InvitedAssumption DEF HoldersFit
<1> QED BY <1>1, <1>3, <1>5 DEF HoldersStay

LEMMA AcceptanceHolds ==
  ASSUME ExternalInv, NEW c \in Callback, AcceptsInvitation(c)
  PROVE  ExternalInv'
<1>1. PICK f, h, a, k : /\ f = callbacks[c].flow /\ h = flows[f].invitation
                        /\ a = callbacks[c].account /\ k = Len(identities) + 1
  OBVIOUS
<1>2. Completing(c, "verified", "invitation_accept") /\ HoldersFit /\ RowsFit /\ CallbacksFit
  BY DEF AcceptsInvitation, ExternalInv
<1>3. f \in DOMAIN flows /\ h \in Invited
  BY <1>1, <1>2 DEF Completing, CallbacksFit, ExternalInv, FlowsFit
<1>4. ASSUME NEW outcome \in Outcomes, CompleteWithout(c, outcome),
             \/ UNCHANGED invitations
             \/ invitations[h].state = "pending" /\ invitations' = [invitations EXCEPT ![h].state = "closed"]
      PROVE  ExternalInv'
  <2>1. HoldersFit'
    <3>1. UNCHANGED holders
      BY <1>4 DEF CompleteWithout
    <3>2. CASE UNCHANGED invitations
      BY <1>2, <3>1, <3>2 DEF HoldersFit
    <3>3. CASE invitations[h].state = "pending" /\ invitations' = [invitations EXCEPT ![h].state = "closed"]
      <4>1. /\ invitations' \in [Invited -> [state : {"pending", "accepted", "closed"}, taken : BOOLEAN]]
            /\ invitations'[h].state = "closed"
            /\ \A g \in Invited : g # h => invitations'[g] = invitations[g]
        BY <1>2, <1>3, <3>3 DEF HoldersFit
      <4> QED BY <1>2, <1>3, <3>1, <3>3, <4>1 DEF HoldersFit
    <3> QED BY <1>4, <3>2, <3>3
  <2> QED BY <1>2, <1>4, <2>1, CompletedWithout
<1>5. ASSUME invitations[h].state = "pending", LiveAt(a) = {}, Joins(h), InsertIdentity(h, a, f),
             oidc_complete(c, "session", k), insert_oidc_session(h, f)
      PROVE  ExternalInv'
  <2>1. k \in Nat /\ "session" \in Outcomes
    BY <1>1, <1>2 DEF RowsFit, Outcomes
  <2>2. /\ f # 0 /\ flows[f].purpose = "invitation_accept" /\ a \in Account
        /\ flows' \in Seq(FlowRows) /\ DOMAIN flows' = DOMAIN flows
        /\ flows'[f].state = "completed" /\ flows'[f].identity = k
        /\ \A e \in DOMAIN entries : entries[e].flow # f
        /\ FlowsStay /\ CallbacksFit' /\ FlowMayStart(0)
    BY <1>1, <1>2, <1>5, <2>1, CompletionFacts
  <2>3. f \in Nat
    BY <1>2, <1>3, ExternalRows
  <2>4. /\ h \in Holder /\ ~holders[h].there /\ holders'[h].there /\ ~holders'[h].suspended
        /\ HoldersFit' /\ HoldersStay
        /\ \A g \in Holder : holders'[g].suspended = holders[g].suspended
    BY <1>3, <1>5, JoiningFacts
  <2>5. /\ identities' \in Seq(IdentityRows) /\ IdentitiesStay
        /\ DOMAIN identities' = DOMAIN identities \cup {k} /\ k \notin DOMAIN identities
        /\ identities'[k].holder = h /\ identities'[k].account = a /\ identities'[k].flow = f
        /\ identities'[k].live
        /\ \A i \in DOMAIN identities : identities'[i] = identities[i]
    <3>1. IdentityBegun(h, a, f, Len(identities) + 1)
      BY <1>5, <2>2, <1>2, <2>3, <2>4, IdentityBegins
    <3> QED BY <1>1, <3>1 DEF IdentityBegun
  <2>6. PICK d : /\ entries' \in Seq(EntryRows) /\ EntriesStay
                 /\ DOMAIN entries' = DOMAIN entries \cup {d} /\ d \notin DOMAIN entries
                 /\ entries'[d].holder = h /\ entries'[d].flow = f
                 /\ \A e \in DOMAIN entries : entries'[e] = entries[e]
    <3>1. EntryBegun(h, f)
      BY <1>2, <1>5, <2>3, <2>4, EntryBegins
    <3> QED BY <3>1 DEF EntryBegun
  <2>7. RowsFit'
    BY <2>2, <2>5, <2>6 DEF RowsFit
  <2>8. EntriesFollow
    <3>1. \A e \in DOMAIN entries : entries[e].holder \in Holder
      BY <1>2, ExternalRows DEF EntryRows
    <3>2. \A e \in DOMAIN entries : entries[e].flow # 0 =>
            flows[entries[e].flow].identity \in DOMAIN identities
      BY DEF ExternalInv, EntriesFit
    <3> QED BY <2>4, <2>5, <3>1, <3>2 DEF EntriesFollow
  <2>9. \A j \in DOMAIN identities : identities[j].holder # h /\ (identities[j].live => identities[j].account # a)
    BY <1>5, <2>4 DEF ExternalInv, IdentitiesFit, LiveAt
  <2>10. IdentityMayBegin(k)
    BY <1>1, <1>3, <2>2, <2>4, <2>5, <2>9 DEF IdentityMayBegin
  <2>11. EntryMayBegin(d)
    BY <1>3, <2>2, <2>4, <2>5, <2>6 DEF EntryMayBegin
  <2> QED BY <2>2, <2>4, <2>5, <2>6, <2>7, <2>8, <2>10, <2>11, ExternalMoves DEF SignInRowsStay
<1>6. \/ \E outcome \in Outcomes : /\ CompleteWithout(c, outcome)
                                   /\ \/ UNCHANGED invitations
                                      \/ /\ invitations[h].state = "pending"
                                         /\ invitations' = [invitations EXCEPT ![h].state = "closed"]
      \/ /\ invitations[h].state = "pending" /\ LiveAt(a) = {} /\ Joins(h) /\ InsertIdentity(h, a, f)
         /\ oidc_complete(c, "session", k) /\ insert_oidc_session(h, f)
  BY <1>1 DEF AcceptsInvitation, Outcomes
<1> QED BY <1>4, <1>5, <1>6

-----------------------------------------------------------------------------
(* The steps of sessions, identities and invitations outside a callback.   *)

\* A session that rests on no flow.
LEMMA PlainEntryHolds ==
  ASSUME ExternalInv, NEW h \in Holder, (h \in Invited /\ AcceptsWithCode(h)) \/ SignsInByCode(h)
  PROVE  ExternalInv'
<1>1. /\ UNCHANGED <<identities, flows, callbacks>> /\ insert_oidc_session(h, 0) /\ 0 \in Nat
      /\ RowsFit /\ HoldersFit /\ CallbacksFit
  BY DEF AcceptsWithCode, SignsInByCode, ExternalInv
<1>2. /\ holders'[h].there /\ ~holders'[h].suspended /\ HoldersFit' /\ HoldersStay
      /\ \A g \in Holder : holders'[g].suspended = holders[g].suspended
  <2>1. CASE AcceptsWithCode(h) /\ h \in Invited
    <3>1. invitations[h].state = "pending" /\ Joins(h)
      BY <2>1 DEF AcceptsWithCode
    <3> QED BY <2>1, <3>1, JoiningFacts
  <2>2. CASE SignsInByCode(h)
    BY <1>1, <2>2 DEF SignsInByCode, HoldersFit, HoldersStay
  <2> QED BY <2>1, <2>2
<1>3. PICK d : /\ entries' \in Seq(EntryRows) /\ EntriesStay
               /\ DOMAIN entries' = DOMAIN entries \cup {d} /\ d \notin DOMAIN entries
               /\ entries'[d].holder = h /\ entries'[d].flow = 0
               /\ \A e \in DOMAIN entries : entries'[e] = entries[e]
  <2>1. EntryBegun(h, 0)
    BY <1>1, EntryBegins
  <2> QED BY <2>1 DEF EntryBegun
<1>4. RowsFit' /\ CallbacksFit' /\ FlowsStay /\ IdentitiesStay
  BY <1>1, <1>3 DEF RowsFit, CallbacksFit, FlowsStay, IdentitiesStay
<1>5. EntriesFollow
  <2>1. \A e \in DOMAIN entries : entries[e].holder \in Holder
    BY <1>1, ExternalRows DEF EntryRows
  <2> QED BY <1>1, <1>2, <2>1 DEF EntriesFollow
<1>6. /\ DOMAIN identities' \subseteq DOMAIN identities \cup {0} /\ IdentityMayBegin(0)
      /\ DOMAIN flows' \subseteq DOMAIN flows \cup {0} /\ FlowMayStart(0) /\ EntryMayBegin(d)
  BY <1>1, <1>2, <1>3 DEF IdentityMayBegin, FlowMayStart, EntryMayBegin
<1> QED BY <1>2, <1>3, <1>4, <1>5, <1>6, ExternalMoves DEF SignInRowsStay

\* Rows of sessions and of identities that end.
LEMMA EntriesEnd ==
  ASSUME RowsFit, NEW S, entries' = Ended(S)
  PROVE  /\ entries' \in Seq(EntryRows) /\ DOMAIN entries' = DOMAIN entries
         /\ EntriesStay /\ \A e \in DOMAIN entries : e \in S => ~entries'[e].live
<1>1. \A e \in DOMAIN entries : entries[e] \in EntryRows
  BY ExternalRows
<1>2. /\ entries' = [e \in DOMAIN entries |-> entries'[e]] /\ DOMAIN entries' = DOMAIN entries
      /\ \A e \in DOMAIN entries : entries'[e] = IF e \in S THEN [entries[e] EXCEPT !.live = FALSE] ELSE entries[e]
  BY DEF Ended
<1>3. \A e \in DOMAIN entries :
        /\ entries'[e] \in EntryRows /\ entries'[e].holder = entries[e].holder
        /\ entries'[e].flow = entries[e].flow /\ (entries'[e].live => entries[e].live)
        /\ e \in S => ~entries'[e].live
  BY <1>1, <1>2 DEF EntryRows
<1> QED BY <1>2, <1>3, RowsRewritten DEF RowsFit, EntriesStay

LEMMA IdentitiesEnd ==
  ASSUME RowsFit, NEW R, identities' = Revoked(R)
  PROVE  /\ identities' \in Seq(IdentityRows) /\ DOMAIN identities' = DOMAIN identities
         /\ IdentitiesStay /\ \A i \in DOMAIN identities : i \notin R => identities'[i] = identities[i]
<1>1. \A i \in DOMAIN identities : identities[i] \in IdentityRows
  BY ExternalRows
<1>2. /\ identities' = [i \in DOMAIN identities |-> identities'[i]] /\ DOMAIN identities' = DOMAIN identities
      /\ \A i \in DOMAIN identities :
           identities'[i] = IF i \in R THEN [identities[i] EXCEPT !.live = FALSE] ELSE identities[i]
  BY DEF Revoked
<1>3. \A i \in DOMAIN identities :
        /\ identities'[i] \in IdentityRows /\ identities'[i].holder = identities[i].holder
        /\ identities'[i].account = identities[i].account /\ identities'[i].flow = identities[i].flow
        /\ identities'[i].live => identities[i].live
  BY <1>1, <1>2 DEF IdentityRows
<1> QED BY <1>2, <1>3, RowsRewritten DEF RowsFit, IdentitiesStay

LEMMA EndingStepHolds ==
  ASSUME ExternalInv,
         \/ \E e \in DOMAIN entries : \/ StepsUp(e) \/ EntryEnds(e)
                                      \/ \E i \in DOMAIN identities : Unlinks(e, i)
         \/ \E h \in Invited : AddressTaken(h) \/ InvitationCloses(h)
         \/ \E h \in Holder, suspended \in BOOLEAN : LosesAll(h, suspended)
  PROVE  ExternalInv'
<1>1. /\ RowsFit /\ HoldersFit /\ CallbacksFit /\ EntriesFit /\ UNCHANGED <<flows, callbacks>>
      /\ FlowsStay /\ CallbacksFit' /\ FlowMayStart(0)
  <2>1. UNCHANGED <<flows, callbacks>>
    BY DEF StepsUp, EntryEnds, Unlinks, AddressTaken, InvitationCloses, LosesAll
  <2>2. RowsFit /\ HoldersFit /\ CallbacksFit /\ EntriesFit
    BY DEF ExternalInv
  <2> QED BY <2>1, <2>2 DEF CallbacksFit, FlowsStay, FlowMayStart
<1>2. ASSUME identities' \in Seq(IdentityRows), IdentitiesStay, DOMAIN identities' = DOMAIN identities,
             entries' \in Seq(EntryRows), EntriesStay, DOMAIN entries' = DOMAIN entries,
             EntriesFollow, HoldersStay, HoldersFit'
      PROVE  ExternalInv'
  <2>1. RowsFit' /\ SignInRowsStay
    BY <1>1, <1>2 DEF RowsFit, SignInRowsStay
  <2>2. /\ DOMAIN identities' \subseteq DOMAIN identities \cup {0} /\ IdentityMayBegin(0)
        /\ DOMAIN entries' \subseteq DOMAIN entries \cup {0} /\ EntryMayBegin(0)
        /\ DOMAIN flows' \subseteq DOMAIN flows \cup {0}
    BY <1>1, <1>2 DEF IdentityMayBegin, EntryMayBegin
  <2> QED BY <1>1, <1>2, <2>1, <2>2, ExternalMoves
<1>3. UNCHANGED holders => HoldersStay
  BY DEF HoldersStay
<1>4. UNCHANGED <<holders, invitations>> => HoldersFit'
  BY <1>1 DEF HoldersFit
<1>5. UNCHANGED identities => /\ identities' \in Seq(IdentityRows) /\ IdentitiesStay
                              /\ DOMAIN identities' = DOMAIN identities
  BY <1>1 DEF RowsFit, IdentitiesStay
<1>6. UNCHANGED entries => entries' \in Seq(EntryRows) /\ EntriesStay /\ DOMAIN entries' = DOMAIN entries
  BY <1>1 DEF RowsFit, EntriesStay
<1>7. UNCHANGED <<holders, identities>> => EntriesFollow
  BY DEF EntriesFollow
<1>8. ASSUME NEW e \in DOMAIN entries, StepsUp(e) PROVE ExternalInv'
  <2>1. UNCHANGED <<holders, invitations, identities>> /\ entries' = [entries EXCEPT ![e].second = TRUE]
    BY <1>8 DEF StepsUp
  <2>2. /\ entries = [d \in DOMAIN entries |-> entries[d]]
        /\ \A d \in DOMAIN entries : entries[d] \in EntryRows
    BY <1>1, ExternalRows
  <2>3. /\ entries' = [d \in DOMAIN entries |-> entries'[d]] /\ DOMAIN entries' = DOMAIN entries
        /\ entries'[e] = [entries[e] EXCEPT !.second = TRUE]
        /\ \A d \in DOMAIN entries : d # e => entries'[d] = entries[d]
    BY <2>1, <2>2
  <2>4. /\ entries'[e] \in EntryRows /\ entries'[e].holder = entries[e].holder
        /\ entries'[e].flow = entries[e].flow /\ entries'[e].live = entries[e].live
    BY <2>2, <2>3 DEF EntryRows
  <2>5. \A d \in DOMAIN entries : entries'[d] \in EntryRows
    BY <2>2, <2>3, <2>4
  <2>6. entries' \in Seq(EntryRows) /\ EntriesStay
    BY <1>1, <2>3, <2>4, <2>5, RowsRewritten DEF RowsFit, EntriesStay
  <2> QED BY <1>2, <1>3, <1>4, <1>5, <1>7, <2>1, <2>3, <2>6
<1>9. ASSUME NEW e \in DOMAIN entries, EntryEnds(e) PROVE ExternalInv'
  <2>1. UNCHANGED <<holders, invitations, identities>> /\ entries' = Ended({e})
    BY <1>9 DEF EntryEnds
  <2> QED BY <1>1, <1>2, <1>3, <1>4, <1>5, <1>7, <2>1, EntriesEnd
<1>10. ASSUME NEW e \in DOMAIN entries, NEW i \in DOMAIN identities, Unlinks(e, i) PROVE ExternalInv'
  <2>1. UNCHANGED <<holders, invitations>> /\ identities' = Revoked({i}) /\ entries' = Ended(EntriesBy(i))
    BY <1>10 DEF Unlinks
  <2>2. /\ identities' \in Seq(IdentityRows) /\ IdentitiesStay /\ DOMAIN identities' = DOMAIN identities
        /\ \A j \in DOMAIN identities : j # i => identities'[j] = identities[j]
    <3>1. PICK R : R = {i}
      OBVIOUS
    <3>2. identities' = Revoked(R)
      BY <2>1, <3>1
    <3>3. /\ identities' \in Seq(IdentityRows) /\ IdentitiesStay /\ DOMAIN identities' = DOMAIN identities
          /\ \A j \in DOMAIN identities : j \notin R => identities'[j] = identities[j]
      BY <1>1, <3>2, IdentitiesEnd
    <3> QED BY <3>1, <3>3
  <2>3. /\ entries' \in Seq(EntryRows) /\ EntriesStay /\ DOMAIN entries' = DOMAIN entries
        /\ \A d \in DOMAIN entries : d \in EntriesBy(i) => ~entries'[d].live
    BY <1>1, <2>1, EntriesEnd
  <2>4. EntriesFollow
    BY <1>1, <2>1, <2>2, <2>3 DEF EntriesFollow, EntriesBy, EntriesFit
  <2> QED BY <1>2, <1>3, <1>4, <2>1, <2>2, <2>3, <2>4
<1>11. ASSUME NEW h \in Invited, AddressTaken(h) \/ InvitationCloses(h) PROVE ExternalInv'
  <2>1. /\ UNCHANGED <<holders, identities, entries>> /\ invitations[h].state = "pending"
        /\ \/ invitations' = [invitations EXCEPT ![h].taken = TRUE]
           \/ invitations' = [invitations EXCEPT ![h].state = "closed"]
    BY <1>11 DEF AddressTaken, InvitationCloses
  <2>2. /\ invitations' \in [Invited -> [state : {"pending", "accepted", "closed"}, taken : BOOLEAN]]
        /\ invitations'[h].state # "accepted"
        /\ \A g \in Invited : g # h => invitations'[g] = invitations[g]
    <3>1. CASE invitations' = [invitations EXCEPT ![h].taken = TRUE]
      BY <1>1, <2>1, <3>1 DEF HoldersFit
    <3>2. CASE invitations' = [invitations EXCEPT ![h].state = "closed"]
      BY <1>1, <2>1, <3>2 DEF HoldersFit
    <3> QED BY <2>1, <3>1, <3>2
  <2>3. HoldersFit'
    BY <1>1, <2>1, <2>2 DEF HoldersFit
  <2> QED BY <1>2, <1>3, <1>5, <1>6, <1>7, <2>1, <2>3
<1>12. ASSUME NEW h \in Holder, NEW suspended \in BOOLEAN, LosesAll(h, suspended) PROVE ExternalInv'
  <2>1. /\ UNCHANGED invitations /\ holders[h].there
        /\ holders' = [holders EXCEPT ![h].suspended = suspended]
        /\ identities' = Revoked(LiveOf(h)) /\ entries' = Ended(EntriesOf(h))
    BY <1>12 DEF LosesAll
  <2>2. /\ identities' \in Seq(IdentityRows) /\ IdentitiesStay /\ DOMAIN identities' = DOMAIN identities
        /\ \A j \in DOMAIN identities : j \notin LiveOf(h) => identities'[j] = identities[j]
    BY <1>1, <2>1, IdentitiesEnd
  <2>3. /\ entries' \in Seq(EntryRows) /\ EntriesStay /\ DOMAIN entries' = DOMAIN entries
        /\ \A d \in DOMAIN entries : d \in EntriesOf(h) => ~entries'[d].live
    BY <1>1, <2>1, EntriesEnd
  <2>4. /\ holders' \in [Holder -> [there : BOOLEAN, suspended : BOOLEAN]] /\ holders'[h].there
        /\ \A g \in Holder : g # h => holders'[g] = holders[g]
    BY <1>1, <2>1 DEF HoldersFit
  <2>5. HoldersFit' /\ HoldersStay
    BY <1>1, <2>1, <2>4, InvitedAssumption DEF HoldersFit, HoldersStay
  <2>6. EntriesFollow
    <3>1. ASSUME NEW d \in DOMAIN entries, entries'[d].live
          PROVE  entries[d].holder \in Holder /\ entries[d].holder # h
      <4>1. entries[d] \in EntryRows
        BY <1>1, ExternalRows
      <4> QED BY <2>3, <3>1, <4>1 DEF EntryRows, EntriesOf
    <3> QED BY <1>1, <2>2, <2>4, <3>1 DEF EntriesFollow, EntriesFit, LiveOf
  <2> QED BY <1>2, <2>2, <2>3, <2>5, <2>6
<1> QED BY <1>8, <1>9, <1>10, <1>11, <1>12

LEMMA ExternalBegins ==
  ExternalInit => ExternalInv
<1> SUFFICES ASSUME ExternalInit PROVE ExternalInv
  OBVIOUS
<1>1. /\ identities = <<>> /\ entries = <<>> /\ flows = <<>>
      /\ DOMAIN identities = {} /\ DOMAIN entries = {} /\ DOMAIN flows = {}
  BY DEF ExternalInit
<1>2. RowsFit
  BY <1>1 DEF RowsFit
<1>3. HoldersFit
  BY InvitedAssumption DEF ExternalInit, HoldersFit
<1>4. CallbacksFit
  BY DEF ExternalInit, CallbacksFit, NotServing
<1> QED BY <1>1, <1>2, <1>3, <1>4
        DEF ExternalInv, FlowsFit, IdentitiesFit, EntriesFit, OneHolderEach, FlowsOpenOnce, AcceptedOnce

LEMMA ExternalStep ==
  ExternalInv /\ [ExternalNext]_signInVars => ExternalInv'
<1> SUFFICES ASSUME ExternalInv, [ExternalNext]_signInVars PROVE ExternalInv'
  OBVIOUS
<1>1. CASE UNCHANGED signInVars
  BY <1>1 DEF signInVars, ExternalInv, RowsFit, HoldersFit, CallbacksFit, FlowsFit, IdentitiesFit, EntriesFit,
              OneHolderEach, FlowsOpenOnce, AcceptedOnce
<1>2. CASE ExternalNext
  <2>1. CASE \E provider \in Providers :
               \/ \E purpose \in {"sign_in", "link", "invitation_accept"}, e \in 0 .. Len(entries),
                     h \in Invited \cup {NoHolder} : start_oidc_transaction(provider, purpose, e, h)
               \/ \E c \in Callback, f \in DOMAIN flows, e \in 0 .. Len(entries) :
                    claim_oidc_transaction(c, f, provider, e)
    BY <2>1, FlowStepHolds DEF Purposes
  <2>2. CASE (\E f \in DOMAIN flows : FlowLapses(f)) \/ purge_oidc_records
    BY <2>2, FlowStepHolds
  <2>3. ASSUME NEW c \in Callback,
               \/ \E a \in Account, vouched \in BOOLEAN : VerifyAccount(c, a, vouched)
               \/ CallbackFails(c) \/ SignInFinds(c)
        PROVE  ExternalInv'
    BY <2>3, FlowStepHolds
  <2>4. ASSUME NEW c \in Callback, SignsIn(c) \/ Links(c) \/ AcceptsInvitation(c)
        PROVE  ExternalInv'
    BY <2>4, ProviderSignInHolds, LinkHolds, AcceptanceHolds
  <2>5. CASE \E e \in DOMAIN entries : \/ StepsUp(e) \/ EntryEnds(e)
                                       \/ \E i \in DOMAIN identities : Unlinks(e, i)
    BY <2>5, EndingStepHolds
  <2>6. ASSUME NEW h \in Invited, AcceptsWithCode(h) PROVE ExternalInv'
    BY <2>6, PlainEntryHolds, InvitedAssumption
  <2>7. CASE \E h \in Invited : AddressTaken(h) \/ InvitationCloses(h)
    BY <2>7, EndingStepHolds
  <2>8. ASSUME NEW h \in Holder, SignsInByCode(h) PROVE ExternalInv'
    BY <2>8, PlainEntryHolds
  <2>9. CASE \E h \in Holder, suspended \in BOOLEAN : LosesAll(h, suspended)
    BY <2>9, EndingStepHolds
  <2> QED BY <1>2, <2>1, <2>2, <2>3, <2>4, <2>5, <2>6, <2>7, <2>8, <2>9 DEF ExternalNext
<1> QED BY <1>1, <1>2

LEMMA SignInsOfInv ==
  ExternalInv => SignInsHold
<1> SUFFICES ASSUME ExternalInv PROVE SignInsHold
  OBVIOUS
<1>1. /\ RowsFit /\ HoldersFit /\ CallbacksFit /\ IdentitiesFit /\ EntriesFit
      /\ OneHolderEach /\ FlowsOpenOnce /\ AcceptedOnce
  BY DEF ExternalInv
<1>2. ExternalTypeOK
  <2>1. \A f \in DOMAIN flows : flows[f] \in FlowRows
    BY <1>1, ExternalRows
  <2>2. \A f \in DOMAIN flows : flows[f].state \in {"started", "claimed", "completed", "lapsed", "purged"}
    BY <2>1 DEF FlowRows, FlowStates
  <2>3. \A h \in Holder : holders[h].there \in BOOLEAN
    BY <1>1 DEF HoldersFit
  <2> QED BY <1>1, <2>2, <2>3 DEF CallbacksFit, ExternalTypeOK
<1>3. EntriesRestOnIdentities
  BY <1>1 DEF EntriesFit, EntriesRestOnIdentities
<1>4. FlowsUsedOnce
  <2>1. \A i, j \in DOMAIN identities : identities[i].flow = identities[j].flow => i = j
    BY <1>1 DEF IdentitiesFit
  <2>2. \A i \in DOMAIN identities : LET f == flows[identities[i].flow] IN
          identities[i].holder = IF f.purpose = "link" THEN entries[f.entry].holder ELSE f.invitation
    BY <1>1 DEF IdentitiesFit
  <2> QED BY <1>1, <2>1, <2>2 DEF FlowsUsedOnce, FlowsOpenOnce
<1>5. InvitedOnce
  <2>1. ASSUME NEW h \in Invited
        PROVE  Cardinality({i \in DOMAIN identities : identities[i].holder = h
                             /\ flows[identities[i].flow].purpose = "invitation_accept"}) <= 1
    BY <1>1, AtMostOne DEF AcceptedOnce
  <2>2. \A h \in Invited : holders[h].there <=> invitations[h].state = "accepted"
    BY <1>1 DEF HoldersFit
  <2> QED BY <2>1, <2>2 DEF InvitedOnce
<1> QED BY <1>1, <1>2, <1>3, <1>4, <1>5 DEF SignInsHold

\* A session stands on the address or the identity it was opened with and ends with it and with a
\* suspension; an account is one person's at a time, a flow and an invitation serve once; for any
\* sign-ins and callbacks racing (verify_sign_in_code, oidc_complete, accept_invitation).
THEOREM SignInsAlwaysStand == AccountsSpec /\ ExternalSpec => []SignInsStand
<1>1. ExternalSpec => []ExternalInv
  BY ExternalBegins, ExternalStep, PTL DEF ExternalSpec
<1>2. SessionsStand /\ SignInsHold => SignInsStand
  BY DEF SignInsStand
<1> QED BY <1>1, <1>2, SignInsOfInv, SessionsHold, PTL

-----------------------------------------------------------------------------
(* Authorization: the role table.                                          *)

SensitiveActions == {"registry.publish", "gate.decide", "attestation.sign", "break_glass.quarantine"}

\* No row is for public readers, nor mixes services and persons where one of them has no
\* place; what is sensitive needs the highest level.
Proper(p) ==
  /\ "public_reader" \notin p[2]
  /\ "claim.curate" \in p[1] => p[2] \cap SERVICE_ONLY_ROLES = {}
  /\ "upload.scan_result" \in p[1] => p[2] \subseteq SERVICE_ONLY_ROLES
  /\ \A a \in SensitiveActions \cap p[1], r \in p[2] :
       requiredAuthenticationLevel(r) = 3 /\ r \notin SERVICE_ONLY_ROLES

LEMMA TableIsProper == \A p \in Policies : Proper(p)
<1> USE DEF Proper, To, SensitiveActions, SERVICE_ONLY_ROLES, Reviewers, Administrators, WORKSPACE_READERS,
            REGISTRY_APPROVER_ROLES
<1>1. \A p \in ReadPolicies : Proper(p)
  BY DEF ReadPolicies, GOVERNANCE_READERS
<1>2. \A p \in ProjectPolicies : Proper(p)
  BY DEF ProjectPolicies
<1>3. \A p \in SourcePolicies : Proper(p)
  BY DEF SourcePolicies
<1>4. \A p \in VerificationPolicies : Proper(p)
  BY DEF VerificationPolicies, requiredAuthenticationLevel, minimumAssurance
<1>5. \A p \in PublicationPolicies : Proper(p)
  BY DEF PublicationPolicies, requiredAuthenticationLevel, minimumAssurance
<1>6. \A p \in GovernancePolicies : Proper(p)
  BY DEF GovernancePolicies
<1>7. \A p \in AdminPolicies : Proper(p)
  BY DEF AdminPolicies
<1>8. \A p \in ACCOUNT_ACTION_POLICIES : Proper(p)
  BY DEF ACCOUNT_ACTION_POLICIES
<1>9. \A p \in ControlPolicies : Proper(p)
  BY DEF ControlPolicies, BREAK_GLASS_ROLE, requiredAuthenticationLevel, minimumAssurance
<1> QED BY <1>1, <1>2, <1>3, <1>4, <1>5, <1>6, <1>7, <1>8, <1>9 DEF Policies

\* A role is allowed by a row of the table.
LEMMA AllowedByRow ==
  ASSUME NEW a \in Action, NEW r \in ACTION_POLICIES[a]
  PROVE  \E p \in Policies : a \in p[1] /\ r \in p[2] /\ Proper(p)
<1>1. \E p \in Policies : a \in p[1] /\ r \in p[2]
  BY DEF ACTION_POLICIES
<1> QED BY <1>1, TableIsProper

LEMMA NotForEveryone ==
  ASSUME NEW a \in Action
  PROVE  "public_reader" \notin ACTION_POLICIES[a]
BY AllowedByRow DEF Proper

LEMMA KnownActions == SensitiveActions \cup {"claim.curate", "upload.scan_result"} \subseteq Action
<1>1. To({"registry.publish"}, {"disclosure_approver"}) \in Policies
  BY DEF Policies, PublicationPolicies
<1>2. To({"gate.decide"}, {"gate_approver"}) \in Policies
  BY DEF Policies, VerificationPolicies
<1>3. To({"attestation.sign", "attestation.revoke"}, Reviewers) \in Policies
  BY DEF Policies, VerificationPolicies
<1>4. To({"break_glass.quarantine"}, {BREAK_GLASS_ROLE}) \in Policies
  BY DEF Policies, ControlPolicies
<1>5. To({"claim.curate"}, {"data_steward"}) \in Policies
  BY DEF Policies, SourcePolicies
<1>6. To({"upload.scan_result"}, {"scan_service"}) \in Policies
  BY DEF Policies, SourcePolicies
<1>7. \A actions, roles : To(actions, roles) \in Policies => actions \subseteq Action
  BY DEF To, Action
<1>8. /\ {"registry.publish"} \subseteq Action /\ {"gate.decide"} \subseteq Action
      /\ {"attestation.sign", "attestation.revoke"} \subseteq Action /\ {"break_glass.quarantine"} \subseteq Action
      /\ {"claim.curate"} \subseteq Action /\ {"upload.scan_result"} \subseteq Action
  BY <1>1, <1>2, <1>3, <1>4, <1>5, <1>6, <1>7
<1> QED BY <1>8 DEF SensitiveActions

-----------------------------------------------------------------------------
(* Authorization: what a session holds.                                    *)

\* All that a session has takes effect in it, and the emergency role rests on a standing one.
SessionFits(s) ==
  /\ s.principal \in {"person", "service"}
  /\ \A b \in s.bindings : Meets(s, b.role)
  /\ \A b \in s.bindings : b.role = BREAK_GLASS_ROLE => \E c \in s.bindings : c.role = "security_operator"

AccessInv ==
  /\ held \subseteq Bindable
  /\ InFlight => SessionFits(request)

LEMMA Resolved ==
  ASSUME held \subseteq Bindable, NEW t, t.principal \in {"person", "service"}
  PROVE  /\ SessionFits(resolveAuthority(t))
         /\ resolveAuthority(t).principal = t.principal /\ resolveAuthority(t).assurance = t.assurance
<1>1. PICK s : s = resolveAuthority(t)
  OBVIOUS
<1>2. PICK B : B = {b \in held : Meets(t, b.role)}
  OBVIOUS
<1>3. PICK e : e = (/\ \E b \in B : b.role = "security_operator"
                    /\ resolveBreakGlassElevation /\ Meets(t, BREAK_GLASS_ROLE))
  OBVIOUS
<1>4. /\ s.principal = t.principal /\ s.assurance = t.assurance /\ s.limited = t.limited /\ s.aal = t.aal
      /\ s.bindings = B \cup (IF e THEN {EmergencyBinding} ELSE {})
  BY <1>1, <1>2, <1>3 DEF resolveAuthority
<1>5. \A role : Meets(s, role) <=> Meets(t, role)
  BY <1>4 DEF Meets
<1>6. EmergencyBinding.role = BREAK_GLASS_ROLE
  BY DEF EmergencyBinding
<1>7. \A b \in s.bindings : Meets(s, b.role)
  BY <1>2, <1>3, <1>4, <1>5, <1>6
<1>8. \A b \in B : b.role # BREAK_GLASS_ROLE
  BY <1>2, BindableAssumption DEF BREAK_GLASS_ROLE
<1>9. \A b \in s.bindings : b.role = BREAK_GLASS_ROLE => \E c \in s.bindings : c.role = "security_operator"
  BY <1>3, <1>4, <1>8
<1> QED BY <1>1, <1>4, <1>7, <1>9 DEF SessionFits

LEMMA GateFits ==
  ASSUME held \subseteq Bindable, NEW route
  PROVE  gate(route).principal # "none" => SessionFits(gate(route))
<1>1. NoSession("not read").principal = "none" /\ NoSession("refused").principal = "none"
  BY DEF NoSession
<1>2. SessionFits(resolveServiceSession)
  <2>1. PICK t : t = [principal |-> "service", assurance |-> assurance, limited |-> FALSE, aal |-> 0]
    OBVIOUS
  <2>2. t.principal = "service"
    BY <2>1
  <2>3. SessionFits(resolveAuthority(t))
    BY <2>2, Resolved
  <2> QED BY <2>1, <2>3 DEF resolveServiceSession
<1>3. SessionFits(resolveSession(factors))
  <2>1. PICK t : t = [principal |-> "person", assurance |-> assurance, limited |-> factors.limited,
                      aal |-> deriveAuthenticationLevel(factors.second)]
    OBVIOUS
  <2>2. t.principal = "person"
    BY <2>1
  <2>3. SessionFits(resolveAuthority(t))
    BY <2>2, Resolved
  <2> QED BY <2>1, <2>3 DEF resolveSession
<1>4. PICK s : s = resolveSession(factors)
  OBVIOUS
<1>5. gate(route) \in {NoSession("not read"), NoSession("refused"), resolveServiceSession, s}
  BY <1>4 DEF gate
<1> QED BY <1>1, <1>2, <1>3, <1>4, <1>5

LEMMA AccessStep == AccessInv /\ [AuthorizationNext]_authorizationVars => AccessInv'
<1> SUFFICES ASSUME AccessInv, [AuthorizationNext]_authorizationVars PROVE AccessInv'
  OBVIOUS
<1>1. ASSUME UNCHANGED request, held' \subseteq Bindable PROVE AccessInv'
  BY <1>1 DEF AccessInv, InFlight
<1>2. ASSUME NEW route \in Route, Arrive(route) PROVE AccessInv'
  BY <1>2, GateFits DEF AccessInv, InFlight, Arrive
<1>3. CASE Respond
  BY <1>3 DEF Respond, AccessInv, InFlight, NoSession
<1>4. CASE BindingChanges
  BY <1>1, <1>4 DEF BindingChanges, AccessInv
<1>5. CASE FactorProved \/ ElevationChanges \/ UNCHANGED authorizationVars
  BY <1>1, <1>5 DEF FactorProved, ElevationChanges, authorizationVars, AccessInv
<1> QED BY <1>2, <1>3, <1>4, <1>5 DEF AuthorizationNext

-----------------------------------------------------------------------------
(* Authorization: lists and decisions.                                     *)

\* A binding decides for a project as it filters a list.
LEMMA BindingDecides ==
  ASSUME NEW s, NEW a, NEW b, NEW p \in Project, NEW sensitivity
  PROVE  authorize(s, a, b, Resource(p, sensitivity))
           <=> /\ b.role \in ACTION_POLICIES[a] /\ satisfiesAssurance(s.assurance, minimumAssurance(b.role))
               /\ p \in withinJurisdiction(s, b, baseScopeOf(b)) /\ sensitivity \in clearance(s)
<1>1. PICK r : r = Resource(p, sensitivity)
  OBVIOUS
<1>2. r.project = p /\ r.sensitivity = sensitivity /\ r.conditions /\ ~r.filtered
  BY <1>1 DEF Resource
<1>3. p # "none"
  BY BindableAssumption
<1>4. PICK S : S = baseScopeOf(b)
  OBVIOUS
<1>5. p \in S /\ jurisdictionMatches(s, b, r) <=> p \in withinJurisdiction(s, b, S)
  BY <1>2, <1>3 DEF jurisdictionMatches, withinJurisdiction
<1> QED BY <1>1, <1>2, <1>3, <1>4, <1>5 DEF authorize, ResourceConditions

LEMMA SessionDecides ==
  ASSUME NEW s, NEW a \in Action, NEW p \in Project, NEW sensitivity
  PROVE  assertAuthorized(s, a, Resource(p, sensitivity))
           <=> p \in visibleProjectScope(s, a) /\ sensitivity \in clearance(s)
<1>1. ~authorize(s, a, PUBLIC_READER, Resource(p, sensitivity))
  <2>1. PUBLIC_READER.role = "public_reader"
    BY DEF PUBLIC_READER
  <2> QED BY <2>1, NotForEveryone DEF authorize
<1>2. assertAuthorized(s, a, Resource(p, sensitivity))
        <=> \E b \in s.bindings : authorize(s, a, b, Resource(p, sensitivity))
  BY <1>1 DEF assertAuthorized
<1>3. p \in visibleProjectScope(s, a)
        <=> \E b \in usableBindings(s, a) : p \in withinJurisdiction(s, b, baseScopeOf(b))
  BY DEF visibleProjectScope
<1>4. \A b : b \in usableBindings(s, a)
        <=> /\ b \in s.bindings /\ b.role \in ACTION_POLICIES[a]
            /\ satisfiesAssurance(s.assurance, minimumAssurance(b.role))
  BY DEF usableBindings
<1> QED BY <1>2, <1>3, <1>4, BindingDecides

LEMMA ListsMatch ==
  ASSUME NEW s, SessionFits(s)
  PROVE  ListsMatchDecisions(s)
<1>1. "public" \in clearance(s)
  BY DEF clearance
<1>2. ASSUME NEW a \in Action, NEW p \in Project, p \in visibleProjectScope(s, a)
      PROVE  a \in sessionView(s)
  <2>1. PICK b \in usableBindings(s, a) : TRUE
    BY <1>2 DEF visibleProjectScope
  <2>2. b \in s.bindings /\ b.role \in ACTION_POLICIES[a] /\ Meets(s, b.role)
    BY <2>1 DEF usableBindings, SessionFits
  <2>3. b.role # "public_reader"
    BY <2>2, NotForEveryone
  <2>4. ~(s.principal = "person" /\ (s.aal = 1 \/ s.limited))
    BY <2>2, <2>3 DEF Meets, requiredAuthenticationLevel
  <2> QED BY <2>1, <2>4 DEF sessionView, holdsActionRole
<1>3. ASSUME NEW a \in Action, NEW p \in Project
      PROVE  /\ assertAuthorized(s, a, Resource(p, "public")) <=> p \in visibleProjectScope(s, a)
             /\ assertAuthorized(s, a, Resource(p, "restricted")) => p \in visibleProjectScope(s, a) /\ a \in sessionView(s)
  BY <1>1, <1>2, SessionDecides
<1> QED BY <1>3 DEF ListsMatchDecisions

LEMMA RolesStayInPlace ==
  ASSUME NEW s, SessionFits(s)
  PROVE  RolesInTheirPlace(s)
<1>1. ASSUME NEW a \in Action, NEW p \in Project, NEW sensitivity, assertAuthorized(s, a, Resource(p, sensitivity))
      PROVE  \E b \in s.bindings : b.role \in ACTION_POLICIES[a] /\ Meets(s, b.role)
  <2>1. p \in visibleProjectScope(s, a)
    BY <1>1, SessionDecides
  <2>2. PICK b \in usableBindings(s, a) : TRUE
    BY <2>1 DEF visibleProjectScope
  <2> QED BY <2>2 DEF usableBindings, SessionFits
<1>2. "claim.curate" \in Action /\ "upload.scan_result" \in Action /\ SensitiveActions \subseteq Action
  BY KnownActions
<1>3. \A r \in ACTION_POLICIES["claim.curate"] : r \notin SERVICE_ONLY_ROLES
  BY <1>2, AllowedByRow DEF Proper
<1>4. \A r \in ACTION_POLICIES["upload.scan_result"] : r \in SERVICE_ONLY_ROLES
  BY <1>2, AllowedByRow DEF Proper
<1>5. ASSUME s.principal = "service", NEW p \in Project PROVE ~assertAuthorized(s, "claim.curate", Resource(p, "public"))
  BY <1>1, <1>2, <1>3, <1>5 DEF Meets
<1>6. ASSUME s.principal # "service", NEW p \in Project
      PROVE ~assertAuthorized(s, "upload.scan_result", Resource(p, "restricted"))
  BY <1>1, <1>2, <1>4, <1>6 DEF Meets
<1>7. BREAK_GLASS_ROLE \in {b.role : b \in s.bindings} => "security_operator" \in {b.role : b \in s.bindings}
  BY DEF SessionFits
<1>8. ASSUME s.aal = 2, NEW a \in SensitiveActions PROVE ~holdsActionRole(s, a)
  <2>1. SUFFICES ASSUME NEW b \in s.bindings, b.role \in ACTION_POLICIES[a] PROVE FALSE
    BY DEF holdsActionRole, usableBindings
  <2>2. requiredAuthenticationLevel(b.role) = 3 /\ b.role \notin SERVICE_ONLY_ROLES
    BY <1>2, <2>1, AllowedByRow DEF Proper
  <2>3. Meets(s, b.role)
    BY <2>1 DEF SessionFits
  <2> QED BY <1>8, <2>2, <2>3 DEF Meets
<1> QED BY <1>5, <1>6, <1>7, <1>8 DEF RolesInTheirPlace, SensitiveActions

-----------------------------------------------------------------------------
(* Authorization: a higher level.                                          *)

LEMMA MoreIsSeen ==
  ASSUME NEW s, NEW t, NEW a, s.assurance = t.assurance, s.bindings \subseteq t.bindings, s.hosts \subseteq t.hosts
  PROVE  visibleProjectScope(s, a) \subseteq visibleProjectScope(t, a)
<1>1. ASSUME NEW p \in visibleProjectScope(s, a) PROVE p \in visibleProjectScope(t, a)
  <2>1. PICK b \in usableBindings(s, a) : p \in withinJurisdiction(s, b, baseScopeOf(b))
    BY DEF visibleProjectScope
  <2>2. b \in usableBindings(t, a)
    BY <2>1 DEF usableBindings
  <2>3. PICK S : S = baseScopeOf(b)
    OBVIOUS
  <2>4. p \in withinJurisdiction(t, b, S)
    BY <2>1, <2>3 DEF withinJurisdiction
  <2> QED BY <2>2, <2>3, <2>4 DEF visibleProjectScope
<1> QED BY <1>1

LEMMA MoreIsEffective ==
  ASSUME NEW s, NEW t, NEW a, s.assurance = t.assurance, \A role : Meets(s, role) => Meets(t, role)
  PROVE  visibleProjectScope(resolveAuthority(s), a) \subseteq visibleProjectScope(resolveAuthority(t), a)
<1>1. PICK s1 : s1 = resolveAuthority(s)
  OBVIOUS
<1>2. PICK t1 : t1 = resolveAuthority(t)
  OBVIOUS
<1>3. PICK S : S = {b \in held : Meets(s, b.role)}
  OBVIOUS
<1>4. PICK T : T = {b \in held : Meets(t, b.role)}
  OBVIOUS
<1>5. S \subseteq T
  BY <1>3, <1>4
<1>6. /\ s1.assurance = s.assurance
      /\ s1.bindings = S \cup (IF (\E b \in S : b.role = "security_operator") /\ resolveBreakGlassElevation
                                  /\ Meets(s, BREAK_GLASS_ROLE) THEN {EmergencyBinding} ELSE {})
      /\ s1.hosts = {p \in Project : HostOf[p] \in UNION {b.countries : b \in S}}
  BY <1>1, <1>3 DEF resolveAuthority
<1>7. /\ t1.assurance = t.assurance
      /\ t1.bindings = T \cup (IF (\E b \in T : b.role = "security_operator") /\ resolveBreakGlassElevation
                                  /\ Meets(t, BREAK_GLASS_ROLE) THEN {EmergencyBinding} ELSE {})
      /\ t1.hosts = {p \in Project : HostOf[p] \in UNION {b.countries : b \in T}}
  BY <1>2, <1>4 DEF resolveAuthority
<1>8. s1.bindings \subseteq t1.bindings /\ s1.hosts \subseteq t1.hosts
  BY <1>5, <1>6, <1>7
<1> QED BY <1>1, <1>2, <1>6, <1>7, <1>8, MoreIsSeen

LEMMA NothingIsTakenAway == NarrowedNotWidened
<1>1. ASSUME NEW x, NEW y, <<x, y>> \in {<<"none", "totp">>, <<"recovery_code", "totp">>, <<"totp", "passkey">>},
             NEW a \in Action
      PROVE  visibleProjectScope(resolveSession([second |-> x, limited |-> x = "recovery_code"]), a)
               \subseteq visibleProjectScope(resolveSession([second |-> y, limited |-> y = "recovery_code"]), a)
  <2>1. PICK s : s = [principal |-> "person", assurance |-> assurance, limited |-> x = "recovery_code",
                      aal |-> deriveAuthenticationLevel(x)]
    OBVIOUS
  <2>2. PICK t : t = [principal |-> "person", assurance |-> assurance, limited |-> y = "recovery_code",
                      aal |-> deriveAuthenticationLevel(y)]
    OBVIOUS
  <2>3. /\ s.assurance = t.assurance /\ s.principal = "person" /\ t.principal = "person" /\ ~t.limited
        /\ s.limited \/ (s.aal = 1 /\ t.aal = 2) \/ (s.aal = 2 /\ t.aal = 3)
    BY <1>1, <2>1, <2>2 DEF deriveAuthenticationLevel
  <2>4. ASSUME NEW role, Meets(s, role) PROVE Meets(t, role)
    BY <2>3, <2>4 DEF Meets, requiredAuthenticationLevel
  <2>5. visibleProjectScope(resolveAuthority(s), a) \subseteq visibleProjectScope(resolveAuthority(t), a)
    BY <2>3, <2>4, MoreIsEffective
  <2> QED BY <2>1, <2>2, <2>5 DEF resolveSession
<1> QED BY <1>1 DEF NarrowedNotWidened

\* Lists, menus and decisions agree in every session (DecisionsAgree): one binding
\* decides for a project as it filters lists, no action is for those without a role,
\* what a session holds takes effect at its level, and what takes effect at a lower
\* level does so at a higher (visibleProjectScope and assertAuthorized in
\* authorize.ts, resolveAuthority in session.ts, ACTION_POLICIES).
THEOREM DecisionsAlwaysAgree == AuthorizationSpec => []DecisionsAgree
<1>1. AuthorizationInit => AccessInv
  BY DEF AuthorizationInit, AccessInv, InFlight, NoSession
<1>2. AccessInv => DecisionsAgree
  BY ListsMatch, RolesStayInPlace, NothingIsTakenAway DEF AccessInv, DecisionsAgree
<1> QED BY <1>1, <1>2, AccessStep, PTL DEF AuthorizationSpec

-----------------------------------------------------------------------------
(* Sums over finite sets.                                                  *)

\* How a sum is computed: g gives it for the subsets of S with at most n members.
Small(S, n) == {s \in SUBSET S : Cardinality(s) <= n}
Adds(g, f, S, n) ==
  g = [s \in Small(S, n) |->
         IF s = {} THEN 0 ELSE f[CHOOSE x \in s : TRUE] + g[s \ {CHOOSE x \in s : TRUE}]]

\* What it satisfies: whichever member is taken out first.
Sums(g, f, S) ==
  /\ g \in [SUBSET S -> Nat] /\ g[{}] = 0
  /\ \A s \in SUBSET S : \A x \in s : g[s] = f[x] + g[s \ {x}]

LEMMA LeastNumber ==
  ASSUME NEW S, S \subseteq Nat, S # {}
  PROVE  \E m \in S : \A k \in S : m <= k
<1>1. PICK m \in S : \A k \in S : <<k, m>> \notin OpToRel(<, Nat)
  BY NatLessThanWellFounded, WFMin
<1>2. ASSUME NEW k \in S PROVE m <= k
  <2>1. ~ (<<k, m>>[1] < <<k, m>>[2])
    BY <1>1 DEF OpToRel
  <2> QED BY <2>1
<1> QED BY <1>2

LEMMA SubsetsAreFinite ==
  ASSUME NEW S, IsFiniteSet(S), NEW s \in SUBSET S
  PROVE  /\ IsFiniteSet(s) /\ Cardinality(s) \in Nat
         /\ \A x \in s : Cardinality(s \ {x}) = Cardinality(s) - 1 /\ s \ {x} \in SUBSET S
         /\ Cardinality(s) = 0 <=> s = {}
<1>1. IsFiniteSet(s) /\ Cardinality(s) \in Nat
  BY FS_Subset, FS_CardinalityType
<1>2. ASSUME NEW x \in s PROVE Cardinality(s \ {x}) = Cardinality(s) - 1
  BY <1>1, FS_RemoveElement
<1> QED BY <1>1, <1>2, FS_EmptySet

\* What holds of a set when it holds of the set without any of its members holds of all.
LEMMA SubsetsInOrder ==
  ASSUME NEW S, IsFiniteSet(S), NEW T,
         \A s \in SUBSET S : (\A x \in s : s \ {x} \in T) => s \in T
  PROVE  SUBSET S \subseteq T
<1> DEFINE N == {Cardinality(s) : s \in (SUBSET S) \ T}
<1> SUFFICES ASSUME (SUBSET S) \ T # {} PROVE FALSE
  OBVIOUS
<1>1. N \subseteq Nat /\ N # {}
  BY SubsetsAreFinite
<1>2. PICK n \in N : \A k \in N : n <= k
  <2> HIDE DEF N
  <2> QED BY <1>1, LeastNumber
<1>3. PICK s \in SUBSET S : s \notin T /\ Cardinality(s) = n
  BY <1>2
<1>4. PICK x \in s : s \ {x} \notin T
  <2> HIDE DEF N
  <2>1. (\A x \in s : s \ {x} \in T) => s \in T
    BY <1>3
  <2> QED BY <1>3, <2>1
<1>5. s \ {x} \in (SUBSET S) \ T /\ Cardinality(s) \in Nat /\ Cardinality(s \ {x}) = Cardinality(s) - 1
  BY <1>3, <1>4, SubsetsAreFinite
<1>6. Cardinality(s \ {x}) \in N
  BY <1>5
<1> HIDE DEF N
<1>7. n <= n - 1 /\ n \in Nat
  BY <1>1, <1>2, <1>3, <1>5, <1>6
<1> QED BY <1>7

LEMMA AddsExists ==
  ASSUME NEW S, IsFiniteSet(S), NEW f, NEW n \in Nat
  PROVE  \E g : Adds(g, f, S, n)
<1> DEFINE T == {k \in Nat : ~ \E g : Adds(g, f, S, k)}
<1> SUFFICES ASSUME T # {} PROVE FALSE
  OBVIOUS
<1>1. PICK m \in T : \A k \in T : m <= k
  <2>1. T \subseteq Nat
    OBVIOUS
  <2> HIDE DEF T
  <2> QED BY <2>1, LeastNumber
<1>2. PICK g : m # 0 => Adds(g, f, S, m - 1)
  <2>1. m # 0 => m - 1 \in Nat /\ ~ (m <= m - 1)
    BY <1>1
  <2> QED BY <1>1, <2>1
<1> DEFINE out(s) == s \ {CHOOSE x \in s : TRUE}
           h == [s \in Small(S, m) |-> IF s = {} THEN 0 ELSE f[CHOOSE x \in s : TRUE] + g[out(s)]]
<1>3. ASSUME NEW s \in Small(S, m), s # {}
      PROVE  m # 0 /\ out(s) \in Small(S, m - 1) /\ out(s) \in Small(S, m)
  <2>1. (CHOOSE x \in s : TRUE) \in s
    BY <1>3
  <2>2. /\ s \in SUBSET S /\ Cardinality(s) \in Nat /\ Cardinality(s) # 0 /\ Cardinality(s) <= m
        /\ Cardinality(out(s)) = Cardinality(s) - 1 /\ out(s) \in SUBSET S
    <3>1. s \in SUBSET S /\ Cardinality(s) <= m
      BY <1>3 DEF Small
    <3>2. /\ Cardinality(s) \in Nat /\ (Cardinality(s) = 0 <=> s = {})
          /\ \A x \in s : Cardinality(s \ {x}) = Cardinality(s) - 1 /\ s \ {x} \in SUBSET S
      BY <3>1, SubsetsAreFinite
    <3> QED BY <1>3, <2>1, <3>1, <3>2
  <2> HIDE DEF out
  <2> QED BY <2>2 DEF Small
<1>4. ASSUME NEW t \in Small(S, m), m # 0, t \in Small(S, m - 1) PROVE h[t] = g[t]
  BY <1>2, <1>4, Zenon DEF Adds
<1>5. ASSUME NEW s \in Small(S, m)
      PROVE  h[s] = IF s = {} THEN 0 ELSE f[CHOOSE x \in s : TRUE] + h[out(s)]
  <2>1. CASE s = {}
    BY <2>1
  <2>2. CASE s # {}
    <3>1. h[out(s)] = g[out(s)]
      <4> HIDE DEF h, out
      <4> QED BY <1>3, <1>4, <2>2
    <3>2. h[s] = f[CHOOSE x \in s : TRUE] + g[out(s)]
      BY <2>2
    <3> HIDE DEF h
    <3> QED BY <2>2, <3>1, <3>2
  <2> QED BY <2>1, <2>2
<1>6. Adds(h, f, S, m)
  <2>1. h = [s \in Small(S, m) |-> h[s]]
    OBVIOUS
  <2> HIDE DEF h
  <2> QED BY <1>5, <2>1 DEF Adds
<1> QED BY <1>1, <1>6

LEMMA TotalAdds ==
  ASSUME NEW S, IsFiniteSet(S), NEW f
  PROVE  \E g : Adds(g, f, S, Cardinality(S)) /\ SumFunctionOnSet(f, S) = g[S] /\ Small(S, Cardinality(S)) = SUBSET S
<1>1. \A s \in SUBSET S : Cardinality(s) <= Cardinality(S)
  BY FS_Subset
<1>2. Small(S, Cardinality(S)) = SUBSET S
  BY <1>1 DEF Small
<1>3. \E g : Adds(g, f, S, Cardinality(S))
  BY AddsExists, FS_CardinalityType
<1>4. \E g : g = [s \in SUBSET S |->
                   IF s = {} THEN 0 ELSE f[CHOOSE x \in s : TRUE] + g[s \ {CHOOSE x \in s : TRUE}]]
  BY <1>2, <1>3 DEF Adds
<1> DEFINE E(g) == g = [s \in SUBSET S |->
                   IF s = {} THEN 0 ELSE f[CHOOSE x \in s : TRUE] + g[s \ {CHOOSE x \in s : TRUE}]]
           c == CHOOSE g : E(g)
<1>5. E(c)
  <2>1. \E g : E(g)
    BY <1>4
  <2> HIDE DEF E
  <2> QED BY <2>1
<1>6. SumFunctionOnSet(f, S) = c[S]
  BY DEF SumFunctionOnSet, FoldFunctionOnSet, MapThenFoldSet
<1>7. Adds(c, f, S, Cardinality(S))
  <2> HIDE DEF c
  <2> QED BY <1>2, <1>5 DEF Adds
<1> HIDE DEF c, E
<1> QED BY <1>2, <1>6, <1>7

LEMMA TotalSums ==
  ASSUME NEW S, IsFiniteSet(S), NEW f, f \in [S -> Nat]
  PROVE  \E g : Sums(g, f, S) /\ SumFunction(f) = g[S]
<1>1. PICK g : Adds(g, f, S, Cardinality(S)) /\ SumFunctionOnSet(f, S) = g[S] /\ Small(S, Cardinality(S)) = SUBSET S
  BY TotalAdds
<1>2. g = [s \in SUBSET S |-> g[s]] /\ g[{}] = 0
  BY <1>1 DEF Adds
<1>3. ASSUME NEW s \in SUBSET S, s # {}
      PROVE \E x \in s : g[s] = f[x] + g[s \ {x}]
  <2>1. (CHOOSE x \in s : TRUE) \in s
    BY <1>3
  <2> QED BY <1>1, <1>3, <2>1 DEF Adds
<1>4. \A s \in SUBSET S : g[s] \in Nat
  <2> DEFINE T == {s \in SUBSET S : g[s] \in Nat}
  <2>1. ASSUME NEW s \in SUBSET S, \A x \in s : s \ {x} \in T PROVE s \in T
    <3>1. CASE s = {}
      BY <1>2, <3>1
    <3>2. CASE s # {}
      <4>1. PICK x \in s : g[s] = f[x] + g[s \ {x}]
        BY <1>3, <3>2
      <4>2. f[x] \in Nat /\ g[s \ {x}] \in Nat
        BY <2>1
      <4> QED BY <4>1, <4>2
    <3> QED BY <3>1, <3>2
  <2>2. SUBSET S \subseteq T
    <3> HIDE DEF T
    <3> QED BY <2>1, SubsetsInOrder
  <2> QED BY <2>2
<1>5. \A s \in SUBSET S : \A x \in s : g[s] = f[x] + g[s \ {x}]
  <2> DEFINE T == {s \in SUBSET S : \A x \in s : g[s] = f[x] + g[s \ {x}]}
  <2>1. ASSUME NEW s \in SUBSET S, \A x \in s : s \ {x} \in T PROVE s \in T
    <3>1. SUFFICES ASSUME NEW x \in s PROVE g[s] = f[x] + g[s \ {x}]
      OBVIOUS
    <3>2. PICK y \in s : g[s] = f[y] + g[s \ {y}]
      BY <1>3
    <3>3. CASE x # y
      <4>1. g[s \ {y}] = f[x] + g[(s \ {y}) \ {x}]
        BY <2>1, <3>3
      <4>2. g[s \ {x}] = f[y] + g[(s \ {x}) \ {y}]
        BY <2>1, <3>3
      <4>3. (s \ {x}) \ {y} = (s \ {y}) \ {x} /\ (s \ {x}) \ {y} \in SUBSET S
        OBVIOUS
      <4>4. g[(s \ {x}) \ {y}] \in Nat /\ f[x] \in Nat /\ f[y] \in Nat
        BY <1>4, <4>3
      <4>5. g[s] = f[y] + (f[x] + g[(s \ {x}) \ {y}]) /\ f[x] + g[s \ {x}] = f[x] + (f[y] + g[(s \ {x}) \ {y}])
        BY <3>2, <4>1, <4>2, <4>3
      <4> HIDE DEF T
      <4>6. f[y] + (f[x] + g[(s \ {x}) \ {y}]) = f[x] + (f[y] + g[(s \ {x}) \ {y}])
        BY <4>4
      <4> QED BY <4>5, <4>6, Zenon
    <3> QED BY <3>2, <3>3
  <2>2. SUBSET S \subseteq T
    <3> HIDE DEF T
    <3> QED BY <2>1, SubsetsInOrder
  <2> QED BY <2>2
<1>6. SumFunction(f) = SumFunctionOnSet(f, S)
  BY DEF SumFunction
<1> QED BY <1>1, <1>2, <1>4, <1>5, <1>6 DEF Sums

LEMMA SumIsNat ==
  ASSUME NEW S, IsFiniteSet(S), NEW f \in [S -> Nat]
  PROVE  SumFunction(f) \in Nat
<1>1. PICK g : Sums(g, f, S) /\ SumFunction(f) = g[S]
  BY TotalSums
<1> QED BY <1>1 DEF Sums

\* What members of V hold is shared out over f, a and n, and each holds something of A of its own.
Shared(V, A, balance, f, a, n, W, w) ==
  /\ IsFiniteSet(V) /\ IsFiniteSet(A) /\ balance \in [A -> Nat]
  /\ f \in [V -> Nat] /\ a \in [V -> Nat] /\ n \in [V -> Nat]
  /\ \A v \in V \cap W : w[v] \in A /\ f[v] + a[v] + n[v] = balance[w[v]]
  /\ \A v \in V \ W : f[v] + a[v] + n[v] = 0
  /\ \A u, v \in V \cap W : u # v => w[u] # w[v]

LEMMA CountedOnce ==
  ASSUME NEW V, NEW A, NEW balance, NEW f, NEW a, NEW n, NEW W, NEW w, Shared(V, A, balance, f, a, n, W, w)
  PROVE  SumFunction(f) + SumFunction(a) + SumFunction(n) <= SumFunction(balance)
<1> USE DEF Shared
<1>1. PICK F : Sums(F, f, V) /\ SumFunction(f) = F[V]
  BY TotalSums
<1>2. PICK G : Sums(G, a, V) /\ SumFunction(a) = G[V]
  BY TotalSums
<1>3. PICK N : Sums(N, n, V) /\ SumFunction(n) = N[V]
  BY TotalSums
<1>4. PICK H : Sums(H, balance, A) /\ SumFunction(balance) = H[A]
  BY TotalSums
<1> DEFINE rest == [s \in SUBSET V |-> A \ {w[v] : v \in s \cap W}]
           T == {s \in SUBSET V : F[s] + G[s] + N[s] + H[rest[s]] = H[A]}
<1>0. \A s \in SUBSET V : rest[s] \in SUBSET A /\ (s = {} => rest[s] = A)
  OBVIOUS
<1>5. ASSUME NEW s \in SUBSET V, NEW x \in s
      PROVE  /\ x \notin W => rest[s] = rest[s \ {x}]
             /\ x \in W => w[x] \in rest[s \ {x}] /\ rest[s] = rest[s \ {x}] \ {w[x]}
  OBVIOUS
<1> HIDE DEF rest
<1>6. ASSUME NEW s \in SUBSET V, \A x \in s : s \ {x} \in T PROVE s \in T
  <2>1. /\ F[s] \in Nat /\ G[s] \in Nat /\ N[s] \in Nat /\ H[A] \in Nat
        /\ \A t \in SUBSET V : H[rest[t]] \in Nat
    BY <1>0, <1>1, <1>2, <1>3, <1>4 DEF Sums
  <2>2. CASE s = {}
    <3>1. H[rest[s]] = H[A] /\ F[s] = 0 /\ G[s] = 0 /\ N[s] = 0
      BY <1>0, <2>2, <1>1, <1>2, <1>3 DEF Sums
    <3> QED BY <2>1, <3>1
  <2>3. ASSUME NEW x \in s PROVE F[s] + G[s] + N[s] + H[rest[s]] = H[A]
    <3>1. s \ {x} \in SUBSET V /\ x \in V
      OBVIOUS
    <3> DEFINE t == s \ {x}
    <3>2. /\ F[t] \in Nat /\ G[t] \in Nat /\ N[t] \in Nat
          /\ f[x] \in Nat /\ a[x] \in Nat /\ n[x] \in Nat
      BY <1>1, <1>2, <1>3, <3>1 DEF Sums
    <3>3. F[s] = f[x] + F[t] /\ G[s] = a[x] + G[t] /\ N[s] = n[x] + N[t]
      BY <1>1, <1>2, <1>3 DEF Sums
    <3>4. F[t] + G[t] + N[t] + H[rest[t]] = H[A]
      BY <1>6
    <3>5. H[rest[t]] \in Nat /\ H[rest[s]] \in Nat /\ rest[t] \in SUBSET A
      BY <1>0, <2>1, <3>1
    <3>6. CASE x \in W
      <4>1. w[x] \in rest[t] /\ rest[s] = rest[t] \ {w[x]}
        BY <1>5, <3>6
      <4>2. f[x] + a[x] + n[x] = balance[w[x]] /\ balance[w[x]] \in Nat
        BY <3>1, <3>6
      <4>3. H[rest[t]] = balance[w[x]] + H[rest[s]]
        <5>1. \A r \in SUBSET A : \A y \in r : H[r] = balance[y] + H[r \ {y}]
          BY <1>4 DEF Sums
        <5>2. rest[t] \in SUBSET A /\ w[x] \in rest[t]
          BY <3>5, <4>1
        <5> HIDE DEF t
        <5>3. H[rest[t]] = balance[w[x]] + H[rest[t] \ {w[x]}]
          BY <5>1, <5>2, Zenon
        <5> QED BY <4>1, <5>3, Zenon
      <4> HIDE DEF t
      <4> QED BY <3>2, <3>3, <3>4, <3>5, <4>2, <4>3
    <3>7. CASE x \notin W
      <4>1. f[x] + a[x] + n[x] = 0 /\ H[rest[s]] = H[rest[t]]
        BY <1>5, <3>1, <3>7
      <4> HIDE DEF t
      <4>2. F[s] + G[s] + N[s] = F[t] + G[t] + N[t]
        BY <3>2, <3>3, <4>1
      <4> QED BY <3>4, <4>1, <4>2
    <3> QED BY <3>6, <3>7
  <2> QED BY <2>2, <2>3
<1>7. SUBSET V \subseteq T
  <2> HIDE DEF T
  <2> QED BY <1>6, SubsetsInOrder
<1>8. F[V] + G[V] + N[V] + H[rest[V]] = H[A]
  BY <1>7
<1>9. H[rest[V]] \in Nat /\ F[V] \in Nat /\ G[V] \in Nat /\ N[V] \in Nat
  BY <1>0, <1>1, <1>2, <1>3, <1>4 DEF Sums
<1> QED BY <1>1, <1>2, <1>3, <1>4, <1>8, <1>9

-----------------------------------------------------------------------------
(* Governance: its rows, and what an open vote has read.                   *)

WalletNames == Address \cup {"none"}
\* The balances of a vote on a snapshot, and what people write themselves.
Weights == Nat \cup ManualWeights

ProposalRows ==
  [space : {"protocol", "project"}, terms : Terms, state : DOMAIN proposalMachine, eligible : Weights,
   basis : {"candidate", "manual", "onchain_total_supply"}, holdings : Holdings \cup {<<>>},
   result : CLOSING \cup {"none"},
   executions : Seq([from : DOMAIN proposalMachine, outcome : EXECUTION_OUTCOMES])]
VoteRows == [choice : VoteChoices \cup {"none"}, weight : Weights, wallet : WalletNames]
WalletRows ==
  [holder : Voter, address : Address, disabled : Causes \cup {"offboarding", "no"},
   by : Voter \cup {"admin", "none"}]
BindingRows == [address : Address, replaces : Nat]

BindBallots == [op : {"bind"}, voter : Voter, address : Address, cause : Causes]
VoteBallots ==
  [op : {"vote"}, voter : Voter, proposal : Proposal, choice : VoteChoices, weight : Weights,
   wallet : WalletNames, holds : BOOLEAN, written : BOOLEAN]

GovernanceTyped ==
  /\ proposals \in Seq(ProposalRows) /\ DOMAIN proposals \subseteq Proposal
  /\ votes \in [Proposal -> [Voter -> VoteRows]]
  /\ wallets \in Seq(WalletRows)
  /\ DOMAIN challenges \subseteq Voter /\ \A v \in DOMAIN challenges : challenges[v] \in BindingRows
  /\ ballots \in [Ballot -> {NotCasting} \cup BindBallots \cup VoteBallots]

\* No vote is cast before a proposal opens, and no step turns it back.
Early == {"draft", "review", "announced"}
Opened(p) == p \in DOMAIN proposals /\ proposals[p].state \notin Early
\* A weight is the balance of its wallet, where a snapshot holds balances.
Weighs(p, wallet, weight) ==
  OnSnapshot(p) => wallet \in Address /\ weight = proposals[p].holdings[wallet]

ProposalsFit ==
  \A p \in DOMAIN proposals :
    OnSnapshot(p) => proposals[p].eligible = Supply /\ proposals[p].holdings \in Holdings

VotesFit ==
  \A p \in Proposal, v \in Voter :
    votes[p][v] # NoVote =>
      /\ Opened(p)
      /\ votes[p][v].choice \in VoteChoices
      /\ Weighs(p, votes[p][v].wallet, votes[p][v].weight)
      /\ \A u \in Voter \ {v} : OnSnapshot(p) => votes[p][u].wallet # votes[p][v].wallet

VotesBallot(b) == ballots[b].op = "vote"
BallotsFit ==
  \A b \in Ballot : VotesBallot(b) =>
    LET p == ballots[b].proposal
        v == ballots[b].voter
    IN /\ Opened(p)
       /\ Weighs(p, ballots[b].wallet, ballots[b].weight)
       /\ ballots[b].written => ballots[b].holds
       /\ \A c \in Ballot \ {b} :
            VotesBallot(c) /\ ballots[c].proposal = p =>
              /\ ~(ballots[b].holds /\ ballots[c].holds /\ ballots[c].voter = v)
              /\ ballots[b].written /\ ballots[c].written /\ OnSnapshot(p) =>
                   ballots[c].wallet # ballots[b].wallet
       /\ ballots[b].written /\ OnSnapshot(p) =>
            \A u \in Voter \ {v} : votes[p][u].wallet # ballots[b].wallet

GovernanceInv == GovernanceTyped /\ ProposalsFit /\ VotesFit /\ BallotsFit

LEMMA MachineGoesOn ==
  ASSUME NEW s \in DOMAIN proposalMachine, NEW to \in proposalMachine[s]
  PROVE  to \in DOMAIN proposalMachine /\ (s \notin Early => to \notin Early) /\ (to = "voting" => s = "announced")
BY DEF proposalMachine, Early

LEMMA BalancesAreCounted == GovernanceInv => BalancesCountOnce
<1> SUFFICES ASSUME GovernanceInv, NEW p \in DOMAIN proposals, OnSnapshot(p)
             PROVE  /\ Participated(p) <= proposals[p].eligible
                    /\ \A v \in Voter : votes[p][v] # NoVote =>
                         votes[p][v].weight = proposals[p].holdings[votes[p][v].wallet]
  BY DEF BalancesCountOnce
<1> DEFINE W == {v \in Voter : votes[p][v] # NoVote}
           balance == proposals[p].holdings
           wallet == [v \in Voter |-> votes[p][v].wallet]
           F(c) == [v \in Voter |-> IF votes[p][v].choice = c THEN votes[p][v].weight ELSE 0]
<1>1. p \in Proposal /\ proposals[p].eligible = Supply /\ balance \in Holdings
  BY DEF GovernanceInv, GovernanceTyped, ProposalsFit
<1>2. balance \in [Address -> Nat] /\ SumFunction(balance) <= Supply /\ Supply \in Nat
  BY <1>1, GovernanceAssumption
<1>3. ASSUME NEW v \in W
      PROVE  /\ votes[p][v].choice \in VoteChoices /\ wallet[v] \in Address
             /\ votes[p][v].weight = balance[wallet[v]] /\ votes[p][v].weight \in Nat
  <2>1. votes[p][v].choice \in VoteChoices /\ wallet[v] \in Address /\ votes[p][v].weight = balance[wallet[v]]
    BY <1>1 DEF GovernanceInv, VotesFit, Weighs
  <2> QED BY <1>2, <2>1
<1>4. ASSUME NEW v \in Voter \ W
      PROVE  votes[p][v].choice = "none"
  BY DEF NoVote
<1>5. F("for") \in [Voter -> Nat] /\ F("against") \in [Voter -> Nat] /\ F("abstain") \in [Voter -> Nat]
  BY <1>3, <1>4
<1>6. ASSUME NEW v \in Voter \cap W
      PROVE wallet[v] \in Address /\ F("for")[v] + F("against")[v] + F("abstain")[v] = balance[wallet[v]]
  BY <1>3 DEF VoteChoices
<1>7. ASSUME NEW v \in Voter \ W PROVE F("for")[v] + F("against")[v] + F("abstain")[v] = 0
  BY <1>4
<1>8. ASSUME NEW u \in Voter \cap W, NEW v \in Voter \cap W, u # v PROVE wallet[u] # wallet[v]
  BY <1>1, <1>8 DEF GovernanceInv, VotesFit
<1>9. SumFunction(F("for")) + SumFunction(F("against")) + SumFunction(F("abstain")) <= SumFunction(balance)
  <2>1. IsFiniteSet(Voter) /\ IsFiniteSet(Address)
    BY GovernanceAssumption
  <2> DEFINE f == F("for")
             a == F("against")
             n == F("abstain")
  <2>2. /\ \A v \in Voter \cap W : wallet[v] \in Address /\ f[v] + a[v] + n[v] = balance[wallet[v]]
        /\ \A v \in Voter \ W : f[v] + a[v] + n[v] = 0
        /\ \A u, v \in Voter \cap W : u # v => wallet[u] # wallet[v]
    BY <1>6, <1>7, <1>8
  <2>3. balance \in [Address -> Nat] /\ f \in [Voter -> Nat] /\ a \in [Voter -> Nat] /\ n \in [Voter -> Nat]
    BY <1>2, <1>5
  <2> HIDE DEF W, balance, wallet, f, a, n
  <2>4. Shared(Voter, Address, balance, f, a, n, W, wallet)
    BY <2>1, <2>2, <2>3 DEF Shared
  <2>5. SumFunction(f) + SumFunction(a) + SumFunction(n) <= SumFunction(balance)
    BY <2>4, CountedOnce
  <2> QED BY <2>5 DEF f, a, n
<1>10. Participated(p) = SumFunction(F("for")) + SumFunction(F("against")) + SumFunction(F("abstain"))
  BY DEF Participated, WeightFor
<1>11. /\ SumFunction(F("for")) \in Nat /\ SumFunction(F("against")) \in Nat
       /\ SumFunction(F("abstain")) \in Nat /\ SumFunction(balance) \in Nat
  <2>1. IsFiniteSet(Voter) /\ IsFiniteSet(Address)
    BY GovernanceAssumption
  <2> HIDE DEF balance, F
  <2> QED BY <1>2, <1>5, <2>1, SumIsNat
<1>12. Participated(p) <= proposals[p].eligible
  <2> HIDE DEF balance, F
  <2> QED BY <1>1, <1>2, <1>9, <1>10, <1>11
<1> QED BY <1>3, <1>12

LEMMA GovernanceBegins == GovernanceInit => GovernanceInv
BY DEF GovernanceInit, GovernanceInv, GovernanceTyped, ProposalsFit, VotesFit, BallotsFit, VotesBallot,
       NotCasting, NoVote, VoteRows, WalletNames, Weights

\* While proposals come and move on, what an open one counts stays as it is.
LEMMA OpenOnesStay ==
  ASSUME GovernanceInv, UNCHANGED <<votes, ballots>>,
         \A q \in Proposal : Opened(q) =>
           Opened(q)' /\ OnSnapshot(q)' = OnSnapshot(q) /\ proposals'[q].holdings = proposals[q].holdings
  PROVE  VotesFit' /\ BallotsFit'
<1>1. VotesFit'
  BY DEF GovernanceInv, VotesFit, Weighs
<1>2. \A b \in Ballot : VotesBallot(b) => ballots[b].proposal \in Proposal
  BY DEF GovernanceInv, GovernanceTyped, VotesBallot, VoteBallots, BindBallots, NotCasting
<1> QED BY <1>1, <1>2 DEF GovernanceInv, BallotsFit, Weighs, VotesBallot

LEMMA ProposalMoves ==
  ASSUME GovernanceInv, NEW p \in DOMAIN proposals, NEW row \in ProposalRows,
         proposals' = [proposals EXCEPT ![p] = row], UNCHANGED <<votes, wallets, challenges, ballots>>,
         Opened(p) => /\ row.state \notin Early
                      /\ row.basis = proposals[p].basis /\ row.holdings = proposals[p].holdings,
         row.basis = "onchain_total_supply" => row.eligible = Supply /\ row.holdings \in Holdings
  PROVE  GovernanceInv'
<1>1. /\ proposals \in Seq(ProposalRows) /\ DOMAIN proposals \subseteq Proposal
      /\ proposals' \in Seq(ProposalRows) /\ DOMAIN proposals' = DOMAIN proposals
      /\ proposals'[p] = row /\ \A q \in DOMAIN proposals \ {p} : proposals'[q] = proposals[q]
  BY DEF GovernanceInv, GovernanceTyped
<1>2. GovernanceTyped'
  BY <1>1 DEF GovernanceInv, GovernanceTyped
<1>3. ProposalsFit'
  BY <1>1 DEF GovernanceInv, ProposalsFit, OnSnapshot
<1>4. \A q \in Proposal : Opened(q) => Opened(q)' /\ OnSnapshot(q)' = OnSnapshot(q) /\ proposals'[q].holdings = proposals[q].holdings
  BY <1>1 DEF Opened, OnSnapshot
<1>5. VotesFit' /\ BallotsFit'
  BY <1>4, OpenOnesStay
<1> QED BY <1>2, <1>3, <1>5 DEF GovernanceInv

LEMMA CreateProposalKeeps ==
  ASSUME GovernanceInv, NEW p \in Proposal, CreateProposal(p)
  PROVE  GovernanceInv'
<1> USE DEF CreateProposal
<1>1. PICK space \in {"protocol", "project"}, terms \in Terms, candidate \in ManualWeights \cup {0} :
        proposals' = Append(proposals,
          [space |-> space, terms |-> terms, state |-> "draft", eligible |-> candidate,
           basis |-> "candidate", holdings |-> <<>>, result |-> "none", executions |-> <<>>])
  OBVIOUS
<1> DEFINE row == [space |-> space, terms |-> terms, state |-> "draft", eligible |-> candidate,
                   basis |-> "candidate", holdings |-> <<>>, result |-> "none", executions |-> <<>>]
<1>2. row \in ProposalRows
  BY DEF ProposalRows, proposalMachine, Weights
<1>3. proposals \in Seq(ProposalRows) /\ DOMAIN proposals \subseteq Proposal
  BY DEF GovernanceInv, GovernanceTyped
<1>4. /\ proposals' \in Seq(ProposalRows) /\ DOMAIN proposals' = DOMAIN proposals \cup {p}
      /\ p \notin DOMAIN proposals /\ proposals'[p] = row
      /\ \A q \in DOMAIN proposals : proposals'[q] = proposals[q]
  <2>1. proposals' = Append(proposals, row) /\ p = Len(proposals) + 1
    BY <1>1
  <2> HIDE DEF row
  <2> QED BY <1>2, <1>3, <2>1, RowAdded
<1>5. row.state \in Early /\ row.basis = "candidate"
  BY DEF Early
<1> HIDE DEF row
<1>6. GovernanceTyped'
  BY <1>3, <1>4 DEF GovernanceInv, GovernanceTyped
<1>7. ProposalsFit'
  BY <1>4, <1>5 DEF GovernanceInv, ProposalsFit, OnSnapshot
<1>8. \A q \in Proposal : Opened(q) =>
        /\ Opened(q)' /\ OnSnapshot(q)' = OnSnapshot(q) /\ proposals'[q].holdings = proposals[q].holdings
  BY <1>4 DEF Opened, OnSnapshot
<1>9. VotesFit' /\ BallotsFit'
  BY <1>8, OpenOnesStay
<1> QED BY <1>6, <1>7, <1>9 DEF GovernanceInv

LEMMA TransitionProposalKeeps ==
  ASSUME GovernanceInv, NEW p \in Proposal, NEW to \in DOMAIN proposalMachine, TransitionProposal(p, to)
  PROVE  GovernanceInv'
<1> USE DEF TransitionProposal
<1>1. p \in DOMAIN proposals /\ proposals[p] \in ProposalRows
  BY GovernanceAssumption DEF GovernanceInv, GovernanceTyped
<1>2. proposals[p].state \in DOMAIN proposalMachine /\ to \in proposalMachine[proposals[p].state]
  BY <1>1 DEF ProposalRows
<1>3. OnSnapshot(p) => proposals[p].eligible = Supply /\ proposals[p].holdings \in Holdings
  BY <1>1 DEF GovernanceInv, ProposalsFit
<1>4. UNCHANGED <<votes, wallets, challenges, ballots>>
  OBVIOUS
<1>5. CASE to = "voting"
  <2>1. PICK row \in resolveVotingSnapshot(p) : proposals' = [proposals EXCEPT ![p] = row]
    BY <1>5
  <2>2. proposals[p].state \in Early
    BY <1>2, <1>5, MachineGoesOn DEF Early
  <2>3. /\ row \in ProposalRows
        /\ row.basis = "onchain_total_supply" => row.eligible = Supply /\ row.holdings \in Holdings
    <3>1. CASE proposals[p].space = "protocol"
      <4>1. PICK balance \in Holdings :
              row = [proposals[p] EXCEPT !.state = "voting", !.eligible = Supply, !.holdings = balance,
                                         !.basis = "onchain_total_supply"]
        BY <2>1, <3>1 DEF resolveVotingSnapshot
      <4> QED BY <1>1, <1>5, <4>1, GovernanceAssumption DEF ProposalRows, Weights
    <3>2. CASE proposals[p].space # "protocol"
      <4>1. row = [proposals[p] EXCEPT !.state = "voting", !.basis = "manual"]
        BY <2>1, <3>2 DEF resolveVotingSnapshot
      <4> QED BY <1>1, <1>5, <4>1 DEF ProposalRows
    <3> QED BY <3>1, <3>2
  <2> QED BY <1>1, <1>4, <2>1, <2>2, <2>3, ProposalMoves DEF Opened
<1>6. CASE to # "voting"
  <2> DEFINE row == [proposals[p] EXCEPT !.state = to,
                                         !.result = IF to \in CLOSING THEN to ELSE proposals[p].result]
  <2>1. proposals' = [proposals EXCEPT ![p] = row]
    <3>1. proposals' = [proposals EXCEPT ![p] =
            [proposals[p] EXCEPT !.state = to,
                                 !.result = IF to \in CLOSING THEN to ELSE proposals[p].result]]
      BY <1>6
    <3> QED BY <3>1
  <2>2. /\ row \in ProposalRows /\ row.state = to
        /\ row.basis = proposals[p].basis /\ row.holdings = proposals[p].holdings
        /\ row.eligible = proposals[p].eligible
    BY <1>1 DEF ProposalRows
  <2>3. Opened(p) => to \notin Early
    BY <1>2, MachineGoesOn DEF Opened
  <2> HIDE DEF row
  <2> QED BY <1>1, <1>3, <1>4, <2>1, <2>2, <2>3, ProposalMoves DEF OnSnapshot
<1> QED BY <1>5, <1>6

LEMMA RecordExecutionKeeps ==
  ASSUME GovernanceInv, NEW p \in Proposal, NEW outcome \in EXECUTION_OUTCOMES, RecordExecution(p, outcome)
  PROVE  GovernanceInv'
<1> USE DEF RecordExecution
<1>1. p \in DOMAIN proposals /\ proposals[p] \in ProposalRows
  BY GovernanceAssumption DEF GovernanceInv, GovernanceTyped
<1>2. proposals[p].state \in DOMAIN proposalMachine /\ outcome \in proposalMachine[proposals[p].state]
  BY <1>1 DEF ProposalRows
<1>3. OnSnapshot(p) => proposals[p].eligible = Supply /\ proposals[p].holdings \in Holdings
  BY <1>1 DEF GovernanceInv, ProposalsFit
<1> DEFINE record == [from |-> proposals[p].state, outcome |-> outcome]
           row == [proposals[p] EXCEPT !.state = outcome, !.executions = Append(proposals[p].executions, record)]
<1>4. proposals' = [proposals EXCEPT ![p] = row]
  BY Zenon
<1>5. proposals[p].executions \in Seq([from : DOMAIN proposalMachine, outcome : EXECUTION_OUTCOMES])
      /\ record \in [from : DOMAIN proposalMachine, outcome : EXECUTION_OUTCOMES]
  BY <1>1, <1>2 DEF ProposalRows
<1>6. Append(proposals[p].executions, record) \in Seq([from : DOMAIN proposalMachine, outcome : EXECUTION_OUTCOMES])
  <2> HIDE DEF record
  <2> QED BY <1>5
<1>7. outcome \in DOMAIN proposalMachine /\ outcome \notin Early
  BY DEF EXECUTION_OUTCOMES, proposalMachine, Early
<1>8. /\ row \in ProposalRows /\ row.state = outcome
      /\ row.basis = proposals[p].basis /\ row.holdings = proposals[p].holdings
      /\ row.eligible = proposals[p].eligible
  <2> HIDE DEF record
  <2> QED BY <1>1, <1>6, <1>7 DEF ProposalRows
<1>9. UNCHANGED <<votes, wallets, challenges, ballots>>
  OBVIOUS
<1> HIDE DEF row
<1>10. /\ Opened(p) => /\ row.state \notin Early
                       /\ row.basis = proposals[p].basis /\ row.holdings = proposals[p].holdings
       /\ row.basis = "onchain_total_supply" => row.eligible = Supply /\ row.holdings \in Holdings
  BY <1>3, <1>7, <1>8 DEF OnSnapshot
<1> QED BY <1>1, <1>4, <1>8, <1>9, <1>10, ProposalMoves

-----------------------------------------------------------------------------
(* Wallets: a vote counts a balance at the snapshot, whoever holds it now. *)

\* A transaction that is no open vote begins, or any ends.
LEMMA BallotAside ==
  ASSUME GovernanceInv, NEW b \in Ballot, NEW new \in {NotCasting} \cup BindBallots,
         ballots' = [ballots EXCEPT ![b] = new], UNCHANGED <<proposals, votes>>
  PROVE  /\ ballots' \in [Ballot -> {NotCasting} \cup BindBallots \cup VoteBallots]
         /\ ProposalsFit' /\ VotesFit' /\ BallotsFit'
<1>1. new.op # "vote"
  BY DEF NotCasting, BindBallots
<1>2. ballots \in [Ballot -> {NotCasting} \cup BindBallots \cup VoteBallots]
  BY DEF GovernanceInv, GovernanceTyped
<1>3. ballots' \in [Ballot -> {NotCasting} \cup BindBallots \cup VoteBallots]
  BY <1>2
<1>4. \A c \in Ballot : VotesBallot(c)' => c # b /\ VotesBallot(c) /\ ballots'[c] = ballots[c]
  BY <1>1, <1>2 DEF VotesBallot
<1>5. ProposalsFit' /\ VotesFit'
  BY DEF GovernanceInv, ProposalsFit, VotesFit, OnSnapshot, Opened, Weighs
<1>6. \A p : Opened(p)' = Opened(p) /\ OnSnapshot(p)' = OnSnapshot(p)
  BY DEF Opened, OnSnapshot
<1>7. BallotsFit'
  BY <1>4, <1>6 DEF GovernanceInv, BallotsFit, Weighs
<1> QED BY <1>3, <1>5, <1>7

LEMMA ActiveWallets ==
  ASSUME GovernanceTyped, NEW v
  PROVE  /\ Active(v) \subseteq DOMAIN wallets
         /\ activeWallet(v) \in Nat
         /\ activeWallet(v) # NoWallet => activeWallet(v) \in DOMAIN wallets
<1>1. wallets \in Seq(WalletRows) /\ DOMAIN wallets = 1 .. Len(wallets)
  BY DEF GovernanceTyped
<1>2. Active(v) \subseteq DOMAIN wallets
  BY DEF Active
<1>3. activeWallet(v) # NoWallet => activeWallet(v) \in Active(v)
  BY DEF activeWallet
<1>4. DOMAIN wallets \subseteq Nat
  BY <1>1
<1> QED BY <1>2, <1>3, <1>4 DEF NoWallet

LEMMA ChallengesEnd ==
  ASSUME GovernanceTyped, NEW v, challenges' = Without(v)
  PROVE  DOMAIN challenges' \subseteq Voter /\ \A u \in DOMAIN challenges' : challenges'[u] \in BindingRows
BY DEF GovernanceTyped, Without

LEMMA WalletDisabled ==
  ASSUME GovernanceTyped, NEW w \in DOMAIN wallets, NEW cause \in Causes \cup {"offboarding"},
         NEW by \in Voter \cup {"admin", "none"}
  PROVE  Disabled(w, cause, by) \in Seq(WalletRows)
<1>1. wallets \in Seq(WalletRows) /\ wallets[w] \in WalletRows
  BY DEF GovernanceTyped
<1> DEFINE row == [wallets[w] EXCEPT !.disabled = cause, !.by = by]
<1>2. row \in WalletRows
  BY <1>1 DEF WalletRows
<1>3. Disabled(w, cause, by) = [wallets EXCEPT ![w] = row]
  BY <1>1 DEF Disabled
<1> HIDE DEF row
<1> QED BY <1>1, <1>2, <1>3

LEMMA WalletStepsKeep ==
  ASSUME GovernanceInv, WalletSteps
  PROVE  GovernanceInv'
<1>1. GovernanceTyped
  BY DEF GovernanceInv
<1>2. ASSUME NEW v \in Voter, NEW a \in Address, create_wallet_binding_challenge(v, a) PROVE GovernanceInv'
  <2>1. UNCHANGED <<proposals, votes, wallets, ballots>>
    BY <1>2 DEF create_wallet_binding_challenge
  <2>2. [address |-> a, replaces |-> activeWallet(v)] \in BindingRows
    BY <1>1, ActiveWallets DEF BindingRows
  <2>3. DOMAIN challenges' \subseteq Voter /\ \A u \in DOMAIN challenges' : challenges'[u] \in BindingRows
    BY <1>1, <1>2, <2>2 DEF create_wallet_binding_challenge, GovernanceTyped
  <2>4. GovernanceTyped'
    BY <1>1, <2>1, <2>3 DEF GovernanceTyped
  <2>5. ProposalsFit' /\ VotesFit' /\ BallotsFit'
    BY <2>1 DEF GovernanceInv, ProposalsFit, VotesFit, BallotsFit, OnSnapshot, Opened, Weighs, VotesBallot
  <2> QED BY <2>4, <2>5 DEF GovernanceInv
<1>3. ASSUME NEW v \in Voter, NEW cause \in Causes \cup {"offboarding"}, NEW by \in Voter \cup {"admin", "none"},
             DisableWallet(v, cause, by)
      PROVE  GovernanceInv'
  <2>1. UNCHANGED <<proposals, votes, ballots>>
    BY <1>3 DEF DisableWallet
  <2>2. wallets' \in Seq(WalletRows)
    BY <1>1, <1>3, ActiveWallets, WalletDisabled DEF DisableWallet
  <2>3. DOMAIN challenges' \subseteq Voter /\ \A u \in DOMAIN challenges' : challenges'[u] \in BindingRows
    BY <1>1, <1>3, ChallengesEnd DEF DisableWallet
  <2>4. GovernanceTyped'
    BY <1>1, <2>1, <2>2, <2>3 DEF GovernanceTyped
  <2>5. ProposalsFit' /\ VotesFit' /\ BallotsFit'
    BY <2>1 DEF GovernanceInv, ProposalsFit, VotesFit, BallotsFit, OnSnapshot, Opened, Weighs, VotesBallot
  <2> QED BY <2>4, <2>5 DEF GovernanceInv
<1>4. ASSUME NEW v \in Voter, NEW cause \in Causes \cup {"offboarding"},
             disable_own_wallet(v, cause) \/ AdminDisablesWallet(v, cause)
      PROVE  GovernanceInv'
  BY <1>3, <1>4 DEF disable_own_wallet, AdminDisablesWallet
<1>5. ASSUME NEW v \in Voter, NEW b \in Ballot, NEW cause \in Causes, BindReads(b, v, cause) PROVE GovernanceInv'
  <2> DEFINE new == [op |-> "bind", voter |-> v, address |-> challenges[v].address, cause |-> cause]
  <2>1. /\ UNCHANGED <<proposals, votes, wallets, challenges>> /\ v \in DOMAIN challenges
        /\ ballots' = [ballots EXCEPT ![b] = new]
    BY <1>5 DEF BindReads
  <2>2. new \in BindBallots
    BY <1>1, <2>1 DEF GovernanceTyped, BindingRows, BindBallots
  <2> HIDE DEF new
  <2>3. ballots' \in [Ballot -> {NotCasting} \cup BindBallots \cup VoteBallots]
        /\ ProposalsFit' /\ VotesFit' /\ BallotsFit'
    BY <2>1, <2>2, BallotAside
  <2> QED BY <1>1, <2>1, <2>3 DEF GovernanceInv, GovernanceTyped
<1>6. ASSUME NEW b \in Ballot, bind_wallet_by_proof(b) PROVE GovernanceInv'
  <2> DEFINE v == ballots[b].voter
             old == activeWallet(v)
             row == [holder |-> v, address |-> ballots[b].address, disabled |-> "no", by |-> "none"]
             kept == IF old = NoWallet THEN wallets ELSE Disabled(old, ballots[b].cause, v)
  <2>1. /\ UNCHANGED <<proposals, votes>> /\ ballots[b].op = "bind"
        /\ wallets' = Append(kept, row) /\ challenges' = Without(v)
        /\ ballots' = [ballots EXCEPT ![b] = NotCasting]
    BY <1>6 DEF bind_wallet_by_proof
  <2>2. ballots[b] \in BindBallots
    BY <1>1, <2>1 DEF GovernanceTyped, NotCasting, VoteBallots
  <2>3. v \in Voter /\ ballots[b].cause \in Causes /\ row \in WalletRows
    BY <2>2 DEF BindBallots, WalletRows
  <2>4. kept \in Seq(WalletRows)
    <3>1. CASE old = NoWallet
      BY <1>1, <3>1 DEF GovernanceTyped
    <3>2. CASE old # NoWallet
      <4>1. old \in DOMAIN wallets
        BY <1>1, <3>2, ActiveWallets
      <4> HIDE DEF old, v
      <4>2. Disabled(old, ballots[b].cause, v) \in Seq(WalletRows)
        BY <1>1, <2>3, <4>1, WalletDisabled
      <4> QED BY <3>2, <4>2
    <3> QED BY <3>1, <3>2
  <2>5. wallets' \in Seq(WalletRows)
    <3> HIDE DEF kept, row
    <3> QED BY <2>1, <2>3, <2>4, RowAdded
  <2>6. DOMAIN challenges' \subseteq Voter /\ \A u \in DOMAIN challenges' : challenges'[u] \in BindingRows
    BY <1>1, <2>1, ChallengesEnd
  <2>7. ballots' \in [Ballot -> {NotCasting} \cup BindBallots \cup VoteBallots]
        /\ ProposalsFit' /\ VotesFit' /\ BallotsFit'
    BY <2>1, BallotAside
  <2> QED BY <1>1, <2>1, <2>5, <2>6, <2>7 DEF GovernanceInv, GovernanceTyped
<1> QED BY <1>2, <1>4, <1>5, <1>6 DEF WalletSteps

-----------------------------------------------------------------------------
(* Votes: one row of a person, one count of a wallet.                      *)

LEMMA OpenVote ==
  ASSUME GovernanceTyped, NEW b \in Ballot, VotesBallot(b)
  PROVE  ballots[b] \in VoteBallots
BY DEF GovernanceTyped, VotesBallot, NotCasting, BindBallots

LEMMA WeightsResolved ==
  ASSUME GovernanceInv, NEW p \in DOMAIN proposals, NEW v \in Voter, NEW r \in ResolvedWeights(p, v)
  PROVE  r.weight \in Weights /\ r.wallet \in WalletNames /\ Weighs(p, r.wallet, r.weight)
<1>1. p \in Proposal /\ votes[p][v] \in VoteRows
  BY DEF GovernanceInv, GovernanceTyped
<1>2. CASE ~OnSnapshot(p)
  <2>1. PICK n \in ManualWeights : r = [weight |-> n, wallet |-> "none"]
    BY <1>2 DEF ResolvedWeights
  <2> QED BY <1>2, <2>1 DEF Weights, WalletNames, Weighs
<1>3. CASE OnSnapshot(p) /\ votes[p][v] # NoVote
  <2>1. r = [weight |-> votes[p][v].weight, wallet |-> votes[p][v].wallet]
    BY <1>3 DEF ResolvedWeights
  <2>2. Weighs(p, votes[p][v].wallet, votes[p][v].weight)
    BY <1>1, <1>3 DEF GovernanceInv, VotesFit
  <2> QED BY <1>1, <2>1, <2>2 DEF VoteRows
<1>4. CASE OnSnapshot(p) /\ votes[p][v] = NoVote
  <2>1. PICK w \in Active(v) : r = [weight |-> proposals[p].holdings[wallets[w].address], wallet |-> wallets[w].address]
    BY <1>4 DEF ResolvedWeights
  <2>2. wallets[w].address \in Address
    <3>1. w \in DOMAIN wallets /\ wallets \in Seq(WalletRows)
      BY <2>1 DEF GovernanceInv, GovernanceTyped, Active
    <3>2. wallets[w] \in WalletRows
      BY <3>1
    <3> QED BY <3>2 DEF WalletRows
  <2>3. proposals[p].holdings \in [Address -> Nat]
    BY <1>4, GovernanceAssumption DEF GovernanceInv, ProposalsFit
  <2> QED BY <2>1, <2>2, <2>3 DEF Weights, WalletNames, Weighs
<1> QED BY <1>2, <1>3, <1>4

\* What one open vote may become, the others as they are.
LEMMA BallotChanges ==
  ASSUME GovernanceInv, NEW b \in Ballot, NEW new \in VoteBallots, UNCHANGED <<proposals, votes>>,
         ballots' = [ballots EXCEPT ![b] = new],
         Opened(new.proposal) /\ Weighs(new.proposal, new.wallet, new.weight),
         new.written => new.holds,
         new.holds => VoteRowFree(b, new.proposal, new.voter),
         new.written /\ OnSnapshot(new.proposal) =>
           /\ \A u \in Voter \ {new.voter} : votes[new.proposal][u].wallet # new.wallet
           /\ \A c \in Ballot \ {b} :
                VotesBallot(c) /\ ballots[c].proposal = new.proposal /\ ballots[c].written =>
                  ballots[c].wallet # new.wallet
  PROVE  /\ ballots' \in [Ballot -> {NotCasting} \cup BindBallots \cup VoteBallots]
         /\ ProposalsFit' /\ VotesFit' /\ BallotsFit'
<1>1. ballots \in [Ballot -> {NotCasting} \cup BindBallots \cup VoteBallots] /\ new.op = "vote"
  BY DEF GovernanceInv, GovernanceTyped, VoteBallots
<1>2. ballots' \in [Ballot -> {NotCasting} \cup BindBallots \cup VoteBallots]
  BY <1>1
<1>3. ballots'[b] = new /\ \A c \in Ballot \ {b} : ballots'[c] = ballots[c] /\ VotesBallot(c)' = VotesBallot(c)
  BY <1>1 DEF VotesBallot
<1>4. ProposalsFit' /\ VotesFit'
  BY DEF GovernanceInv, ProposalsFit, VotesFit, OnSnapshot, Opened, Weighs
<1>5. \A p : Opened(p)' = Opened(p) /\ OnSnapshot(p)' = OnSnapshot(p)
  BY DEF Opened, OnSnapshot
<1>6. \A p, w, n : Weighs(p, w, n)' = Weighs(p, w, n)
  BY <1>5 DEF Weighs
<1> DEFINE Fits(d) ==
      LET p == ballots[d].proposal
          v == ballots[d].voter
      IN /\ Opened(p)
         /\ Weighs(p, ballots[d].wallet, ballots[d].weight)
         /\ ballots[d].written => ballots[d].holds
         /\ \A c \in Ballot \ {d} :
              VotesBallot(c) /\ ballots[c].proposal = p =>
                /\ ~(ballots[d].holds /\ ballots[c].holds /\ ballots[c].voter = v)
                /\ ballots[d].written /\ ballots[c].written /\ OnSnapshot(p) =>
                     ballots[c].wallet # ballots[d].wallet
         /\ ballots[d].written /\ OnSnapshot(p) =>
              \A u \in Voter \ {v} : votes[p][u].wallet # ballots[d].wallet
<1>7. Fits(b)'
  BY <1>3, <1>5, <1>6 DEF VoteRowFree, VotesBallot
<1>8. ASSUME NEW d \in Ballot \ {b}, VotesBallot(d) PROVE Fits(d)'
  <2>1. Fits(d)
    BY <1>8 DEF GovernanceInv, BallotsFit
  <2>2. /\ Opened(ballots[d].proposal)'
        /\ Weighs(ballots[d].proposal, ballots[d].wallet, ballots[d].weight)'
        /\ ballots'[d] = ballots[d] /\ votes' = votes
    BY <1>3, <1>5, <1>6, <1>8, <2>1
  <2>3. ASSUME NEW c \in Ballot \ {d}, VotesBallot(c)', ballots'[c].proposal = ballots[d].proposal
        PROVE  /\ ~(ballots[d].holds /\ ballots'[c].holds /\ ballots'[c].voter = ballots[d].voter)
               /\ ballots[d].written /\ ballots'[c].written /\ OnSnapshot(ballots[d].proposal) =>
                    ballots'[c].wallet # ballots[d].wallet
    <3>1. CASE c = b
      BY <1>3, <1>8, <2>3, <3>1 DEF VoteRowFree, VotesBallot
    <3>2. CASE c # b
      BY <1>3, <2>1, <2>3, <3>2
    <3> QED BY <3>1, <3>2
  <2> QED BY <1>5, <2>1, <2>2, <2>3
<1>9. BallotsFit'
  <2>1. ASSUME NEW d \in Ballot, VotesBallot(d)' PROVE Fits(d)'
    BY <1>3, <1>7, <1>8, <2>1
  <2> QED BY <2>1 DEF BallotsFit
<1> QED BY <1>2, <1>4, <1>9

LEMMA VoteReadsKeeps ==
  ASSUME GovernanceInv, NEW b \in Ballot, NEW v \in Voter, NEW p \in Proposal, NEW choice \in VoteChoices,
         VoteReads(b, v, p, choice)
  PROVE  GovernanceInv'
<1>1. PICK r \in ResolvedWeights(p, v) :
        ballots' = [ballots EXCEPT ![b] =
          [op |-> "vote", voter |-> v, proposal |-> p, choice |-> choice, weight |-> r.weight,
           wallet |-> r.wallet, holds |-> votes[p][v] # NoVote, written |-> FALSE]]
  BY DEF VoteReads
<1> DEFINE new == [op |-> "vote", voter |-> v, proposal |-> p, choice |-> choice, weight |-> r.weight,
                   wallet |-> r.wallet, holds |-> votes[p][v] # NoVote, written |-> FALSE]
<1>2. /\ p <= Len(proposals) /\ proposals[p].state = "voting" /\ UNCHANGED <<proposals, votes, wallets, challenges>>
      /\ votes[p][v] = NoVote \/ VoteRowFree(b, p, v)
  BY DEF VoteReads
<1>3. p \in DOMAIN proposals /\ Opened(p)
  BY <1>2, GovernanceAssumption DEF GovernanceInv, GovernanceTyped, Opened, Early
<1>4. r.weight \in Weights /\ r.wallet \in WalletNames /\ Weighs(p, r.wallet, r.weight)
  BY <1>3, WeightsResolved
<1>5. new \in VoteBallots
  BY <1>4 DEF VoteBallots
<1>6. /\ new.proposal = p /\ new.voter = v /\ new.wallet = r.wallet /\ new.weight = r.weight
      /\ ~new.written /\ (new.holds <=> votes[p][v] # NoVote)
  OBVIOUS
<1>7. ballots' = [ballots EXCEPT ![b] = new]
  BY <1>1
<1> HIDE DEF new
<1>8. /\ ballots' \in [Ballot -> {NotCasting} \cup BindBallots \cup VoteBallots]
      /\ ProposalsFit' /\ VotesFit' /\ BallotsFit'
  BY <1>2, <1>3, <1>4, <1>5, <1>6, <1>7, BallotChanges
<1> QED BY <1>2, <1>8 DEF GovernanceInv, GovernanceTyped

LEMMA VoteWritesKeeps ==
  ASSUME GovernanceInv, NEW b \in Ballot, VoteWrites(b)
  PROVE  GovernanceInv'
<1> DEFINE vote == ballots[b]
           new == [vote EXCEPT !.written = TRUE, !.holds = TRUE]
<1>1. VotesBallot(b) /\ vote \in VoteBallots
  BY OpenVote DEF VoteWrites, VotesBallot, GovernanceInv
<1>2. /\ VoteRowFree(b, vote.proposal, vote.voter) /\ WalletUnused(b)
      /\ UNCHANGED <<proposals, votes, wallets, challenges>>
      /\ ballots' = [ballots EXCEPT ![b].written = TRUE, ![b].holds = TRUE]
  BY DEF VoteWrites
<1>3. ballots' = [ballots EXCEPT ![b] = new]
  <2>1. ballots \in [Ballot -> {NotCasting} \cup BindBallots \cup VoteBallots]
    BY DEF GovernanceInv, GovernanceTyped
  <2> QED BY <1>1, <1>2, <2>1 DEF VoteBallots
<1>4. /\ new \in VoteBallots /\ new.written /\ new.holds /\ new.proposal = vote.proposal
      /\ new.voter = vote.voter /\ new.wallet = vote.wallet /\ new.weight = vote.weight
  BY <1>1 DEF VoteBallots
<1>5. Opened(vote.proposal) /\ Weighs(vote.proposal, vote.wallet, vote.weight)
  BY <1>1 DEF GovernanceInv, BallotsFit
<1>6. OnSnapshot(vote.proposal) =>
        /\ \A u \in Voter \ {vote.voter} : votes[vote.proposal][u].wallet # vote.wallet
        /\ \A c \in Ballot \ {b} :
             VotesBallot(c) /\ ballots[c].proposal = vote.proposal /\ ballots[c].written =>
               ballots[c].wallet # vote.wallet
  BY <1>2, <1>5, GovernanceAssumption DEF WalletUnused, Weighs, VotesBallot
<1> HIDE DEF new
<1>7. /\ Opened(new.proposal) /\ Weighs(new.proposal, new.wallet, new.weight)
      /\ new.written => new.holds
      /\ new.holds => VoteRowFree(b, new.proposal, new.voter)
      /\ new.written /\ OnSnapshot(new.proposal) =>
           /\ \A u \in Voter \ {new.voter} : votes[new.proposal][u].wallet # new.wallet
           /\ \A c \in Ballot \ {b} :
                VotesBallot(c) /\ ballots[c].proposal = new.proposal /\ ballots[c].written =>
                  ballots[c].wallet # new.wallet
  BY <1>2, <1>4, <1>5, <1>6
<1> HIDE DEF vote
<1>8. /\ ballots' \in [Ballot -> {NotCasting} \cup BindBallots \cup VoteBallots]
      /\ ProposalsFit' /\ VotesFit' /\ BallotsFit'
  BY <1>2, <1>3, <1>4, <1>7, BallotChanges
<1> QED BY <1>2, <1>8 DEF GovernanceInv, GovernanceTyped

LEMMA VoteCommitsKeeps ==
  ASSUME GovernanceInv, NEW b \in Ballot, VoteCommits(b)
  PROVE  GovernanceInv'
<1> DEFINE vote == ballots[b]
           p == vote.proposal
           v == vote.voter
           old == votes[p][v]
           new == IF old = NoVote
                  THEN [choice |-> vote.choice, weight |-> vote.weight, wallet |-> vote.wallet]
                  ELSE Recast(old, b)
<1>1. VotesBallot(b) /\ vote \in VoteBallots /\ vote.written
  BY OpenVote DEF VoteCommits, VotesBallot, GovernanceInv
<1>2. p \in Proposal /\ v \in Voter /\ old \in VoteRows /\ votes \in [Proposal -> [Voter -> VoteRows]]
  BY <1>1 DEF VoteBallots, GovernanceInv, GovernanceTyped
<1>3. UNCHANGED <<proposals, wallets, challenges>> /\ ballots' = [ballots EXCEPT ![b] = NotCasting]
  BY DEF VoteCommits
<1>4. votes' = [votes EXCEPT ![p][v] = new]
  BY DEF VoteCommits
<1>5. /\ Opened(p) /\ Weighs(p, vote.wallet, vote.weight)
      /\ OnSnapshot(p) => /\ \A u \in Voter \ {v} : votes[p][u].wallet # vote.wallet
                          /\ \A c \in Ballot \ {b} :
                               VotesBallot(c) /\ ballots[c].proposal = p /\ ballots[c].written =>
                                 ballots[c].wallet # vote.wallet
  BY <1>1 DEF GovernanceInv, BallotsFit
<1>6. old # NoVote => /\ Weighs(p, old.wallet, old.weight)
                      /\ OnSnapshot(p) => \A u \in Voter \ {v} : votes[p][u].wallet # old.wallet
  BY <1>2 DEF GovernanceInv, VotesFit
<1>7. /\ new \in VoteRows /\ new.choice \in VoteChoices /\ Weighs(p, new.wallet, new.weight)
      /\ new.wallet = IF old = NoVote THEN vote.wallet ELSE old.wallet
  <2>1. /\ vote.choice \in VoteChoices /\ vote.weight \in Weights /\ vote.wallet \in WalletNames
        /\ old.weight \in Weights /\ old.wallet \in WalletNames
    BY <1>1, <1>2 DEF VoteBallots, VoteRows
  <2>2. CASE old = NoVote
    BY <1>5, <2>1, <2>2 DEF VoteRows
  <2>3. CASE old # NoVote
    <3>1. new = [choice |-> vote.choice, wallet |-> old.wallet,
                 weight |-> IF OnSnapshot(p) THEN old.weight ELSE vote.weight]
      BY <2>3 DEF Recast
    <3> HIDE DEF new, vote, old
    <3> QED BY <1>6, <2>1, <2>3, <3>1 DEF VoteRows, Weighs
  <2> QED BY <2>2, <2>3
<1>8. OnSnapshot(p) =>
        /\ \A u \in Voter \ {v} : votes[p][u].wallet # new.wallet
        /\ \A c \in Ballot \ {b} :
             VotesBallot(c) /\ ballots[c].proposal = p /\ ballots[c].written /\ ballots[c].voter # v =>
               ballots[c].wallet # new.wallet
  <2>1. old # NoVote /\ OnSnapshot(p) =>
          \A c \in Ballot \ {b} :
            VotesBallot(c) /\ ballots[c].proposal = p /\ ballots[c].written /\ ballots[c].voter # v =>
              ballots[c].wallet # old.wallet
    <3> SUFFICES ASSUME OnSnapshot(p), NEW c \in Ballot \ {b}, VotesBallot(c), ballots[c].proposal = p,
                        ballots[c].written, ballots[c].voter # v
                 PROVE  ballots[c].wallet # old.wallet
      OBVIOUS
    <3>1. \A u \in Voter \ {ballots[c].voter} : votes[p][u].wallet # ballots[c].wallet
      BY DEF GovernanceInv, BallotsFit
    <3> QED BY <1>2, <3>1
  <2> QED BY <1>5, <1>6, <1>7, <2>1
<1>9. /\ votes' \in [Proposal -> [Voter -> VoteRows]] /\ votes'[p][v] = new
      /\ \A q \in Proposal, u \in Voter : q # p \/ u # v => votes'[q][u] = votes[q][u]
  <2> HIDE DEF new, p, v
  <2> QED BY <1>2, <1>4, <1>7
<1>10. /\ ballots' \in [Ballot -> {NotCasting} \cup BindBallots \cup VoteBallots]
       /\ \A c \in Ballot : VotesBallot(c)' => c # b /\ VotesBallot(c) /\ ballots'[c] = ballots[c]
  <2>1. ballots \in [Ballot -> {NotCasting} \cup BindBallots \cup VoteBallots]
    BY DEF GovernanceInv, GovernanceTyped
  <2> QED BY <1>3, <2>1 DEF VotesBallot, NotCasting
<1>11. /\ \A q : Opened(q)' = Opened(q) /\ OnSnapshot(q)' = OnSnapshot(q)
       /\ \A q, w, n : Weighs(q, w, n)' = Weighs(q, w, n)
  BY <1>3 DEF Opened, OnSnapshot, Weighs
<1> HIDE DEF new, old, p, v, vote
<1>12. VotesFit'
  <2> SUFFICES ASSUME NEW q \in Proposal, NEW u \in Voter, votes'[q][u] # NoVote
               PROVE  (/\ Opened(q)
                       /\ votes[q][u].choice \in VoteChoices
                       /\ Weighs(q, votes[q][u].wallet, votes[q][u].weight)
                       /\ \A t \in Voter \ {u} : OnSnapshot(q) => votes[q][t].wallet # votes[q][u].wallet)'
    BY DEF VotesFit
  <2>1. CASE q = p /\ u = v
    BY <1>5, <1>7, <1>8, <1>9, <1>11, <2>1
  <2>2. CASE q # p \/ u # v
    <3>1. votes'[q][u] = votes[q][u]
      BY <1>9, <2>2
    <3>2. /\ Opened(q) /\ votes[q][u].choice \in VoteChoices /\ Weighs(q, votes[q][u].wallet, votes[q][u].weight)
          /\ \A t \in Voter \ {u} : OnSnapshot(q) => votes[q][t].wallet # votes[q][u].wallet
      BY <3>1 DEF GovernanceInv, VotesFit
    <3>3. ASSUME NEW t \in Voter \ {u}, OnSnapshot(q) PROVE votes'[q][t].wallet # votes'[q][u].wallet
      <4>1. CASE q = p /\ t = v
        BY <1>8, <1>9, <2>2, <3>1, <3>3, <4>1
      <4>2. CASE q # p \/ t # v
        BY <1>9, <3>1, <3>2, <3>3, <4>2
      <4> QED BY <4>1, <4>2
    <3> QED BY <1>11, <3>1, <3>2, <3>3
  <2> QED BY <2>1, <2>2
<1>13. BallotsFit'
  <2> DEFINE Fits(d) ==
        LET q == ballots[d].proposal
            u == ballots[d].voter
        IN /\ Opened(q)
           /\ Weighs(q, ballots[d].wallet, ballots[d].weight)
           /\ ballots[d].written => ballots[d].holds
           /\ \A c \in Ballot \ {d} :
                VotesBallot(c) /\ ballots[c].proposal = q =>
                  /\ ~(ballots[d].holds /\ ballots[c].holds /\ ballots[c].voter = u)
                  /\ ballots[d].written /\ ballots[c].written /\ OnSnapshot(q) =>
                       ballots[c].wallet # ballots[d].wallet
           /\ ballots[d].written /\ OnSnapshot(q) =>
                \A t \in Voter \ {u} : votes[q][t].wallet # ballots[d].wallet
  <2> SUFFICES ASSUME NEW d \in Ballot, VotesBallot(d)' PROVE Fits(d)'
    BY DEF BallotsFit
  <2>1. d # b /\ VotesBallot(d) /\ ballots'[d] = ballots[d]
    BY <1>10
  <2> DEFINE q == ballots[d].proposal
             u == ballots[d].voter
  <2>2. q \in Proposal
    BY <2>1, OpenVote DEF GovernanceInv, VoteBallots
  <2>3. /\ Opened(q) /\ Weighs(q, ballots[d].wallet, ballots[d].weight)
        /\ ballots[d].written => ballots[d].holds
        /\ \A c \in Ballot \ {d} :
             VotesBallot(c) /\ ballots[c].proposal = q =>
               /\ ~(ballots[d].holds /\ ballots[c].holds /\ ballots[c].voter = u)
               /\ ballots[d].written /\ ballots[c].written /\ OnSnapshot(q) =>
                    ballots[c].wallet # ballots[d].wallet
        /\ ballots[d].written /\ OnSnapshot(q) =>
             \A t \in Voter \ {u} : votes[q][t].wallet # ballots[d].wallet
    BY <2>1 DEF GovernanceInv, BallotsFit
  <2>4. ASSUME ballots[d].written, OnSnapshot(q), NEW t \in Voter \ {u}
        PROVE  votes'[q][t].wallet # ballots[d].wallet
    <3>1. CASE q = p /\ t = v
      BY <1>8, <1>9, <2>1, <2>4, <3>1
    <3>2. CASE q # p \/ t # v
      BY <1>9, <2>2, <2>3, <2>4, <3>2
    <3> QED BY <3>1, <3>2
  <2> QED BY <1>10, <1>11, <2>1, <2>3, <2>4
<1>14. GovernanceTyped'
  BY <1>3, <1>9, <1>10 DEF GovernanceInv, GovernanceTyped
<1>15. ProposalsFit'
  BY <1>3 DEF GovernanceInv, ProposalsFit, OnSnapshot
<1> QED BY <1>12, <1>13, <1>14, <1>15 DEF GovernanceInv

LEMMA BallotRollsBackKeeps ==
  ASSUME GovernanceInv, NEW b \in Ballot, BallotRollsBack(b)
  PROVE  GovernanceInv'
<1>1. UNCHANGED <<proposals, votes, wallets, challenges>> /\ ballots' = [ballots EXCEPT ![b] = NotCasting]
  BY DEF BallotRollsBack
<1>2. /\ ballots' \in [Ballot -> {NotCasting} \cup BindBallots \cup VoteBallots]
      /\ ProposalsFit' /\ VotesFit' /\ BallotsFit'
  BY <1>1, BallotAside
<1> QED BY <1>1, <1>2 DEF GovernanceInv, GovernanceTyped

LEMMA GovernanceGoesOn == GovernanceInv /\ [GovernanceNext]_governanceVars => GovernanceInv'
<1> SUFFICES ASSUME GovernanceInv, [GovernanceNext]_governanceVars PROVE GovernanceInv'
  OBVIOUS
<1>1. CASE ProposalSteps
  BY <1>1, CreateProposalKeeps, TransitionProposalKeeps, RecordExecutionKeeps DEF ProposalSteps
<1>2. CASE WalletSteps
  BY <1>2, WalletStepsKeep
<1>3. CASE VoteSteps
  BY <1>3, VoteReadsKeeps, VoteWritesKeeps, VoteCommitsKeeps, BallotRollsBackKeeps DEF VoteSteps
<1>4. CASE UNCHANGED governanceVars
  <2>1. UNCHANGED <<proposals, votes, wallets, challenges, ballots>>
    BY <1>4 DEF governanceVars
  <2>2. GovernanceTyped'
    BY <2>1 DEF GovernanceInv, GovernanceTyped
  <2>3. ProposalsFit' /\ VotesFit' /\ BallotsFit'
    BY <2>1 DEF GovernanceInv, ProposalsFit, VotesFit, BallotsFit, OnSnapshot, Opened, Weighs, VotesBallot
  <2> QED BY <2>2, <2>3 DEF GovernanceInv
<1> QED BY <1>1, <1>2, <1>3, <1>4 DEF GovernanceNext

(* However wallets change hands and are replaced while people vote and vote *)
(* again, the weight counted for a proposal on a snapshot never exceeds the *)
(* supply at its block, for any balances that fit into the supply, any      *)
(* people, keys and transactions at once (governance.ts, the vote handler;  *)
(* 0130, the pinned weight and the unique weight wallet).                   *)
THEOREM BalancesAlwaysCountOnce == GovernanceSpec => []BalancesCountOnce
<1>1. GovernanceSpec => []GovernanceInv
  BY GovernanceBegins, GovernanceGoesOn, PTL DEF GovernanceSpec
<1> QED BY <1>1, BalancesAreCounted, PTL
=============================================================================
