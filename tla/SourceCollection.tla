-------------------------- MODULE SourceCollection --------------------------
(***************************************************************************)
(* Asking an official source and living with its answers: an authority is  *)
(* accepted, a connection to it is reviewed and activated, the source is   *)
(* asked under an idempotency key, the answer becomes a receipt that is    *)
(* compared with earlier ones, and claims rest on receipts.                *)
(*                                                                         *)
(* The source is asked outside any transaction; every transaction is one   *)
(* step, except the change of a connection, whose row lock is held between *)
(* its checks and its commit, and a second review.                         *)
(*                                                                         *)
(* Abstracted: one authority, one connection and one project; a reviewed   *)
(* configuration is one value; five of the twelve results; limitations,    *)
(* dates, licences and credentials.                                        *)
(***************************************************************************)
EXTENDS Naturals, FiniteSets, Sequences, TLC

CONSTANTS
  Persons, Configs,        \* people; configurations a review looks at
  Keys, Queries, Hashes,   \* idempotency keys, queries, contents of an answer
  Collects,                \* deliveries of POST collect (a retry is a delivery of its own)
  InitAuthorities, InitConnections, InitReceipts, \* where a behaviour may start
  PatchStates,             \* bound: states asked for by PATCH
  ManualResults,           \* bound: results people record by hand
  MaxVersion, MaxAuthorityVersion, MaxReviews, MaxReceipts, MaxClaims, MaxFaults, MaxChanges \* bounds

VARIABLES
  authority,   \* core.authorities, or Absent
  history,     \* core.authority_versions: the states, version by version
  connection,  \* core.source_connections, or Absent
  reviews,     \* core.connection_security_reviews, oldest first
  activation,  \* who activated the connection last: which configuration, from which version
  taskOpen,    \* the connection has an open reconciliation task
  patch,       \* the PATCH that holds the connection's row lock, or Absent
  seen,        \* the version and configuration each person last read
  source,      \* what the source holds, per query: a content or Nothing
  receipts,    \* core.source_receipts, append only
  observations,\* core.source_observations
  claimsMade,      \* core.claims
  keys,        \* core.idempotency_keys: Absent, in flight, or the receipt answered
  collect,     \* the deliveries of POST collect
  checking,    \* second reviews that have passed their reads
  clock, faults, changes

configuration == <<authority, history, connection, reviews, activation, taskOpen, patch, seen>>
evidence == <<receipts, observations, claimsMade>>
sourceVars == <<authority, history, connection, reviews, activation, taskOpen, patch, seen, source,
                receipts, observations, claimsMade, keys, collect, checking, clock, faults, changes>>

Absent   == [state |-> "absent"]
Nothing  == "nothing"
Nobody   == "nobody"
InFlight(q) == [state |-> "in_flight", query |-> q]
Settled(q, receipt) == [state |-> "settled", query |-> q, receipt |-> receipt]
NewCollect(k, q) == [pc |-> "start", key |-> k, query |-> q, result |-> "none", hash |-> Nothing,
                     at |-> 0, answer |-> 0]

authorityMachine ==
  [s \in {"proposed", "under_review", "accepted", "suspended", "expired", "revoked", "superseded"} |->
     CASE s = "proposed"     -> {"under_review", "revoked"}
       [] s = "under_review" -> {"accepted", "revoked"}
       [] s = "accepted"     -> {"suspended", "expired", "revoked", "superseded"}
       [] s = "suspended"    -> {"accepted", "revoked", "expired"}
       [] s = "expired"      -> {"superseded"}
       [] OTHER              -> {}]

sourceConnectionMachine ==
  [s \in {"planned", "feasibility_checked", "access_confirmed", "tested", "active", "degraded",
          "disabled"} |->
     CASE s = "planned"             -> {"feasibility_checked", "disabled"}
       [] s = "feasibility_checked" -> {"access_confirmed", "disabled"}
       [] s = "access_confirmed"    -> {"tested", "disabled"}
       [] s = "tested"              -> {"active", "disabled"}
       [] s = "active"              -> {"degraded", "disabled"}
       [] s = "degraded"            -> {"active", "disabled"}
       [] OTHER                     -> {}]

ASSUME PersonsAssumption == Nobody \notin Persons
\* What a person records alone is not a confirmation.
ASSUME ManualAssumption == "confirmed_from_source" \notin ManualResults
\* A behaviour starts from rows of version 1 and from receipts of before observations were kept.
EarlierReceipts ==
  [via : {"adapter"}, key : {Nothing}, query : Queries, result : {"confirmed_from_source"},
   hash : Hashes, at : Nat, first : {Nobody}, second : {Nobody}, supersedes : {0}]
ASSUME StartAssumption ==
  /\ \A row \in InitAuthorities \ {Absent} :
       /\ row \in [state : DOMAIN authorityMachine, version : {1}, registeredBy : Persons,
                  acceptedBy : Persons \cup {Nobody}]
       /\ row.acceptedBy # row.registeredBy
  /\ InitConnections \ {Absent} \subseteq
       [state : DOMAIN sourceConnectionMachine, version : {1}, config : Configs]
  /\ InitReceipts \subseteq Seq(EarlierReceipts)

SourceInit ==
  /\ authority \in InitAuthorities
  /\ history = IF authority = Absent THEN <<>> ELSE <<authority.state>>
  /\ connection \in InitConnections
  /\ connection # Absent => authority # Absent
  /\ connection # Absent /\ connection.state = "active" => authority.state = "accepted"
  /\ reviews = <<>>
  /\ activation = IF connection # Absent /\ connection.state = "active"
                  THEN [by |-> Nobody, config |-> connection.config, version |-> 0] ELSE Absent
  /\ taskOpen = FALSE
  /\ patch = Absent
  /\ seen = [p \in Persons |-> Absent]
  /\ source \in [Queries -> Hashes]
  /\ receipts \in InitReceipts
  /\ observations = <<>>
  /\ claimsMade = <<>>
  /\ keys = [k \in Keys |-> Absent]
  /\ collect \in [Collects -> {NewCollect(k, q) : k \in Keys, q \in Queries}]
  /\ checking = {}
  /\ clock = 1
  /\ faults = 0
  /\ changes = 0

-----------------------------------------------------------------------------
(* Claims go stale.                                                        *)

StaleIf(Outdated(_)) ==
  [c \in DOMAIN claimsMade |->
     IF Outdated(claimsMade[c]) THEN [claimsMade[c] EXCEPT !.stale = TRUE] ELSE claimsMade[c]]

(* A connection that goes down takes the claims of its receipts along.     *)
propagate_connection_to_claims ==
  LET OfConnection(c) == c.receipt # 0 IN StaleIf(OfConnection)

-----------------------------------------------------------------------------
(* The authority.                                                          *)

RegisterAuthority(p) ==
  /\ authority = Absent
  /\ authority' = [state |-> "proposed", version |-> 1, registeredBy |-> p, acceptedBy |-> Nobody]
  /\ history' = <<"proposed">>
  /\ UNCHANGED <<connection, reviews, activation, taskOpen, patch, seen, source, evidence, keys,
                 collect, checking, clock, faults, changes>>

(* PATCH keeps the state: what an accepted authority proves is rewritten   *)
(* without a new acceptance.                                               *)
UpdateAuthority ==
  /\ authority # Absent
  /\ authority.version < MaxAuthorityVersion
  /\ authority' = [authority EXCEPT !.version = @ + 1]
  /\ history' = Append(history, authority.state)
  /\ UNCHANGED <<connection, reviews, activation, taskOpen, patch, seen, source, evidence, keys,
                 collect, checking, clock, faults, changes>>

(* The demotion waits for the row lock of a PATCH only if the row that is  *)
(* committed is active.  It neither bumps the version nor opens a task.    *)
propagate_authority_state(to) ==
  IF authority.state = "accepted" /\ to # "accepted" /\ connection # Absent /\ connection.state = "active"
  THEN /\ patch = Absent
       /\ connection' = [connection EXCEPT !.state = "degraded"]
       /\ claimsMade' = propagate_connection_to_claims
  ELSE UNCHANGED <<connection, claimsMade>>

TransitionAuthority(p, to) ==
  /\ authority # Absent
  /\ to \in authorityMachine[authority.state]
  /\ to = "accepted" => authority.registeredBy # p
  /\ authority.version < MaxAuthorityVersion
  /\ authority' = [authority EXCEPT !.state = to, !.version = @ + 1,
                                    !.acceptedBy = IF to = "accepted" THEN p ELSE @]
  /\ history' = Append(history, to)
  /\ propagate_authority_state(to)
  /\ UNCHANGED <<reviews, activation, taskOpen, patch, seen, source, receipts, observations, keys,
                 collect, checking, clock, faults, changes>>

-----------------------------------------------------------------------------
(* The connection.                                                         *)

CreateConnection(config) ==
  /\ authority # Absent
  /\ connection = Absent
  /\ connection' = [state |-> "planned", version |-> 1, config |-> config]
  /\ UNCHANGED <<authority, history, reviews, activation, taskOpen, patch, seen, source, evidence,
                 keys, collect, checking, clock, faults, changes>>

(* A person reads the connection; If-Match and the review rest on that.    *)
ReadConnection(p) ==
  /\ connection # Absent
  /\ seen' = [seen EXCEPT ![p] = [version |-> connection.version, config |-> connection.config]]
  /\ UNCHANGED <<authority, history, connection, reviews, activation, taskOpen, patch, source,
                 evidence, keys, collect, checking, clock, faults, changes>>

assertVersionMatches_Any(p) == seen[p] # Absent
assertVersionMatches(p) == seen[p] # Absent /\ seen[p].version = connection.version

(* FOR SHARE: a PATCH under way is waited for.                             *)
ReviewConnection(p, decision) ==
  /\ connection # Absent
  /\ patch = Absent
  /\ Len(reviews) < MaxReviews
  /\ assertVersionMatches(p)
  /\ reviews' = Append(reviews, [version |-> connection.version, decision |-> decision, by |-> p,
                                 looked |-> seen[p].config])
  /\ UNCHANGED <<authority, history, connection, activation, taskOpen, patch, seen, source,
                 evidence, keys, collect, checking, clock, faults, changes>>

(* The latest review of this version approves it, and is another person's. *)
Approved(by) ==
  LET ofVersion == {i \in DOMAIN reviews : reviews[i].version = connection.version} IN
  \E i \in ofVersion :
    /\ \A j \in ofVersion : j <= i
    /\ reviews[i].decision = "approved"
    /\ reviews[i].by # by

assertActivationReviewed(by, state, config) ==
  /\ state = "active" => config = connection.config
  /\ state = "active" /\ connection.state # "active" => Approved(by)

assertConnectionTransition(to) ==
  to # connection.state =>
    /\ to \in sourceConnectionMachine[connection.state]
    /\ connection.state = "degraded" /\ to = "active" => ~taskOpen

(* PATCH: the row is locked and every check made; the trigger's second     *)
(* look at the authority belongs to the same instant.                      *)
PatchConnection(p, state, config) ==
  /\ connection # Absent
  /\ patch = Absent
  /\ connection.version < MaxVersion
  /\ assertVersionMatches(p)
  /\ state = "active" => authority.state = "accepted"
  /\ assertConnectionTransition(state)
  /\ assertActivationReviewed(p, state, config)
  /\ patch' = [state |-> state, config |-> config, by |-> p]
  /\ UNCHANGED <<authority, history, connection, reviews, activation, taskOpen, seen, source,
                 evidence, keys, collect, checking, clock, faults, changes>>

CommitPatch ==
  /\ patch # Absent
  /\ connection' = [state |-> patch.state, version |-> connection.version + 1, config |-> patch.config]
  /\ activation' = IF patch.state = "active" /\ connection.state # "active"
                   THEN [by |-> patch.by, config |-> patch.config, version |-> connection.version]
                   ELSE activation
  /\ claimsMade' = IF patch.state \in {"degraded", "disabled"} /\ patch.state # connection.state
               THEN propagate_connection_to_claims ELSE claimsMade
  /\ patch' = Absent
  /\ UNCHANGED <<authority, history, reviews, taskOpen, seen, source, receipts, observations, keys,
                 collect, checking, clock, faults, changes>>

ResolveTask ==
  /\ taskOpen
  /\ taskOpen' = FALSE
  /\ UNCHANGED <<authority, history, connection, reviews, activation, patch, seen, source, evidence,
                 keys, collect, checking, clock, faults, changes>>

-----------------------------------------------------------------------------
(* Receipts, in the order their transactions commit.                       *)

degrading == {"source_unavailable"}

Receipt(via, k, q, result, hash, at) ==
  [via |-> via, key |-> k, query |-> q, result |-> result, hash |-> hash, at |-> at,
   first |-> Nobody, second |-> Nobody, supersedes |-> 0]

(* Inserting a receipt waits for the connection's row (its foreign key);   *)
(* a degrading result pauses an active connection and opens a task.        *)
InsertReceipt(r) ==
  /\ patch = Absent
  /\ Len(receipts) < MaxReceipts
  /\ receipts' = Append(receipts, r)
  /\ IF r.result \in degrading /\ connection.state = "active"
     THEN /\ connection' = [connection EXCEPT !.state = "degraded", !.version = @ + 1]
          /\ taskOpen' = TRUE
     ELSE UNCHANGED <<connection, taskOpen>>

Degrades(r) == r.result \in degrading /\ connection.state = "active"

Successful == {"baseline", "unchanged", "changed"}

(* The newest of a set of numbered records; of two of one time, the later. *)
Newest(S, At(_)) ==
  {i \in S : \A j \in S : At(j) < At(i) \/ (At(j) = At(i) /\ j <= i)}

(* What the answer r of receipt n is compared with: the receipt of the     *)
(* newest successful observation, or an adapter's receipt from before      *)
(* observations were kept.                                                 *)
PreviousAnswer(r) ==
  LET ObservedAt(o) == observations[o].at
      ReceivedAt(i) == receipts[i].at
      found == Newest({o \in DOMAIN observations : observations[o].query = r.query
                                                 /\ observations[o].outcome \in Successful}, ObservedAt)
      older == Newest({i \in DOMAIN receipts :
                         /\ receipts[i].via = "adapter" /\ receipts[i].query = r.query
                         /\ receipts[i].result = "confirmed_from_source"
                         /\ \A o \in DOMAIN observations : observations[o].receipt # i
                         /\ receipts[i].at <= r.at}, ReceivedAt)
  IN IF found # {} THEN {observations[o].receipt : o \in found} ELSE older

(* Only the newest successful answer is looked at.                         *)
Late_SuccessOnly(r) == \E i \in PreviousAnswer(r) : r.at < receipts[i].at

(* An answer that is older than one already recorded.                      *)
Late(r) ==
  \/ \E i \in PreviousAnswer(r) : r.at < receipts[i].at
  \/ \E o \in DOMAIN observations : /\ observations[o].query = r.query
                                    /\ observations[o].outcome # "out_of_order"
                                    /\ r.at < observations[o].at

Outcome(r) ==
  CASE Late(r) -> "out_of_order"
    [] ~Late(r) /\ r.result = "confirmed_from_source" ->
         IF PreviousAnswer(r) = {} THEN "baseline"
         ELSE IF \E i \in PreviousAnswer(r) : receipts[i].hash = r.hash THEN "unchanged" ELSE "changed"
    [] ~Late(r) /\ r.result = "source_returned_no_record" -> "no_record"
    [] OTHER -> "unavailable"

(* The claims a new answer puts in doubt: those on any older receipt of    *)
(* the query that says something else.                                     *)
Outdates(r, c) ==
  /\ c.receipt # 0
  /\ receipts[c.receipt].query = r.query
  /\ receipts[c.receipt].at <= r.at
  /\ \/ Outcome(r) = "no_record" /\ PreviousAnswer(r) # {}
     \/ Outcome(r) = "changed" /\ receipts[c.receipt].hash # r.hash

recordSourceObservation(r) ==
  LET InDoubt(c) == (Degrades(r) /\ c.receipt # 0) \/ Outdates(r, c) IN
  /\ observations' = Append(observations, [receipt |-> Len(receipts) + 1, query |-> r.query,
                                           at |-> r.at, outcome |-> Outcome(r)])
  /\ claimsMade' = StaleIf(InDoubt)

-----------------------------------------------------------------------------
(* Idempotency keys.                                                       *)

(* INSERT ... ON CONFLICT DO NOTHING decides who reserves a key.           *)
Reservable(k, q) == keys[k] = Absent
Replayable(k, q) == keys[k].state = "settled" /\ keys[k].query = q

releaseIdempotency_Any(k) == [keys EXCEPT ![k] = Absent]

(* Only a key without a stored answer is released (also the policy of 0049). *)
releaseIdempotency(k) == IF keys[k].state = "in_flight" THEN [keys EXCEPT ![k] = Absent] ELSE keys

completeIdempotency(k, q, receipt) == [keys EXCEPT ![k] = Settled(q, receipt)]

-----------------------------------------------------------------------------
(* POST collect.                                                           *)

Goto(c, pc) == collect' = [collect EXCEPT ![c].pc = pc]
outsideCollect == <<authority, history, reviews, activation, patch, seen, source, checking, changes>>

(* The connection is read once, before the reservation.                    *)
ReadCallable(c) ==
  /\ collect[c].pc = "start"
  /\ IF connection # Absent /\ connection.state = "active" THEN Goto(c, "reserve") ELSE Goto(c, "refused")
  /\ UNCHANGED <<outsideCollect, connection, taskOpen, evidence, keys, clock, faults>>

Reserve(c) ==
  LET k == collect[c].key
      q == collect[c].query IN
  /\ collect[c].pc = "reserve"
  /\ \/ Reservable(k, q) /\ keys' = [keys EXCEPT ![k] = InFlight(q)] /\ Goto(c, "call")
     \/ /\ Replayable(k, q) /\ UNCHANGED keys
        /\ collect' = [collect EXCEPT ![c].answer = keys[k].receipt, ![c].pc = "replayed"]
     \/ ~Reservable(k, q) /\ ~Replayable(k, q) /\ UNCHANGED keys /\ Goto(c, "refused")
  /\ UNCHANGED <<outsideCollect, connection, taskOpen, evidence, clock, faults>>

(* The request reaches the source outside any transaction.  The answer is  *)
(* dated when it arrives; the final transaction begins at once.            *)
Ask(c) ==
  LET q == collect[c].query
      Received(result, hash) ==
        collect' = [collect EXCEPT ![c].result = result, ![c].hash = hash, ![c].at = clock,
                                   ![c].pc = "settle"]
  IN
  /\ collect[c].pc = "call"
  /\ \/ source[q] # Nothing /\ Received("confirmed_from_source", source[q])
     \/ source[q] = Nothing /\ Received("source_returned_no_record", Nothing)
     \/ Received("source_unavailable", Nothing)
  /\ clock' = clock + 1
  /\ UNCHANGED <<outsideCollect, connection, taskOpen, evidence, keys, faults>>

(* Receipt, degradation, observation and answer commit together.           *)
SettleWrites(c) ==
  LET r == Receipt("adapter", collect[c].key, collect[c].query, collect[c].result,
                   collect[c].hash, collect[c].at) IN
  /\ collect[c].pc = "settle"
  /\ InsertReceipt(r)
  /\ recordSourceObservation(r)
  /\ keys' = completeIdempotency(collect[c].key, collect[c].query, Len(receipts) + 1)
  /\ UNCHANGED <<outsideCollect, clock>>

Settle(c) ==
  /\ SettleWrites(c)
  /\ collect' = [collect EXCEPT ![c].answer = Len(receipts) + 1, ![c].pc = "collected"]
  /\ UNCHANGED faults

Fault == faults < MaxFaults /\ faults' = faults + 1

(* The commit is done but its confirmation is lost: the route takes it for *)
(* a failure.                                                              *)
SettleUnheard(c) == Fault /\ SettleWrites(c) /\ Goto(c, "failing")

(* The call throws, or the transaction fails.                              *)
Fail(c) ==
  /\ Fault
  /\ collect[c].pc \in {"call", "settle"}
  /\ Goto(c, "failing")
  /\ UNCHANGED <<outsideCollect, connection, taskOpen, evidence, keys, clock>>

releaseIdempotencyAfterFailure(c) ==
  /\ collect[c].pc = "failing"
  /\ keys' = releaseIdempotency(collect[c].key)
  /\ Goto(c, "failed")
  /\ UNCHANGED <<outsideCollect, connection, taskOpen, evidence, clock, faults>>

(* The API stops, or the release itself fails: the key stays in flight.    *)
Crash(c) ==
  /\ Fault
  /\ collect[c].pc \in {"reserve", "call", "settle", "failing"}
  /\ Goto(c, "dead")
  /\ UNCHANGED <<outsideCollect, connection, taskOpen, evidence, keys, clock>>

-----------------------------------------------------------------------------
(* Receipts people write, and claims.                                      *)

(* withIdempotency: the whole request is one transaction.  A person's own  *)
(* look at a registry is never confirmed at once (checkChannelReady).      *)
CreateReceipt(p, k, q, result) ==
  /\ connection # Absent
  /\ keys[k] = Absent
  /\ InsertReceipt([Receipt("manual", k, q, result, Nothing, clock) EXCEPT !.first = p])
  /\ claimsMade' = IF Degrades(receipts'[Len(receipts')]) THEN propagate_connection_to_claims ELSE claimsMade
  /\ keys' = [keys EXCEPT ![k] = Settled(q, Len(receipts) + 1)]
  /\ clock' = clock + 1
  /\ UNCHANGED <<outsideCollect, observations, collect, faults>>

FollowUps(i) == {j \in DOMAIN receipts : receipts[j].supersedes = i}

checkSecondReview(i, p) == p # receipts[i].first

StartSecondReview(p, i, n) ==
  /\ receipts[i].via = "manual"
  /\ receipts[i].second = Nobody
  /\ FollowUps(i) = {}
  /\ checkSecondReview(i, p)
  /\ checking' = checking \cup {[by |-> p, of |-> i, request |-> n]}
  /\ UNCHANGED <<authority, history, connection, reviews, activation, taskOpen, patch, seen, source,
                 evidence, keys, collect, clock, faults, changes>>

(* The unique index of 0076 decides between two reviews under way.         *)
NotFollowedUp(i) == FollowUps(i) = {}

FinishSecondReview(check, result) ==
  LET i == check.of IN
  /\ checking' = checking \ {check}
  /\ IF NotFollowedUp(i)
     THEN /\ InsertReceipt([receipts[i] EXCEPT !.key = Nothing, !.result = result, !.at = clock,
                                               !.second = check.by, !.supersedes = i])
          /\ clock' = clock + 1
     ELSE UNCHANGED <<receipts, connection, taskOpen, clock>>
  /\ UNCHANGED <<authority, history, reviews, activation, patch, seen, source, observations, claimsMade,
                 keys, collect, faults, changes>>

(* A claim rests on any receipt of its project, or on none: nobody asks    *)
(* whether a newer answer exists.                                          *)
CreateClaim(i) ==
  /\ Len(claimsMade) < MaxClaims
  /\ claimsMade' = Append(claimsMade, [receipt |-> i, stale |-> FALSE, after |-> Len(observations)])
  /\ UNCHANGED <<authority, history, connection, reviews, activation, taskOpen, patch, seen, source,
                 receipts, observations, keys, collect, checking, clock, faults, changes>>

(* The source changes what it holds.                                       *)
SourceChanges(q, content) ==
  /\ changes < MaxChanges
  /\ content # source[q]
  /\ source' = [source EXCEPT ![q] = content]
  /\ changes' = changes + 1
  /\ UNCHANGED <<configuration, connection, evidence, keys, collect, checking, clock, faults>>

ConfigurationNext ==
  \/ \E p \in Persons : RegisterAuthority(p) \/ ReadConnection(p)
  \/ UpdateAuthority
  \/ \E p \in Persons, to \in DOMAIN authorityMachine : TransitionAuthority(p, to)
  \/ \E config \in Configs : CreateConnection(config)
  \/ \E p \in Persons, decision \in {"approved", "rejected"} : ReviewConnection(p, decision)
  \/ \E p \in Persons, state \in PatchStates, config \in Configs : PatchConnection(p, state, config)
  \/ CommitPatch
  \/ ResolveTask

CollectionNext ==
  \/ \E c \in Collects : \/ ReadCallable(c) \/ Reserve(c) \/ Ask(c) \/ Settle(c) \/ SettleUnheard(c)
                        \/ Fail(c) \/ releaseIdempotencyAfterFailure(c) \/ Crash(c)
  \/ \E i \in DOMAIN receipts \cup {0} : CreateClaim(i)
  \/ \E q \in Queries, content \in Hashes \cup {Nothing} : SourceChanges(q, content)

ByHandNext ==
  \/ \E p \in Persons, k \in Keys, q \in Queries, result \in ManualResults :
       CreateReceipt(p, k, q, result)
  \/ \E p \in Persons, i \in DOMAIN receipts, n \in 1..2 : StartSecondReview(p, i, n)
  \/ \E check \in checking, result \in {"confirmed_from_source", "conflicting"} :
       FinishSecondReview(check, result)

SourceNext == ConfigurationNext \/ CollectionNext \/ ByHandNext
SourceSpec == SourceInit /\ [][SourceNext]_sourceVars

-----------------------------------------------------------------------------
(* Properties.                                                             *)

(* A delivery that asks the source holds its key; a key answers for one    *)
(* receipt, and every delivery that was answered named that receipt: a     *)
(* retry does not ask the source again, even when the confirmation of the  *)
(* first answer was lost (source-collect.ts:272, idempotency.ts:32).       *)
CollectedOnce ==
  /\ \A c, d \in Collects : /\ collect[c].pc \in {"call", "settle"} => keys[collect[c].key].state = "in_flight"
                           /\ collect[c].pc \in {"call", "settle"} /\ collect[d].pc \in {"call", "settle"}
                                /\ collect[c].key = collect[d].key => c = d
  /\ \A c \in Collects : collect[c].pc \in {"collected", "replayed"} =>
       keys[collect[c].key] = Settled(collect[c].query, collect[c].answer)
  /\ \A i \in DOMAIN receipts : receipts[i].key # Nothing =>
       keys[receipts[i].key] = Settled(receipts[i].query, i)

(* What people saw by hand is confirmed by a second person, and a receipt  *)
(* has one follow-up however many reviews ran at once (source-collect.ts:429). *)
ConfirmedByTwo ==
  /\ \A i \in DOMAIN receipts :
       receipts[i].via = "manual" /\ receipts[i].result = "confirmed_from_source" =>
         receipts[i].second \notin {Nobody, receipts[i].first}
  /\ \A i \in DOMAIN receipts : Cardinality(FollowUps(i)) <= 1

ReceiptsStand == CollectedOnce /\ ConfirmedByTwo

(* An active connection runs the configuration that a person other than    *)
(* the one who activated it looked at and approved, whatever was changed   *)
(* or rejected in between; no unexplained outage is passed over; an        *)
(* accepted authority was accepted by another person than its registrant,  *)
(* and its history has a row for each of its versions                      *)
(* (connection-review.ts:12, authority-admin.ts:233).                      *)
ActiveIsReviewed ==
  /\ authority # Absent => /\ Len(history) = authority.version
                           /\ history[Len(history)] = authority.state
                           /\ authority.acceptedBy # authority.registeredBy
  /\ taskOpen => connection.state \in {"degraded", "disabled"}
  /\ connection # Absent /\ connection.state = "active" =>
       /\ activation.config = connection.config
       /\ activation.by # Nobody =>
            \E i \in DOMAIN reviews :
              /\ reviews[i].version = activation.version
              /\ reviews[i].decision = "approved"
              /\ reviews[i].looked = connection.config
              /\ reviews[i].by # activation.by
              /\ \A j \in DOMAIN reviews : reviews[j].version = activation.version => j <= i

(* What was collected from sources can be relied on: the receipts, and the *)
(* connections they come through.                                          *)
SourcesStand == ReceiptsStand /\ ActiveIsReviewed

(* Answers take effect in the order they were received, however their      *)
(* transactions were ordered, and a claim that is not stale rests on a     *)
(* receipt that agrees with, or is newer than, every change the source     *)
(* showed since the claim was made (source-observations.ts:14).            *)
AnswersTakeEffect ==
  LET effective == {o \in DOMAIN observations : observations[o].outcome # "out_of_order"} IN
  /\ \A o, e \in effective :
       observations[o].query = observations[e].query /\ o < e => observations[o].at <= observations[e].at
  /\ \A c \in DOMAIN claimsMade, o \in effective :
       LET basis == receipts[claimsMade[c].receipt]
           answer == receipts[observations[o].receipt] IN
       /\ claimsMade[c].receipt # 0 /\ ~claimsMade[c].stale
       /\ o > claimsMade[c].after
       /\ basis.query = answer.query
       /\ basis.at < answer.at
       => /\ observations[o].outcome = "changed" => basis.hash = answer.hash
          /\ observations[o].outcome = "no_record" =>
               ~\E e \in effective : e < o /\ observations[e].query = answer.query
                                         /\ observations[e].outcome \in Successful

=============================================================================
