---------------------------- MODULE EvidenceProofs ----------------------------
(***************************************************************************)
(* Proofs about SourceCollection for any persons, configurations, keys,    *)
(* queries and deliveries, and about Verification for any cases, claims,   *)
(* people and transactions at once.                                        *)
(***************************************************************************)
EXTENDS SourceCollection, Verification, WellFoundedInduction, FiniteSetTheorems, TLAPS

-----------------------------------------------------------------------------
(* SourceCollection: its rows.                                             *)

AuthorityStates == {"proposed", "under_review", "accepted", "suspended", "expired", "revoked", "superseded"}
ConnectionStates == {"planned", "feasibility_checked", "access_confirmed", "tested", "active", "degraded",
                     "disabled"}
Results == {"confirmed_from_source", "source_returned_no_record", "source_unavailable", "conflicting"}
             \cup ManualResults
SourceContents == Hashes \cup {Nothing}
Steps == {"start", "refused", "reserve", "call", "settle", "collected", "replayed", "failing", "failed", "dead"}

AuthorityRows == [state : AuthorityStates, version : Nat, registeredBy : Persons,
                  acceptedBy : Persons \cup {Nobody}]
ConnectionRows == [state : ConnectionStates, version : Nat, config : Configs]
SeenRows == [version : Nat, config : Configs]
ReviewRows == [version : Nat, decision : {"approved", "rejected"}, by : Persons, looked : Configs]
ReceiptRows == [via : {"adapter", "manual"}, key : Keys \cup {Nothing}, query : Queries, result : Results,
                hash : SourceContents, at : Nat, first : Persons \cup {Nobody}, second : Persons \cup {Nobody},
                supersedes : Nat]
CollectRows == [pc : Steps, key : Keys, query : Queries, result : Results \cup {"none"}, hash : SourceContents,
                at : Nat, answer : Nat]
ObservationRows == [receipt : Nat, query : Queries, at : Nat,
                    outcome : {"baseline", "unchanged", "changed", "no_record", "unavailable", "out_of_order"}]
ClaimRows == [receipt : Nat, stale : BOOLEAN, after : Nat]

-----------------------------------------------------------------------------
(* Who may speak for the source: the authority and the connection.         *)

AuthorityFits ==
  /\ history \in Seq(AuthorityStates)
  /\ authority # Absent => /\ authority \in AuthorityRows
                           /\ Len(history) = authority.version
                           /\ history[Len(history)] = authority.state
                           /\ authority.acceptedBy # authority.registeredBy

\* What was read or reviewed of the version that is there now was its configuration.
Looked(version, config) ==
  connection # Absent /\ version <= connection.version
  /\ (version = connection.version => config = connection.config)
LookedAt ==
  /\ seen = [p \in Persons |-> seen[p]]
  /\ \A p \in Persons : seen[p] # Absent => seen[p] \in SeenRows /\ Looked(seen[p].version, seen[p].config)
  /\ reviews \in Seq(ReviewRows)
  /\ \A i \in DOMAIN reviews : Looked(reviews[i].version, reviews[i].looked)

\* What a PATCH has checked is so until it commits.
PatchReady ==
  patch # Absent => /\ connection # Absent /\ patch.state \in ConnectionStates /\ patch.config \in Configs
                    /\ assertConnectionTransition(patch.state)
                    /\ assertActivationReviewed(patch.by, patch.state, patch.config)

\* An active connection is a version further than the one that was reviewed.
Activated ==
  connection # Absent /\ connection.state = "active" =>
    /\ activation.config = connection.config
    /\ activation.version \in Nat /\ activation.version < connection.version
    /\ activation.by # Nobody =>
         \E i \in DOMAIN reviews :
           /\ reviews[i].version = activation.version
           /\ reviews[i].decision = "approved"
           /\ reviews[i].looked = connection.config
           /\ reviews[i].by # activation.by
           /\ \A j \in DOMAIN reviews : reviews[j].version = activation.version => j <= i

ConnectionFits ==
  /\ connection # Absent => connection \in ConnectionRows
  /\ taskOpen => connection.state \in {"degraded", "disabled"}
  /\ LookedAt /\ PatchReady /\ Activated

-----------------------------------------------------------------------------
(* Collection under a key.                                                 *)

KeysFit ==
  /\ keys = [k \in Keys |-> keys[k]]
  /\ \A k \in Keys : keys[k].state = "settled" =>
       keys[k] = Settled(keys[k].query, keys[k].receipt) /\ keys[k].receipt \in Nat

\* A delivery that fails still holds its key, unless its answer is stored.
Holding(c) ==
  \/ collect[c].pc \in {"call", "settle"}
  \/ collect[c].pc = "failing" /\ keys[collect[c].key].state = "in_flight"

CollectFits ==
  /\ collect \in [Collects -> CollectRows]
  /\ \A c \in Collects :
       /\ collect[c].pc \in {"call", "settle"} => keys[collect[c].key].state = "in_flight"
       /\ collect[c].pc = "settle" => collect[c].result \in Results
       /\ collect[c].pc = "failing" => keys[collect[c].key].state \in {"in_flight", "settled"}
       /\ collect[c].pc \in {"collected", "replayed"} =>
            keys[collect[c].key] = Settled(collect[c].query, collect[c].answer)
  /\ \A c, d \in Collects : Holding(c) /\ Holding(d) /\ collect[c].key = collect[d].key => c = d

KeysAnswer ==
  \A i \in DOMAIN receipts : receipts[i].key # Nothing =>
    receipts[i].key \in Keys /\ keys[receipts[i].key] = Settled(receipts[i].query, i)

\* Receipts by hand and their second review.
HandsFit ==
  /\ \A i \in DOMAIN receipts :
       receipts[i].via = "manual" /\ receipts[i].result = "confirmed_from_source" =>
         receipts[i].second \notin {Nobody, receipts[i].first}
  /\ \A i, j \in DOMAIN receipts : receipts[i].supersedes = receipts[j].supersedes
                                     /\ receipts[i].supersedes # 0 => i = j
  /\ \A check \in checking : /\ check.by \in Persons /\ check.of \in DOMAIN receipts
                             /\ receipts[check.of].via = "manual"
                             /\ check.by # receipts[check.of].first

-----------------------------------------------------------------------------
(* Observations, and the claims they put in doubt.                         *)

Effective(o) == observations[o].outcome # "out_of_order"
InOrder ==
  \A o, e \in DOMAIN observations :
    Effective(o) /\ Effective(e) /\ observations[o].query = observations[e].query /\ o < e =>
      observations[o].at <= observations[e].at

\* No answer after claim c was made speaks against what it rests on.
AgreesWith(c, o) ==
  LET basis == receipts[claimsMade[c].receipt]
      answer == receipts[observations[o].receipt] IN
  /\ claimsMade[c].receipt # 0 /\ ~claimsMade[c].stale
  /\ o > claimsMade[c].after
  /\ basis.query = answer.query
  /\ basis.at < answer.at
  => /\ observations[o].outcome = "changed" => basis.hash = answer.hash
     /\ observations[o].outcome = "no_record" =>
          ~\E e \in DOMAIN observations : /\ Effective(e) /\ e < o /\ observations[e].query = answer.query
                                          /\ observations[e].outcome \in Successful
ClaimsAgree == \A c \in DOMAIN claimsMade, o \in DOMAIN observations : Effective(o) => AgreesWith(c, o)

RecordsFit ==
  /\ clock \in Nat /\ source = [q \in Queries |-> source[q]] /\ \A q \in Queries : source[q] \in SourceContents
  /\ receipts \in Seq(ReceiptRows) /\ observations \in Seq(ObservationRows) /\ claimsMade \in Seq(ClaimRows)
  /\ \A o \in DOMAIN observations : observations[o].receipt \in DOMAIN receipts
  /\ \A c \in DOMAIN claimsMade : claimsMade[c].receipt \in DOMAIN receipts \cup {0}

SourceInv ==
  /\ AuthorityFits /\ ConnectionFits /\ KeysFit /\ CollectFits /\ KeysAnswer /\ HandsFit
  /\ RecordsFit /\ InOrder /\ ClaimsAgree


-----------------------------------------------------------------------------
(* A set of indices has a largest.                                         *)

LEMMA LargestOf ==
  ASSUME NEW n \in Nat, NEW S, S \subseteq 1 .. n, S # {}
  PROVE  \E x \in S : \A y \in S : y <= x
<1> DEFINE T == {n - j : j \in S}
<1>1. T \subseteq Nat /\ T # {}
  <2>1. \A j \in 1 .. n : n - j \in Nat
    OBVIOUS
  <2>2. T \subseteq Nat
    BY <2>1
  <2> QED BY <2>2
<1>2. PICK x \in T : \A y \in T : <<y, x>> \notin OpToRel(<, Nat)
  BY <1>1, NatLessThanWellFounded, WFMin
<1>3. \A y \in T : x <= y
  <2>1. ASSUME NEW y \in T PROVE x <= y
    <3>1. ~ (<<y, x>>[1] < <<y, x>>[2])
      BY <1>1, <1>2 DEF OpToRel
    <3> QED BY <1>1, <3>1
  <2> QED BY <2>1
<1>4. PICK j \in S : x = n - j
  OBVIOUS
<1>5. ASSUME NEW y \in S PROVE y <= j
  <2>1. n - j <= n - y
    BY <1>3, <1>4
  <2>2. y \in Int /\ j \in Int
    OBVIOUS
  <2> QED BY <2>1, <2>2
<1> QED BY <1>5


LEMMA IndexedRows ==
  ASSUME NEW S, NEW s \in Seq(S)
  PROVE  /\ s = [i \in DOMAIN s |-> s[i]] /\ \A i \in DOMAIN s : s[i] \in S
         /\ DOMAIN s = 1 .. Len(s) /\ Len(s) \in Nat
OBVIOUS

LEMMA RewrittenRows ==
  ASSUME NEW S, NEW T, NEW s \in Seq(S), NEW f,
         f = [i \in DOMAIN s |-> f[i]], \A i \in DOMAIN s : f[i] \in T
  PROVE  f \in Seq(T) /\ Len(f) = Len(s) /\ DOMAIN f = DOMAIN s
<1>1. DOMAIN s = 1 .. Len(s) /\ Len(s) \in Nat
  OBVIOUS
<1>2. f \in [1 .. Len(s) -> T]
  BY <1>1
<1> QED BY <1>1, <1>2

LEMMA AppendedRow ==
  ASSUME NEW S, NEW s \in Seq(S), NEW r \in S
  PROVE  /\ Append(s, r) \in Seq(S) /\ Len(Append(s, r)) = Len(s) + 1
         /\ DOMAIN Append(s, r) = DOMAIN s \cup {Len(s) + 1} /\ Len(s) + 1 \notin DOMAIN s
         /\ \A i \in DOMAIN s : Append(s, r)[i] = s[i]
         /\ Append(s, r)[Len(s) + 1] = r
OBVIOUS

\* A part none of whose variables a step touches stands.
LEMMA PartsStay ==
  ASSUME SourceInv
  PROVE  /\ UNCHANGED <<authority, history>> => AuthorityFits'
         /\ UNCHANGED <<connection, reviews, activation, taskOpen, patch, seen>> => ConnectionFits'
         /\ UNCHANGED <<keys, collect, receipts>> => KeysFit' /\ CollectFits' /\ KeysAnswer'
         /\ UNCHANGED <<receipts, checking>> => HandsFit'
         /\ UNCHANGED <<clock, source, receipts, observations, claimsMade>> =>
              RecordsFit' /\ InOrder' /\ ClaimsAgree'
<1>1. UNCHANGED <<authority, history>> => AuthorityFits'
  BY DEF SourceInv, AuthorityFits
<1>2. ASSUME UNCHANGED <<connection, reviews, activation, taskOpen, patch, seen>> PROVE ConnectionFits'
  <2>1. LookedAt'
    BY <1>2 DEF SourceInv, ConnectionFits, LookedAt, Looked
  <2>2. PatchReady'
    BY <1>2 DEF SourceInv, ConnectionFits, PatchReady, assertConnectionTransition,
                assertActivationReviewed, Approved
  <2>3. Activated'
    BY <1>2 DEF SourceInv, ConnectionFits, Activated
  <2> QED BY <1>2, <2>1, <2>2, <2>3 DEF SourceInv, ConnectionFits
<1>3. ASSUME UNCHANGED <<keys, collect, receipts>> PROVE KeysFit' /\ CollectFits' /\ KeysAnswer'
  BY <1>3 DEF SourceInv, KeysFit, CollectFits, KeysAnswer, Holding
<1>4. UNCHANGED <<receipts, checking>> => HandsFit'
  BY DEF SourceInv, HandsFit
<1>5. ASSUME UNCHANGED <<clock, source, receipts, observations, claimsMade>>
      PROVE  RecordsFit' /\ InOrder' /\ ClaimsAgree'
  <2>1. RecordsFit'
    BY <1>5 DEF SourceInv, RecordsFit
  <2>2. InOrder'
    BY <1>5 DEF SourceInv, InOrder, Effective
  <2>3. ClaimsAgree'
    BY <1>5 DEF SourceInv, ClaimsAgree, AgreesWith, Effective
  <2> QED BY <2>1, <2>2, <2>3
<1> QED BY <1>1, <1>2, <1>3, <1>4, <1>5

-----------------------------------------------------------------------------
(* The authority.                                                          *)

LEMMA AuthorityMoves ==
  ASSUME SourceInv, NEW s \in AuthorityStates, NEW row \in AuthorityRows, authority' = row,
         row.state = s, row.version = Len(history) + 1, row.acceptedBy # row.registeredBy,
         history' = Append(history, s)
  PROVE  AuthorityFits'
<1>1. /\ history' \in Seq(AuthorityStates) /\ Len(history') = Len(history) + 1
      /\ history'[Len(history) + 1] = s
  BY AppendedRow DEF SourceInv, AuthorityFits
<1> QED BY <1>1 DEF AuthorityFits

LEMMA AuthorityKeeps ==
  ASSUME SourceInv,
         \/ \E p \in Persons : RegisterAuthority(p)
         \/ UpdateAuthority
         \/ \E p \in Persons, to \in DOMAIN authorityMachine : TransitionAuthority(p, to)
  PROVE  AuthorityFits'
<1>1. ASSUME NEW p \in Persons, RegisterAuthority(p) PROVE AuthorityFits'
  BY <1>1, PersonsAssumption DEF RegisterAuthority, AuthorityFits, AuthorityRows, AuthorityStates
<1>2. CASE UpdateAuthority
  <2>1. /\ authority \in AuthorityRows /\ Len(history) = authority.version
        /\ authority.acceptedBy # authority.registeredBy
    BY <1>2 DEF UpdateAuthority, SourceInv, AuthorityFits
  <2>2. PICK row : row = [authority EXCEPT !.version = @ + 1]
    OBVIOUS
  <2>3. /\ row \in AuthorityRows /\ row.state = authority.state /\ row.version = Len(history) + 1
        /\ row.acceptedBy # row.registeredBy
    BY <2>1, <2>2 DEF AuthorityRows
  <2>4. authority' = row /\ history' = Append(history, authority.state)
    BY <1>2, <2>2 DEF UpdateAuthority
  <2>5. PICK s \in AuthorityStates : s = authority.state
    BY <2>1 DEF AuthorityRows
  <2> QED BY <2>3, <2>4, <2>5, AuthorityMoves
<1>3. ASSUME NEW p \in Persons, NEW to \in DOMAIN authorityMachine, TransitionAuthority(p, to)
      PROVE  AuthorityFits'
  <2>1. /\ authority \in AuthorityRows /\ Len(history) = authority.version
        /\ authority.acceptedBy # authority.registeredBy
    BY <1>3 DEF TransitionAuthority, SourceInv, AuthorityFits
  <2>2. to \in AuthorityStates
    BY DEF authorityMachine, AuthorityStates
  <2>3. PICK row : row = [authority EXCEPT !.state = to, !.version = @ + 1,
                                           !.acceptedBy = IF to = "accepted" THEN p ELSE @]
    OBVIOUS
  <2>4. to = "accepted" => authority.registeredBy # p
    BY <1>3 DEF TransitionAuthority
  <2>5. /\ row \in AuthorityRows /\ row.state = to /\ row.version = Len(history) + 1
        /\ row.acceptedBy # row.registeredBy
    <3>1. PICK by : by = IF to = "accepted" THEN p ELSE authority.acceptedBy
      OBVIOUS
    <3>2. by \in Persons \cup {Nobody} /\ by # authority.registeredBy
      BY <2>1, <2>4, <3>1 DEF AuthorityRows
    <3>3. row = [authority EXCEPT !.state = to, !.version = @ + 1, !.acceptedBy = by]
      BY <2>3, <3>1
    <3>4. /\ row.state = to /\ row.version = authority.version + 1 /\ row.acceptedBy = by
          /\ row.registeredBy = authority.registeredBy
      BY <2>1, <3>3 DEF AuthorityRows
    <3>5. row \in AuthorityRows
      <4>1. PICK r1 : r1 = [authority EXCEPT !.state = to]
        OBVIOUS
      <4>2. PICK r2 : r2 = [r1 EXCEPT !.version = authority.version + 1]
        OBVIOUS
      <4>3. r1 \in AuthorityRows
        BY <2>1, <2>2, <4>1 DEF AuthorityRows
      <4>4. r2 \in AuthorityRows
        BY <2>1, <4>2, <4>3 DEF AuthorityRows
      <4>5. row = [r2 EXCEPT !.acceptedBy = by]
        BY <3>3, <4>1, <4>2
      <4> QED BY <3>2, <4>4, <4>5 DEF AuthorityRows
    <3> QED BY <2>1, <3>2, <3>4, <3>5
  <2>6. authority' = row /\ history' = Append(history, to)
    BY <1>3, <2>3 DEF TransitionAuthority
  <2> QED BY <2>2, <2>5, <2>6, AuthorityMoves
<1> QED BY <1>1, <1>2, <1>3

-----------------------------------------------------------------------------
(* The connection.                                                         *)

LEMMA ConnectionBegins ==
  ASSUME SourceInv, NEW config \in Configs, CreateConnection(config)
  PROVE  ConnectionFits'
<1>1. ~taskOpen /\ patch = Absent
  BY DEF CreateConnection, SourceInv, ConnectionFits, PatchReady, Absent
<1>2. connection' \in ConnectionRows /\ connection'.state = "planned"
  BY DEF CreateConnection, ConnectionRows, ConnectionStates
<1>3. LookedAt'
  BY DEF CreateConnection, SourceInv, ConnectionFits, LookedAt, Looked
<1>4. PatchReady' /\ Activated'
  BY <1>1, <1>2 DEF CreateConnection, PatchReady, Activated
<1> QED BY <1>1, <1>2, <1>3, <1>4 DEF ConnectionFits, CreateConnection

LEMMA ConnectionRead ==
  ASSUME SourceInv, NEW p \in Persons, ReadConnection(p)
  PROVE  ConnectionFits'
<1>1. /\ connection # Absent /\ UNCHANGED <<connection, reviews, activation, taskOpen, patch>>
      /\ seen' = [seen EXCEPT ![p] = [version |-> connection.version, config |-> connection.config]]
  BY DEF ReadConnection
<1>2. connection \in ConnectionRows /\ seen = [q \in Persons |-> seen[q]]
  BY <1>1 DEF SourceInv, ConnectionFits, LookedAt
<1>3. LookedAt'
  BY <1>1, <1>2 DEF SourceInv, ConnectionFits, LookedAt, Looked, ConnectionRows, SeenRows
<1>4. PatchReady' /\ Activated'
  BY <1>1 DEF SourceInv, ConnectionFits, PatchReady, Activated, assertConnectionTransition,
              assertActivationReviewed, Approved
<1> QED BY <1>1, <1>3, <1>4 DEF SourceInv, ConnectionFits

LEMMA ConnectionReviewed ==
  ASSUME SourceInv, NEW p \in Persons, NEW decision \in {"approved", "rejected"},
         ReviewConnection(p, decision)
  PROVE  ConnectionFits'
<1>1. PICK row : row = [version |-> connection.version, decision |-> decision, by |-> p,
                        looked |-> seen[p].config]
  OBVIOUS
<1>2. /\ connection # Absent /\ patch = Absent /\ UNCHANGED <<connection, seen, activation, taskOpen, patch>>
      /\ seen[p] # Absent /\ seen[p].version = connection.version /\ reviews' = Append(reviews, row)
  BY <1>1 DEF ReviewConnection, assertVersionMatches
<1>3. /\ connection \in ConnectionRows /\ seen[p] \in SeenRows /\ seen[p].config = connection.config
      /\ reviews \in Seq(ReviewRows)
  BY <1>2 DEF SourceInv, ConnectionFits, LookedAt, Looked
<1>4. row \in ReviewRows /\ row.version = connection.version /\ row.looked = connection.config
  BY <1>1, <1>3 DEF ConnectionRows, SeenRows, ReviewRows
<1>5. /\ reviews' \in Seq(ReviewRows) /\ DOMAIN reviews' = DOMAIN reviews \cup {Len(reviews) + 1}
      /\ Len(reviews) + 1 \notin DOMAIN reviews /\ reviews'[Len(reviews) + 1] = row
      /\ \A i \in DOMAIN reviews : reviews'[i] = reviews[i]
  BY <1>2, <1>3, <1>4, AppendedRow
<1>6. LookedAt'
  <2>1. connection.version \in Nat
    BY <1>3 DEF ConnectionRows
  <2>2. \A i \in DOMAIN reviews' : Looked(reviews'[i].version, reviews'[i].looked)
    BY <1>2, <1>4, <1>5, <2>1 DEF SourceInv, ConnectionFits, LookedAt, Looked
  <2> QED BY <1>2, <1>5, <2>2 DEF SourceInv, ConnectionFits, LookedAt, Looked
<1>7. PatchReady'
  BY <1>2 DEF PatchReady
<1>8. Activated'
  BY <1>2, <1>3, <1>4, <1>5 DEF SourceInv, ConnectionFits, Activated, ConnectionRows
<1> QED BY <1>2, <1>6, <1>7, <1>8 DEF SourceInv, ConnectionFits


LEMMA TransitionsFit ==
  ASSUME SourceInv, connection # Absent, NEW to, assertConnectionTransition(to)
  PROVE  /\ to \in ConnectionStates
         /\ taskOpen => to \in {"degraded", "disabled"}
<1>1. connection.state \in ConnectionStates /\ (taskOpen => connection.state \in {"degraded", "disabled"})
  BY DEF SourceInv, ConnectionFits, ConnectionRows
<1> QED BY <1>1 DEF assertConnectionTransition, sourceConnectionMachine, ConnectionStates

LEMMA PatchPrepared ==
  ASSUME SourceInv, NEW p \in Persons, NEW state, NEW config \in Configs,
         PatchConnection(p, state, config)
  PROVE  ConnectionFits'
<1>1. /\ connection # Absent /\ UNCHANGED <<connection, reviews, activation, taskOpen, seen>>
      /\ assertConnectionTransition(state) /\ assertActivationReviewed(p, state, config)
      /\ patch' = [state |-> state, config |-> config, by |-> p]
  BY DEF PatchConnection
<1>2. state \in ConnectionStates
  BY <1>1, TransitionsFit
<1>3. PatchReady'
  BY <1>1, <1>2 DEF PatchReady, assertConnectionTransition, assertActivationReviewed, Approved
<1>4. LookedAt' /\ Activated'
  BY <1>1 DEF SourceInv, ConnectionFits, LookedAt, Looked, Activated
<1> QED BY <1>1, <1>3, <1>4 DEF SourceInv, ConnectionFits

LEMMA LookedStays ==
  ASSUME SourceInv, UNCHANGED <<reviews, seen>>, \A v \in Nat : \A config : Looked(v, config) => Looked(v, config)'
  PROVE  LookedAt'
<1>1. \A i \in DOMAIN reviews : reviews[i] \in ReviewRows
  BY IndexedRows DEF SourceInv, ConnectionFits, LookedAt
<1>2. \A i \in DOMAIN reviews : Looked(reviews[i].version, reviews[i].looked)'
  BY <1>1 DEF SourceInv, ConnectionFits, LookedAt, ReviewRows
<1>3. \A p \in Persons : seen[p] # Absent => seen[p] \in SeenRows /\ Looked(seen[p].version, seen[p].config)'
  BY DEF SourceInv, ConnectionFits, LookedAt, SeenRows
<1>4. /\ seen' = seen /\ reviews' = reviews /\ reviews \in Seq(ReviewRows)
      /\ seen = [p \in Persons |-> seen[p]]
  BY DEF SourceInv, ConnectionFits, LookedAt
<1> QED BY <1>2, <1>3, <1>4 DEF LookedAt, Looked

LEMMA PatchCommitted ==
  ASSUME SourceInv, CommitPatch
  PROVE  ConnectionFits'
<1>1. /\ patch # Absent /\ patch' = Absent /\ UNCHANGED <<reviews, taskOpen, seen>>
      /\ connection' = [state |-> patch.state, version |-> connection.version + 1, config |-> patch.config]
      /\ activation' = IF patch.state = "active" /\ connection.state # "active"
                       THEN [by |-> patch.by, config |-> patch.config, version |-> connection.version]
                       ELSE activation
  BY DEF CommitPatch
<1>2. /\ connection # Absent /\ patch.state \in ConnectionStates /\ patch.config \in Configs
      /\ assertConnectionTransition(patch.state)
      /\ assertActivationReviewed(patch.by, patch.state, patch.config)
  BY <1>1 DEF SourceInv, ConnectionFits, PatchReady
<1>3. connection \in ConnectionRows /\ connection.version \in Nat /\ connection.config \in Configs
  BY <1>2 DEF SourceInv, ConnectionFits, ConnectionRows
<1>4. /\ connection' \in ConnectionRows /\ connection'.version = connection.version + 1
      /\ connection'.state = patch.state /\ connection'.config = patch.config /\ connection' # Absent
  BY <1>1, <1>2, <1>3 DEF ConnectionRows, ConnectionStates, Absent
<1>5. taskOpen' => connection'.state \in {"degraded", "disabled"}
  BY <1>1, <1>2, <1>4, TransitionsFit
<1>6. LookedAt'
  <2>1. \A v \in Nat : \A config : Looked(v, config) => Looked(v, config)'
    BY <1>2, <1>3, <1>4 DEF Looked
  <2> QED BY <1>1, <2>1, LookedStays
<1>7. PatchReady'
  BY <1>1 DEF PatchReady
<1>8. Activated'
  <2>1. CASE connection.state = "active"
    BY <1>1, <1>2, <1>3, <1>4, <2>1 DEF SourceInv, ConnectionFits, Activated, assertActivationReviewed
  <2>2. CASE connection.state # "active" /\ patch.state = "active"
    <3>1. Approved(patch.by) /\ patch.config = connection.config
      BY <1>2, <2>2 DEF assertActivationReviewed
    <3>2. PICK i \in DOMAIN reviews :
             /\ reviews[i].version = connection.version
             /\ reviews[i].decision = "approved" /\ reviews[i].by # patch.by
             /\ \A j \in DOMAIN reviews : reviews[j].version = connection.version => j <= i
      BY <3>1 DEF Approved
    <3>3. reviews[i].looked = connection.config
      BY <3>2 DEF SourceInv, ConnectionFits, LookedAt, Looked
    <3>4. /\ activation'.by = patch.by /\ activation'.config = patch.config
          /\ activation'.version = connection.version
      BY <1>1, <2>2
    <3> QED BY <1>1, <1>3, <1>4, <3>1, <3>2, <3>3, <3>4 DEF Activated
  <2>3. CASE patch.state # "active"
    BY <1>4, <2>3 DEF Activated
  <2> QED BY <2>1, <2>2, <2>3
<1> QED BY <1>4, <1>5, <1>6, <1>7, <1>8 DEF ConnectionFits

LEMMA TaskResolved ==
  ASSUME SourceInv, ResolveTask
  PROVE  ConnectionFits'
<1>1. taskOpen' = FALSE /\ UNCHANGED <<connection, reviews, activation, patch, seen>>
  BY DEF ResolveTask
<1>2. PatchReady'
  BY <1>1 DEF SourceInv, ConnectionFits, PatchReady, assertConnectionTransition, assertActivationReviewed,
              Approved
<1>3. LookedAt' /\ Activated'
  BY <1>1 DEF SourceInv, ConnectionFits, LookedAt, Looked, Activated
<1> QED BY <1>1, <1>2, <1>3 DEF SourceInv, ConnectionFits

\* By the authority, which leaves the version, or by an answer, which moves it.
LEMMA ConnectionDegrades ==
  ASSUME SourceInv, patch = Absent, connection.state = "active", connection # Absent,
         NEW new \in ConnectionRows, connection' = new, new.state = "degraded",
         new.config = connection.config, new.version \in {connection.version, connection.version + 1},
         UNCHANGED <<reviews, activation, patch, seen>>
  PROVE  ConnectionFits'
<1>1. connection.version \in Nat
  BY DEF SourceInv, ConnectionFits, ConnectionRows
<1>2. connection' # Absent
  BY DEF Absent, ConnectionRows, ConnectionStates
<1>3. LookedAt'
  <2>1. \A v \in Nat : \A config : Looked(v, config) => Looked(v, config)'
    BY <1>1, <1>2 DEF Looked
  <2> QED BY <2>1, LookedStays
<1>4. PatchReady' /\ Activated'
  BY DEF PatchReady, Activated
<1> QED BY <1>3, <1>4 DEF ConnectionFits

LEMMA ReceiptsDegrade ==
  ASSUME SourceInv, NEW r, InsertReceipt(r), UNCHANGED <<reviews, activation, patch, seen>>
  PROVE  ConnectionFits'
<1>1. CASE r.result \in degrading /\ connection.state = "active"
  <2>1. connection # Absent /\ patch = Absent
    BY <1>1 DEF InsertReceipt, Absent
  <2>2. connection \in ConnectionRows
    BY <2>1 DEF SourceInv, ConnectionFits
  <2>3. PICK new : new = [connection EXCEPT !.state = "degraded", !.version = @ + 1]
    OBVIOUS
  <2>4. /\ new \in ConnectionRows /\ new.state = "degraded" /\ new.config = connection.config
        /\ new.version = connection.version + 1
    <3>1. PICK n : n = [connection EXCEPT !.state = "degraded"]
      OBVIOUS
    <3>2. n \in ConnectionRows /\ n.state = "degraded" /\ n.config = connection.config
          /\ n.version = connection.version
      BY <2>2, <3>1 DEF ConnectionRows, ConnectionStates
    <3>3. new = [n EXCEPT !.version = connection.version + 1]
      BY <2>3, <3>1
    <3> QED BY <3>2, <3>3 DEF ConnectionRows
  <2>5. connection' = new
    BY <1>1, <2>3 DEF InsertReceipt
  <2> QED BY <1>1, <2>1, <2>4, <2>5, ConnectionDegrades
<1>2. CASE ~(r.result \in degrading /\ connection.state = "active")
  BY <1>2, PartsStay DEF InsertReceipt
<1> QED BY <1>1, <1>2

LEMMA AuthorityDemotes ==
  ASSUME SourceInv, NEW p, NEW to, TransitionAuthority(p, to)
  PROVE  ConnectionFits'
<1>1. UNCHANGED <<reviews, activation, taskOpen, patch, seen>> /\ propagate_authority_state(to)
  BY DEF TransitionAuthority
<1>2. CASE authority.state = "accepted" /\ to # "accepted" /\ connection # Absent
             /\ connection.state = "active"
  <2>1. connection \in ConnectionRows
    BY <1>2 DEF SourceInv, ConnectionFits
  <2>2. PICK new : new = [connection EXCEPT !.state = "degraded"]
    OBVIOUS
  <2>3. /\ new \in ConnectionRows /\ new.state = "degraded" /\ new.config = connection.config
        /\ new.version = connection.version
    BY <2>1, <2>2 DEF ConnectionRows, ConnectionStates
  <2>4. connection' = new /\ patch = Absent
    BY <1>1, <1>2, <2>2 DEF propagate_authority_state
  <2> QED BY <1>1, <1>2, <2>3, <2>4, ConnectionDegrades
<1>3. CASE ~(authority.state = "accepted" /\ to # "accepted" /\ connection # Absent
             /\ connection.state = "active")
  BY <1>1, <1>3, PartsStay DEF propagate_authority_state
<1> QED BY <1>2, <1>3


-----------------------------------------------------------------------------
(* Collection under a key.                                                 *)

LEMMA CollectRow ==
  ASSUME SourceInv, NEW c \in Collects
  PROVE  /\ collect[c] \in CollectRows /\ collect[c].key \in Keys /\ collect[c].query \in Queries
         /\ \A pc \in Steps : /\ [collect[c] EXCEPT !.pc = pc] \in CollectRows
                              /\ [collect[c] EXCEPT !.pc = pc].pc = pc
                              /\ [collect[c] EXCEPT !.pc = pc].key = collect[c].key
                              /\ [collect[c] EXCEPT !.pc = pc].query = collect[c].query
                              /\ [collect[c] EXCEPT !.pc = pc].result = collect[c].result
BY DEF SourceInv, CollectFits, CollectRows

\* A delivery moves on and neither takes nor gives up a key.
LEMMA CollectWalks ==
  ASSUME SourceInv, NEW c \in Collects, NEW row \in CollectRows, collect' = [collect EXCEPT ![c] = row],
         UNCHANGED <<keys, receipts>>, row.key = collect[c].key,
         row.pc \in {"call", "settle", "failing"} => collect[c].pc \in {"call", "settle"},
         row.pc = "settle" => row.result \in Results,
         row.pc \in {"collected", "replayed"} => keys[row.key] = Settled(row.query, row.answer)
  PROVE  KeysFit' /\ CollectFits' /\ KeysAnswer'
<1>1. KeysFit' /\ KeysAnswer'
  BY DEF SourceInv, KeysFit, KeysAnswer
<1>2. /\ collect' \in [Collects -> CollectRows]
      /\ \A d \in Collects : collect'[d] = IF d = c THEN row ELSE collect[d]
  BY DEF SourceInv, CollectFits
<1>3. \A d \in Collects : Holding(d)' => Holding(d) /\ collect'[d].key = collect[d].key
  BY <1>2 DEF Holding
<1>4. ASSUME NEW d \in Collects
      PROVE  /\ collect'[d].pc \in {"call", "settle"} => keys'[collect'[d].key].state = "in_flight"
             /\ collect'[d].pc = "settle" => collect'[d].result \in Results
             /\ collect'[d].pc = "failing" => keys'[collect'[d].key].state \in {"in_flight", "settled"}
             /\ collect'[d].pc \in {"collected", "replayed"} =>
                  keys'[collect'[d].key] = Settled(collect'[d].query, collect'[d].answer)
  BY <1>2 DEF SourceInv, CollectFits
<1> QED BY <1>1, <1>2, <1>3, <1>4 DEF SourceInv, CollectFits

\* Nobody but S rests on key k.
KeyFree(k, S) ==
  /\ \A d \in Collects \ S : collect[d].key = k =>
       collect[d].pc \notin {"call", "settle", "failing", "collected", "replayed"}
  /\ \A i \in DOMAIN receipts : receipts[i].key # Nothing => receipts[i].key # k

LEMMA KeyStates ==
  /\ Absent.state = "absent"
  /\ \A q : InFlight(q).state = "in_flight"
  /\ \A q, n : Settled(q, n).state = "settled" /\ Settled(q, n).query = q /\ Settled(q, n).receipt = n
BY DEF Absent, InFlight, Settled

LEMMA KeysAreFree ==
  ASSUME SourceInv
  PROVE  /\ \A k \in Keys : keys[k] = Absent => KeyFree(k, {})
         /\ \A c \in Collects : Holding(c) => KeyFree(collect[c].key, {c})
<1>1. ASSUME NEW k \in Keys, keys[k] = Absent PROVE KeyFree(k, {})
  <2>1. keys[k].state = "absent"
    BY <1>1, KeyStates
  <2>2. ASSUME NEW d \in Collects, collect[d].key = k
        PROVE  collect[d].pc \notin {"call", "settle", "failing", "collected", "replayed"}
    BY <2>1, <2>2, KeyStates DEF SourceInv, CollectFits
  <2>3. ASSUME NEW i \in DOMAIN receipts, receipts[i].key # Nothing PROVE receipts[i].key # k
    BY <2>1, <2>3, KeyStates DEF SourceInv, KeysAnswer
  <2> QED BY <2>2, <2>3 DEF KeyFree
<1>2. ASSUME NEW c \in Collects, Holding(c) PROVE KeyFree(collect[c].key, {c})
  <2>1. keys[collect[c].key].state = "in_flight"
    BY <1>2 DEF Holding, SourceInv, CollectFits
  <2>2. ASSUME NEW d \in Collects \ {c}, collect[d].key = collect[c].key
        PROVE  collect[d].pc \notin {"call", "settle", "failing", "collected", "replayed"}
    <3>1. ~Holding(d)
      BY <1>2, <2>2 DEF SourceInv, CollectFits
    <3>2. collect[d].pc \in {"collected", "replayed"} => keys[collect[d].key].state = "settled"
      BY KeyStates DEF SourceInv, CollectFits
    <3> QED BY <2>1, <2>2, <3>1, <3>2 DEF Holding
  <2>3. \A i \in DOMAIN receipts : receipts[i].key # Nothing => receipts[i].key # collect[c].key
    BY <2>1, KeyStates DEF SourceInv, KeysAnswer
  <2> QED BY <2>2, <2>3 DEF KeyFree
<1> QED BY <1>1, <1>2

\* A delivery after a step that leaves its key k with the record new, and what the step stores.
RowAgrees(row, k, new) ==
  /\ row.key = k
  /\ row.pc \in {"call", "settle"} => new.state = "in_flight"
  /\ row.pc = "settle" => row.result \in Results
  /\ row.pc = "failing" => new.state \in {"in_flight", "settled"}
  /\ row.pc \in {"collected", "replayed"} => new = Settled(row.query, row.answer)
StoresAnswer(k, new) ==
  /\ new.state = "settled" => new = Settled(new.query, new.receipt) /\ new.receipt \in Nat
  /\ \/ receipts' = receipts
     \/ \E r \in ReceiptRows : /\ receipts' = Append(receipts, r) /\ r.key = k
                               /\ new = Settled(r.query, Len(receipts) + 1)

KeyStep(k, new, S) ==
  /\ keys' = [keys EXCEPT ![k] = new] /\ StoresAnswer(k, new)
  /\ KeyFree(k, S) /\ (\A c, d \in S : c = d)
  /\ collect' \in [Collects -> CollectRows]
  /\ \A d \in Collects \ S : collect'[d] = collect[d]
  /\ \A c \in Collects \cap S : RowAgrees(collect'[c], k, new)

\* A key is reserved, answered or released, by the one delivery in S if by any.
LEMMA KeyMoves ==
  ASSUME SourceInv, NEW k \in Keys, NEW new, NEW S, KeyStep(k, new, S)
  PROVE  KeysFit' /\ CollectFits' /\ KeysAnswer'
<1>0. /\ keys' = [keys EXCEPT ![k] = new] /\ StoresAnswer(k, new) /\ KeyFree(k, S)
      /\ (\A c, d \in S : c = d) /\ collect' \in [Collects -> CollectRows]
      /\ \A d \in Collects \ S : collect'[d] = collect[d]
      /\ \A c \in Collects \cap S : RowAgrees(collect'[c], k, new)
  BY DEF KeyStep
<1>1. /\ keys' = [j \in Keys |-> keys'[j]]
      /\ \A j \in Keys : keys'[j] = IF j = k THEN new ELSE keys[j]
  BY <1>0 DEF SourceInv, KeysFit
<1>2. KeysFit'
  BY <1>0, <1>1 DEF SourceInv, KeysFit, StoresAnswer
<1>3. \A d \in Collects \ S : collect[d].key \in Keys
  BY CollectRow
<1>4. ASSUME NEW d \in Collects
      PROVE  /\ collect'[d].pc \in {"call", "settle"} => keys'[collect'[d].key].state = "in_flight"
             /\ collect'[d].pc = "settle" => collect'[d].result \in Results
             /\ collect'[d].pc = "failing" => keys'[collect'[d].key].state \in {"in_flight", "settled"}
             /\ collect'[d].pc \in {"collected", "replayed"} =>
                  keys'[collect'[d].key] = Settled(collect'[d].query, collect'[d].answer)
  <2>1. CASE d \in S
    BY <1>0, <1>1, <2>1 DEF RowAgrees
  <2>2. CASE d \notin S
    BY <1>0, <1>1, <1>3, <2>2 DEF SourceInv, CollectFits, KeyFree
  <2> QED BY <2>1, <2>2
<1>5. ASSUME NEW c \in Collects, NEW d \in Collects, Holding(c)', Holding(d)', collect'[c].key = collect'[d].key
      PROVE  c = d
  <2>1. \A e \in Collects \ S : Holding(e)' => Holding(e) /\ collect[e].key # k
    <3>1. ASSUME NEW e \in Collects \ S, Holding(e)' PROVE Holding(e) /\ collect[e].key # k
      <4>1. collect'[e] = collect[e] /\ collect[e].pc \in {"call", "settle", "failing"}
        BY <1>0, <3>1 DEF Holding
      <4>2. collect[e].key # k
        BY <1>0, <4>1 DEF KeyFree
      <4>3. keys'[collect[e].key] = keys[collect[e].key]
        BY <1>1, <1>3, <4>2
      <4> QED BY <3>1, <4>1, <4>2, <4>3 DEF Holding
    <3> QED BY <3>1
  <2>2. CASE c \in S \/ d \in S
    BY <1>0, <1>5, <2>1, <2>2 DEF RowAgrees
  <2>3. CASE c \notin S /\ d \notin S
    BY <1>0, <1>5, <2>1, <2>3 DEF SourceInv, CollectFits
  <2> QED BY <2>2, <2>3
<1>6. KeysAnswer'
  <2>1. ASSUME NEW i \in DOMAIN receipts, receipts[i].key # Nothing
        PROVE  receipts[i].key \in Keys /\ keys'[receipts[i].key] = Settled(receipts[i].query, i)
    BY <1>0, <1>1, <2>1 DEF SourceInv, KeysAnswer, KeyFree
  <2>2. CASE receipts' = receipts
    BY <1>0, <2>1, <2>2 DEF KeysAnswer
  <2>3. ASSUME NEW r \in ReceiptRows, receipts' = Append(receipts, r), r.key = k,
               new = Settled(r.query, Len(receipts) + 1)
        PROVE  KeysAnswer'
    <3>1. receipts \in Seq(ReceiptRows)
      BY DEF SourceInv, RecordsFit
    <3>2. /\ DOMAIN receipts' = DOMAIN receipts \cup {Len(receipts) + 1}
          /\ \A i \in DOMAIN receipts : receipts'[i] = receipts[i]
          /\ receipts'[Len(receipts) + 1] = r
      BY <2>3, <3>1, AppendedRow
    <3> QED BY <1>0, <1>1, <2>1, <2>3, <3>2 DEF KeysAnswer
  <2> QED BY <1>0, <2>2, <2>3 DEF StoresAnswer
<1> QED BY <1>0, <1>2, <1>4, <1>5, <1>6 DEF CollectFits

\* A receipt without a key.
LEMMA KeylessReceipt ==
  ASSUME SourceInv, UNCHANGED <<keys, collect>>, NEW r \in ReceiptRows, receipts' = Append(receipts, r),
         r.key = Nothing
  PROVE  KeysFit' /\ CollectFits' /\ KeysAnswer'
<1>1. receipts \in Seq(ReceiptRows)
  BY DEF SourceInv, RecordsFit
<1>2. /\ DOMAIN receipts' = DOMAIN receipts \cup {Len(receipts) + 1}
      /\ \A i \in DOMAIN receipts : receipts'[i] = receipts[i]
      /\ receipts'[Len(receipts) + 1] = r
  BY <1>1, AppendedRow
<1> QED BY <1>2 DEF SourceInv, KeysFit, CollectFits, KeysAnswer, Holding

LEMMA ReserveKeeps ==
  ASSUME SourceInv, NEW c \in Collects, Reserve(c)
  PROVE  KeysFit' /\ CollectFits' /\ KeysAnswer'
<1> DEFINE k == collect[c].key
           q == collect[c].query
<1>1. k \in Keys /\ q \in Queries /\ collect[c] \in CollectRows /\ UNCHANGED receipts /\ collect[c].pc = "reserve"
  BY CollectRow DEF Reserve, evidence
<1>2. CASE /\ keys[k] = Absent /\ keys' = [keys EXCEPT ![k] = InFlight(q)]
           /\ collect' = [collect EXCEPT ![c].pc = "call"]
  <2>1. /\ collect' \in [Collects -> CollectRows] /\ \A d \in Collects \ {c} : collect'[d] = collect[d]
        /\ collect'[c].key = k /\ collect'[c].pc = "call"
    <3>1. PICK row : row = [collect[c] EXCEPT !.pc = "call"]
      OBVIOUS
    <3>2. row \in CollectRows /\ row.pc = "call" /\ row.key = k
      BY <3>1, CollectRow DEF Steps
    <3>3. collect' = [collect EXCEPT ![c] = row]
      BY <1>2, <3>1
    <3>4. collect \in [Collects -> CollectRows]
      BY DEF SourceInv, CollectFits
    <3> QED BY <3>2, <3>3, <3>4
  <2>2. PICK new : new = InFlight(q)
    OBVIOUS
  <2>3. PICK S : S = {c}
    OBVIOUS
  <2>4. PICK l \in Keys : l = k
    BY <1>1
  <2>5. new.state = "in_flight" /\ keys' = [keys EXCEPT ![l] = new]
    BY <1>2, <2>2, <2>4, KeyStates
  <2>6. KeyFree(l, S)
    <3>1. KeyFree(l, {})
      BY <1>2, <2>4, KeysAreFree
    <3> QED BY <3>1 DEF KeyFree
  <2>7. \A a, b \in S : a = b
    BY <2>3
  <2>8. \A d \in Collects \ S : collect'[d] = collect[d]
    BY <2>1, <2>3
  <2>9. \A d \in Collects \cap S : RowAgrees(collect'[d], l, new)
    BY <2>1, <2>3, <2>4, <2>5 DEF RowAgrees
  <2>10. StoresAnswer(l, new)
    BY <1>1, <2>5 DEF StoresAnswer
  <2> QED BY <2>1, <2>5, <2>6, <2>7, <2>8, <2>9, <2>10, KeyMoves DEF KeyStep
<1>3. CASE /\ keys[k].state = "settled" /\ keys[k].query = q /\ UNCHANGED keys
           /\ collect' = [collect EXCEPT ![c].answer = keys[k].receipt, ![c].pc = "replayed"]
  <2>1. keys[k] = Settled(q, keys[k].receipt) /\ keys[k].receipt \in Nat
    BY <1>1, <1>3 DEF SourceInv, KeysFit
  <2>2. PICK r1 : r1 = [collect[c] EXCEPT !.answer = keys[k].receipt]
    OBVIOUS
  <2>3. PICK row : row = [r1 EXCEPT !.pc = "replayed"]
    OBVIOUS
  <2>4. /\ r1 \in CollectRows /\ r1.answer = keys[k].receipt /\ r1.key = k /\ r1.query = q
    BY <1>1, <2>1, <2>2 DEF CollectRows
  <2>5. /\ row \in CollectRows /\ row.answer = keys[k].receipt /\ row.key = k /\ row.query = q
        /\ row.pc = "replayed"
    BY <2>3, <2>4 DEF CollectRows, Steps
  <2>6. collect' = [collect EXCEPT ![c] = row]
    <3>1. collect \in [Collects -> CollectRows]
      BY DEF SourceInv, CollectFits
    <3>2. PICK c1 : c1 = [collect EXCEPT ![c] = r1]
      OBVIOUS
    <3>3. c1 \in [Collects -> CollectRows] /\ c1[c] = r1
      BY <2>4, <3>1, <3>2
    <3>4. collect' = [c1 EXCEPT ![c].pc = "replayed"]
      BY <1>3, <2>2, <3>2, Zenon
    <3>5. [c1 EXCEPT ![c].pc = "replayed"] = [c1 EXCEPT ![c] = row]
      BY <2>3, <3>3
    <3>6. [c1 EXCEPT ![c] = row] = [collect EXCEPT ![c] = row]
      BY <3>1, <3>2
    <3> QED BY <3>4, <3>5, <3>6
  <2>7. row.pc \notin {"call", "settle", "failing", "collected"} /\ row.pc # "settle"
    BY <2>5
  <2>8. keys[row.key] = Settled(row.query, row.answer)
    BY <2>1, <2>5
  <2>9. UNCHANGED <<keys, receipts>> /\ row.key = collect[c].key
    BY <1>1, <1>3, <2>5
  <2> QED BY <2>5, <2>6, <2>7, <2>8, <2>9, CollectWalks
<1>4. CASE UNCHANGED keys /\ collect' = [collect EXCEPT ![c].pc = "refused"]
  <2>1. PICK row : row = [collect[c] EXCEPT !.pc = "refused"]
    OBVIOUS
  <2>2. row \in CollectRows /\ row.pc = "refused" /\ row.key = k
    BY <2>1, CollectRow DEF Steps
  <2>3. collect' = [collect EXCEPT ![c] = row]
    BY <1>4, <2>1
  <2> QED BY <1>1, <1>4, <2>2, <2>3, CollectWalks
<1> QED BY <1>2, <1>3, <1>4 DEF Reserve, Reservable, Replayable, Goto


\* The steps of a delivery that only move it.
LEMMA WalkKeeps ==
  ASSUME SourceInv, NEW c \in Collects, NEW pc \in Steps, Goto(c, pc), UNCHANGED <<keys, receipts>>,
         pc \notin {"call", "settle", "collected", "replayed"},
         pc = "failing" => collect[c].pc \in {"call", "settle"}
  PROVE  KeysFit' /\ CollectFits' /\ KeysAnswer'
<1>1. PICK row : row = [collect[c] EXCEPT !.pc = pc]
  OBVIOUS
<1>2. row \in CollectRows /\ row.pc = pc /\ row.key = collect[c].key
  BY <1>1, CollectRow
<1>3. collect' = [collect EXCEPT ![c] = row]
  BY <1>1 DEF Goto
<1> QED BY <1>2, <1>3, CollectWalks

LEMMA AskKeeps ==
  ASSUME SourceInv, NEW c \in Collects, Ask(c)
  PROVE  /\ KeysFit' /\ CollectFits' /\ KeysAnswer'
         /\ UNCHANGED <<authority, history, reviews, activation, patch, seen, source, checking, connection,
                        taskOpen, receipts, observations, claimsMade>>
         /\ clock' = clock + 1
<1>1. /\ UNCHANGED <<authority, history, reviews, activation, patch, seen, source, checking, connection,
                     taskOpen, receipts, observations, claimsMade, keys>>
      /\ clock' = clock + 1 /\ collect[c].pc = "call"
  BY DEF Ask, outsideCollect, evidence
<1>2. PICK result \in Results, hash \in SourceContents :
        collect' = [collect EXCEPT ![c].result = result, ![c].hash = hash, ![c].at = clock, ![c].pc = "settle"]
  <2>1. collect[c].query \in Queries /\ Nothing \in SourceContents
    BY CollectRow DEF SourceContents
  <2>2. source[collect[c].query] \in SourceContents
    BY <2>1 DEF SourceInv, RecordsFit
  <2>3. {"confirmed_from_source", "source_returned_no_record", "source_unavailable"} \subseteq Results
    BY DEF Results
  <2> QED BY <2>1, <2>2, <2>3 DEF Ask
<1>3. PICK r1 : r1 = [collect[c] EXCEPT !.result = result]
  OBVIOUS
<1>4. PICK r2 : r2 = [r1 EXCEPT !.hash = hash]
  OBVIOUS
<1>5. PICK r3 : r3 = [r2 EXCEPT !.at = clock]
  OBVIOUS
<1>6. PICK row : row = [r3 EXCEPT !.pc = "settle"]
  OBVIOUS
<1>7. clock \in Nat /\ collect[c] \in CollectRows
  BY CollectRow DEF SourceInv, RecordsFit
<1>8. r1 \in CollectRows /\ r1.result = result /\ r1.key = collect[c].key
  BY <1>3, <1>7 DEF CollectRows
<1>9. r2 \in CollectRows /\ r2.result = result /\ r2.key = collect[c].key
  BY <1>4, <1>8 DEF CollectRows
<1>10. r3 \in CollectRows /\ r3.result = result /\ r3.key = collect[c].key
  BY <1>5, <1>7, <1>9 DEF CollectRows
<1>11. row \in CollectRows /\ row.result = result /\ row.key = collect[c].key /\ row.pc = "settle"
  BY <1>6, <1>10 DEF CollectRows, Steps
<1>12. collect' = [collect EXCEPT ![c] = row]
  BY <1>2, <1>3, <1>4, <1>5, <1>6
<1>13. KeysFit' /\ CollectFits' /\ KeysAnswer'
  BY <1>1, <1>11, <1>12, CollectWalks
<1> QED BY <1>1, <1>13

LEMMA SettledReceipt ==
  ASSUME SourceInv, NEW c \in Collects, SettleWrites(c)
  PROVE  \E r \in ReceiptRows :
           /\ r.via = "adapter" /\ r.key = collect[c].key /\ r.query = collect[c].query /\ r.supersedes = 0
           /\ InsertReceipt(r) /\ recordSourceObservation(r)
           /\ keys' = [keys EXCEPT ![r.key] = Settled(r.query, Len(receipts) + 1)]
           /\ collect[c].pc = "settle"
<1>1. collect[c] \in CollectRows /\ collect[c].pc = "settle" /\ collect[c].result \in Results
  BY CollectRow DEF SettleWrites, SourceInv, CollectFits
<1>2. PICK r : r = Receipt("adapter", collect[c].key, collect[c].query, collect[c].result,
                           collect[c].hash, collect[c].at)
  OBVIOUS
<1>3. r \in ReceiptRows
  BY <1>1, <1>2 DEF Receipt, ReceiptRows, CollectRows
<1>4. r.via = "adapter" /\ r.key = collect[c].key /\ r.query = collect[c].query /\ r.supersedes = 0
  BY <1>2 DEF Receipt
<1>5. /\ InsertReceipt(r) /\ recordSourceObservation(r)
      /\ keys' = [keys EXCEPT ![collect[c].key] = Settled(collect[c].query, Len(receipts) + 1)]
  BY <1>2 DEF SettleWrites, completeIdempotency
<1> QED BY <1>1, <1>3, <1>4, <1>5

LEMMA SettleKeeps ==
  ASSUME SourceInv, NEW c \in Collects, SettleWrites(c),
         \/ collect' = [collect EXCEPT ![c].answer = Len(receipts) + 1, ![c].pc = "collected"]
         \/ Goto(c, "failing")
  PROVE  KeysFit' /\ CollectFits' /\ KeysAnswer'
<1>1. PICK r \in ReceiptRows :
           /\ r.via = "adapter" /\ r.key = collect[c].key /\ r.query = collect[c].query /\ r.supersedes = 0
           /\ InsertReceipt(r) /\ recordSourceObservation(r)
           /\ keys' = [keys EXCEPT ![r.key] = Settled(r.query, Len(receipts) + 1)]
           /\ collect[c].pc = "settle"
  BY SettledReceipt
<1>2. PICK new : new = Settled(r.query, Len(receipts) + 1)
  OBVIOUS
<1>3. PICK S : S = {c}
  OBVIOUS
<1>4. PICK k \in Keys : k = collect[c].key
  BY CollectRow
<1>5. Len(receipts) + 1 \in Nat
  BY IndexedRows DEF SourceInv, RecordsFit
<1>6. StoresAnswer(k, new)
  <2>1. receipts' = Append(receipts, r)
    BY <1>1 DEF InsertReceipt
  <2>2. new.state = "settled" => new = Settled(new.query, new.receipt) /\ new.receipt \in Nat
    BY <1>2, <1>5, KeyStates
  <2> QED BY <1>1, <1>2, <1>4, <2>1, <2>2 DEF StoresAnswer
<1>7. KeyFree(k, S)
  BY <1>1, <1>3, <1>4, KeysAreFree DEF Holding
<1>8. PICK row : collect' = [collect EXCEPT ![c] = row] /\ row \in CollectRows /\ RowAgrees(row, k, new)
  <2>1. collect[c] \in CollectRows
    BY CollectRow
  <2>2. CASE collect' = [collect EXCEPT ![c].answer = Len(receipts) + 1, ![c].pc = "collected"]
    <3>1. PICK r1 : r1 = [collect[c] EXCEPT !.answer = Len(receipts) + 1]
      OBVIOUS
    <3>2. PICK row : row = [r1 EXCEPT !.pc = "collected"]
      OBVIOUS
    <3>3. r1 \in CollectRows /\ r1.answer = Len(receipts) + 1 /\ r1.key = k /\ r1.query = r.query
      BY <1>1, <1>4, <1>5, <2>1, <3>1 DEF CollectRows
    <3>4. /\ row \in CollectRows /\ row.answer = Len(receipts) + 1 /\ row.key = k /\ row.query = r.query
          /\ row.pc = "collected"
      BY <3>2, <3>3 DEF CollectRows, Steps
    <3>5. collect' = [collect EXCEPT ![c] = row]
      BY <2>2, <3>1, <3>2
    <3>6. RowAgrees(row, k, new)
      BY <1>2, <3>4 DEF RowAgrees
    <3> QED BY <3>4, <3>5, <3>6
  <2>3. CASE Goto(c, "failing")
    <3>1. PICK row : row = [collect[c] EXCEPT !.pc = "failing"]
      OBVIOUS
    <3>2. row \in CollectRows /\ row.pc = "failing" /\ row.key = k
      BY <1>4, <2>1, <3>1 DEF CollectRows, Steps
    <3>3. RowAgrees(row, k, new)
      BY <1>2, <3>2, KeyStates DEF RowAgrees
    <3> QED BY <2>3, <3>1, <3>2, <3>3 DEF Goto
  <2> QED BY <2>2, <2>3
<1>9. collect' \in [Collects -> CollectRows]
  BY <1>8 DEF SourceInv, CollectFits
<1>10. \A d \in Collects \ S : collect'[d] = collect[d]
  BY <1>3, <1>8 DEF SourceInv, CollectFits
<1>11. \A d \in Collects \cap S : RowAgrees(collect'[d], k, new)
  BY <1>3, <1>8 DEF SourceInv, CollectFits
<1>12. keys' = [keys EXCEPT ![k] = new]
  BY <1>1, <1>2, <1>4
<1>13. \A a, b \in S : a = b
  BY <1>3
<1>14. KeyStep(k, new, S)
  BY <1>6, <1>7, <1>9, <1>10, <1>11, <1>12, <1>13 DEF KeyStep
<1> QED BY <1>14, KeyMoves

LEMMA ReleaseKeeps ==
  ASSUME SourceInv, NEW c \in Collects, releaseIdempotencyAfterFailure(c)
  PROVE  KeysFit' /\ CollectFits' /\ KeysAnswer'
<1>1. /\ collect[c].pc = "failing" /\ UNCHANGED receipts /\ Goto(c, "failed")
      /\ keys' = releaseIdempotency(collect[c].key)
  BY DEF releaseIdempotencyAfterFailure, evidence
<1>2. CASE keys[collect[c].key].state # "in_flight"
  <2>1. UNCHANGED keys
    BY <1>1, <1>2 DEF releaseIdempotency
  <2> QED BY <1>1, <2>1, WalkKeeps DEF Steps
<1>3. CASE keys[collect[c].key].state = "in_flight"
  <2>1. PICK k \in Keys : k = collect[c].key
    BY CollectRow
  <2>2. PICK new : new = Absent
    OBVIOUS
  <2>3. PICK S : S = {c}
    OBVIOUS
  <2>4. keys' = [keys EXCEPT ![k] = new]
    BY <1>1, <1>3, <2>1, <2>2 DEF releaseIdempotency
  <2>5. StoresAnswer(k, new)
    BY <1>1, <2>2, KeyStates DEF StoresAnswer
  <2>6. KeyFree(k, S)
    BY <1>1, <1>3, <2>1, <2>3, KeysAreFree DEF Holding
  <2>7. PICK row : row = [collect[c] EXCEPT !.pc = "failed"]
    OBVIOUS
  <2>8. row \in CollectRows /\ row.pc = "failed" /\ row.key = k
    BY <2>1, <2>7, CollectRow DEF Steps
  <2>9. RowAgrees(row, k, new)
    BY <2>8 DEF RowAgrees
  <2>10. collect' \in [Collects -> CollectRows]
    BY <1>1, <2>7, <2>8 DEF SourceInv, CollectFits, Goto
  <2>11. \A d \in Collects \ S : collect'[d] = collect[d]
    BY <1>1, <2>3 DEF SourceInv, CollectFits, Goto
  <2>12. \A d \in Collects \cap S : RowAgrees(collect'[d], k, new)
    BY <1>1, <2>3, <2>7, <2>9 DEF SourceInv, CollectFits, Goto
  <2>13. \A a, b \in S : a = b
    BY <2>3
  <2>14. KeyStep(k, new, S)
    BY <2>4, <2>5, <2>6, <2>10, <2>11, <2>12, <2>13 DEF KeyStep
  <2> QED BY <2>14, KeyMoves
<1> QED BY <1>2, <1>3

LEMMA HandWrittenReceipt ==
  ASSUME SourceInv, NEW p \in Persons, NEW k \in Keys, NEW q \in Queries, NEW result \in ManualResults,
         CreateReceipt(p, k, q, result)
  PROVE  /\ KeysFit' /\ CollectFits' /\ KeysAnswer'
         /\ \E r \in ReceiptRows : /\ r.result = result /\ r.supersedes = 0
                                   /\ InsertReceipt(r) /\ receipts' = Append(receipts, r)
<1>1. PICK r0 : r0 = Receipt("manual", k, q, result, Nothing, clock)
  OBVIOUS
<1>2. PICK r : r = [r0 EXCEPT !.first = p]
  OBVIOUS
<1>3. clock \in Nat /\ result \in Results /\ Nothing \in SourceContents
  BY DEF SourceInv, RecordsFit, Results, SourceContents
<1>4. r0 \in ReceiptRows /\ r0.key = k /\ r0.query = q /\ r0.result = result /\ r0.supersedes = 0
  BY <1>1, <1>3 DEF Receipt, ReceiptRows
<1>5. r \in ReceiptRows /\ r.key = k /\ r.query = q /\ r.result = result /\ r.supersedes = 0
  BY <1>2, <1>4 DEF ReceiptRows
<1>6. InsertReceipt(r) /\ receipts' = Append(receipts, r)
  BY <1>1, <1>2 DEF CreateReceipt, InsertReceipt
<1>7. PICK new : new = Settled(q, Len(receipts) + 1)
  OBVIOUS
<1>8. PICK S : S = {}
  OBVIOUS
<1>9. /\ keys' = [keys EXCEPT ![k] = new] /\ keys[k] = Absent /\ UNCHANGED collect
  BY <1>7 DEF CreateReceipt
<1>10. Len(receipts) + 1 \in Nat
  BY IndexedRows DEF SourceInv, RecordsFit
<1>11. StoresAnswer(k, new)
  <2>1. new.state = "settled" => new = Settled(new.query, new.receipt) /\ new.receipt \in Nat
    BY <1>7, <1>10, KeyStates
  <2> QED BY <1>5, <1>6, <1>7, <2>1 DEF StoresAnswer
<1>12. KeyFree(k, S)
  BY <1>8, <1>9, KeysAreFree
<1>13. collect' \in [Collects -> CollectRows]
  BY <1>9 DEF SourceInv, CollectFits
<1>14. \A d \in Collects \ S : collect'[d] = collect[d]
  BY <1>9
<1>15. \A d \in Collects \cap S : RowAgrees(collect'[d], k, new)
  BY <1>8
<1>16. \A a, b \in S : a = b
  BY <1>8
<1>17. keys' = [keys EXCEPT ![k] = new]
  BY <1>9
<1>18. KeyStep(k, new, S)
  BY <1>11, <1>12, <1>13, <1>14, <1>15, <1>16, <1>17 DEF KeyStep
<1>19. KeysFit' /\ CollectFits' /\ KeysAnswer'
  BY <1>18, KeyMoves
<1> QED BY <1>5, <1>6, <1>19


-----------------------------------------------------------------------------
(* Receipts by hand.                                                       *)

LEMMA HandsAppend ==
  ASSUME SourceInv, NEW r \in ReceiptRows, receipts' = Append(receipts, r), checking' \subseteq checking,
         r.via = "manual" /\ r.result = "confirmed_from_source" => r.second \notin {Nobody, r.first},
         r.supersedes # 0 => \A i \in DOMAIN receipts : receipts[i].supersedes # r.supersedes
  PROVE  HandsFit'
<1>1. receipts \in Seq(ReceiptRows)
  BY DEF SourceInv, RecordsFit
<1>2. /\ DOMAIN receipts' = DOMAIN receipts \cup {Len(receipts) + 1}
      /\ \A i \in DOMAIN receipts : receipts'[i] = receipts[i]
      /\ receipts'[Len(receipts) + 1] = r
  BY <1>1, AppendedRow
<1> QED BY <1>2 DEF SourceInv, HandsFit

LEMMA SecondReviewBegins ==
  ASSUME SourceInv, NEW p \in Persons, NEW i \in DOMAIN receipts, NEW n, StartSecondReview(p, i, n)
  PROVE  HandsFit'
<1>1. /\ UNCHANGED receipts /\ receipts[i].via = "manual" /\ p # receipts[i].first
      /\ checking' = checking \cup {[by |-> p, of |-> i, request |-> n]}
  BY DEF StartSecondReview, evidence, checkSecondReview
<1> QED BY <1>1 DEF SourceInv, HandsFit

LEMMA SecondReviewReceipt ==
  ASSUME SourceInv, NEW check \in checking, NEW result \in {"confirmed_from_source", "conflicting"},
         FinishSecondReview(check, result), NotFollowedUp(check.of)
  PROVE  \E r \in ReceiptRows :
           /\ r.key = Nothing /\ InsertReceipt(r) /\ receipts' = Append(receipts, r)
           /\ r.second \notin {Nobody, r.first}
           /\ \A i \in DOMAIN receipts : receipts[i].supersedes # r.supersedes
<1> DEFINE i == check.of
<1>1. i \in DOMAIN receipts /\ check.by \in Persons /\ check.by # receipts[i].first
  BY DEF SourceInv, HandsFit
<1>2. /\ receipts[i] \in ReceiptRows /\ i \in Nat /\ clock \in Nat /\ result \in Results
  BY <1>1, IndexedRows DEF SourceInv, RecordsFit, Results
<1>3. PICK r1 : r1 = [receipts[i] EXCEPT !.key = Nothing]
  OBVIOUS
<1>4. PICK r2 : r2 = [r1 EXCEPT !.result = result]
  OBVIOUS
<1>5. PICK r3 : r3 = [r2 EXCEPT !.at = clock]
  OBVIOUS
<1>6. PICK r4 : r4 = [r3 EXCEPT !.second = check.by]
  OBVIOUS
<1>7. PICK r : r = [r4 EXCEPT !.supersedes = i]
  OBVIOUS
<1>8. r1 \in ReceiptRows /\ r1.key = Nothing /\ r1.first = receipts[i].first
  BY <1>2, <1>3 DEF ReceiptRows
<1>9. r2 \in ReceiptRows /\ r2.key = Nothing /\ r2.first = receipts[i].first
  BY <1>2, <1>4, <1>8 DEF ReceiptRows
<1>10. r3 \in ReceiptRows /\ r3.key = Nothing /\ r3.first = receipts[i].first
  BY <1>2, <1>5, <1>9 DEF ReceiptRows
<1>11. r4 \in ReceiptRows /\ r4.key = Nothing /\ r4.first = receipts[i].first /\ r4.second = check.by
  BY <1>1, <1>6, <1>10 DEF ReceiptRows
<1>12. /\ r \in ReceiptRows /\ r.key = Nothing /\ r.first = receipts[i].first /\ r.second = check.by
       /\ r.supersedes = i
  BY <1>2, <1>7, <1>11 DEF ReceiptRows
<1>13. InsertReceipt([receipts[i] EXCEPT !.key = Nothing, !.result = result, !.at = clock,
                                         !.second = check.by, !.supersedes = i])
  BY DEF FinishSecondReview
<1>14. InsertReceipt(r) /\ receipts' = Append(receipts, r)
  BY <1>3, <1>4, <1>5, <1>6, <1>7, <1>13 DEF InsertReceipt
<1>15. \A j \in DOMAIN receipts : receipts[j].supersedes # r.supersedes
  BY <1>12 DEF NotFollowedUp, FollowUps
<1> QED BY <1>1, <1>12, <1>14, <1>15, PersonsAssumption

-----------------------------------------------------------------------------
(* Observations and claims.                                                *)

\* Claims stay what they are, but for going stale.
ClaimsKeep ==
  /\ claimsMade' \in Seq(ClaimRows) /\ DOMAIN claimsMade' = DOMAIN claimsMade
  /\ \A c \in DOMAIN claimsMade :
       /\ claimsMade'[c].receipt = claimsMade[c].receipt /\ claimsMade'[c].after = claimsMade[c].after
       /\ claimsMade[c].stale => claimsMade'[c].stale

LEMMA ClaimsGoStale ==
  ASSUME SourceInv, claimsMade' = [c \in DOMAIN claimsMade |-> claimsMade'[c]],
         \A c \in DOMAIN claimsMade :
           claimsMade'[c] \in {claimsMade[c], [claimsMade[c] EXCEPT !.stale = TRUE]}
  PROVE  ClaimsKeep
<1>1. claimsMade \in Seq(ClaimRows) /\ \A c \in DOMAIN claimsMade : claimsMade[c] \in ClaimRows
  BY IndexedRows DEF SourceInv, RecordsFit
<1>2. \A c \in DOMAIN claimsMade :
        /\ claimsMade'[c] \in ClaimRows
        /\ claimsMade'[c].receipt = claimsMade[c].receipt /\ claimsMade'[c].after = claimsMade[c].after
        /\ claimsMade[c].stale => claimsMade'[c].stale
  BY <1>1 DEF ClaimRows
<1>3. claimsMade' \in Seq(ClaimRows) /\ DOMAIN claimsMade' = DOMAIN claimsMade
  BY <1>1, <1>2, RewrittenRows
<1> QED BY <1>2, <1>3 DEF ClaimsKeep

LEMMA ClaimsUnchanged ==
  ASSUME SourceInv, UNCHANGED claimsMade PROVE ClaimsKeep
BY DEF SourceInv, RecordsFit, ClaimsKeep

LEMMA ConnectionTakesClaims ==
  ASSUME SourceInv, claimsMade' = propagate_connection_to_claims PROVE ClaimsKeep
<1>1. /\ claimsMade' = [c \in DOMAIN claimsMade |-> claimsMade'[c]]
      /\ \A c \in DOMAIN claimsMade :
           claimsMade'[c] \in {claimsMade[c], [claimsMade[c] EXCEPT !.stale = TRUE]}
  BY DEF propagate_connection_to_claims, StaleIf
<1> QED BY <1>1, ClaimsGoStale

LEMMA OutdatedClaims ==
  ASSUME SourceInv, NEW r, recordSourceObservation(r)
  PROVE  ClaimsKeep /\ \A c \in DOMAIN claimsMade : Outdates(r, claimsMade[c]) => claimsMade'[c].stale
<1>1. /\ claimsMade' = [c \in DOMAIN claimsMade |-> claimsMade'[c]]
      /\ \A c \in DOMAIN claimsMade :
           /\ claimsMade'[c] \in {claimsMade[c], [claimsMade[c] EXCEPT !.stale = TRUE]}
           /\ Outdates(r, claimsMade[c]) => claimsMade'[c] = [claimsMade[c] EXCEPT !.stale = TRUE]
  BY DEF recordSourceObservation, StaleIf
<1>2. \A c \in DOMAIN claimsMade : claimsMade[c] \in ClaimRows
  BY IndexedRows DEF SourceInv, RecordsFit
<1>3. \A c \in DOMAIN claimsMade : [claimsMade[c] EXCEPT !.stale = TRUE].stale = TRUE
  BY <1>2 DEF ClaimRows
<1> QED BY <1>1, <1>3, ClaimsGoStale

\* No step but the answer of a source adds an observation.
LEMMA RecordsStay ==
  ASSUME SourceInv, ClaimsKeep, UNCHANGED <<source, observations>>, clock' \in Nat,
         \/ receipts' = receipts
         \/ \E r \in ReceiptRows : receipts' = Append(receipts, r)
  PROVE  RecordsFit' /\ InOrder' /\ ClaimsAgree'
<1>1. /\ receipts' \in Seq(ReceiptRows) /\ DOMAIN receipts \subseteq DOMAIN receipts'
      /\ \A i \in DOMAIN receipts : receipts'[i] = receipts[i]
  <2>1. receipts \in Seq(ReceiptRows)
    BY DEF SourceInv, RecordsFit
  <2>2. CASE receipts' = receipts
    BY <2>1, <2>2
  <2>3. ASSUME NEW r \in ReceiptRows, receipts' = Append(receipts, r)
        PROVE  /\ receipts' \in Seq(ReceiptRows) /\ DOMAIN receipts \subseteq DOMAIN receipts'
               /\ \A i \in DOMAIN receipts : receipts'[i] = receipts[i]
    BY <2>1, <2>3, AppendedRow
  <2> QED BY <2>2, <2>3
<1>2. RecordsFit'
  BY <1>1 DEF SourceInv, RecordsFit, ClaimsKeep
<1>3. InOrder'
  BY DEF SourceInv, InOrder, Effective
<1>4. ASSUME NEW c \in DOMAIN claimsMade, NEW o \in DOMAIN observations, Effective(o) PROVE AgreesWith(c, o)'
  <2>1. /\ observations[o].receipt \in DOMAIN receipts /\ claimsMade[c].receipt \in DOMAIN receipts \cup {0}
        /\ AgreesWith(c, o)
    BY <1>4 DEF SourceInv, RecordsFit, ClaimsAgree
  <2>2. /\ claimsMade'[c].receipt = claimsMade[c].receipt /\ claimsMade'[c].after = claimsMade[c].after
        /\ claimsMade[c].stale => claimsMade'[c].stale
    BY DEF ClaimsKeep
  <2> QED BY <1>1, <2>1, <2>2 DEF AgreesWith, Effective
<1>5. ClaimsAgree'
  BY <1>4 DEF ClaimsAgree, ClaimsKeep, Effective
<1> QED BY <1>2, <1>3, <1>5

LEMMA ClaimRests ==
  ASSUME SourceInv, NEW i \in DOMAIN receipts \cup {0}, CreateClaim(i)
  PROVE  RecordsFit' /\ InOrder' /\ ClaimsAgree'
<1>1. PICK row : row = [receipt |-> i, stale |-> FALSE, after |-> Len(observations)]
  OBVIOUS
<1>2. /\ claimsMade' = Append(claimsMade, row) /\ UNCHANGED <<receipts, observations, clock, source>>
  BY <1>1 DEF CreateClaim
<1>3. /\ claimsMade \in Seq(ClaimRows) /\ DOMAIN observations = 1 .. Len(observations)
      /\ Len(observations) \in Nat /\ i \in Nat
  BY IndexedRows DEF SourceInv, RecordsFit
<1>4. row \in ClaimRows /\ row.receipt = i /\ row.after = Len(observations)
  BY <1>1, <1>3 DEF ClaimRows
<1>5. /\ claimsMade' \in Seq(ClaimRows) /\ DOMAIN claimsMade' = DOMAIN claimsMade \cup {Len(claimsMade) + 1}
      /\ \A c \in DOMAIN claimsMade : claimsMade'[c] = claimsMade[c]
      /\ claimsMade'[Len(claimsMade) + 1] = row
  BY <1>2, <1>3, <1>4, AppendedRow
<1>6. RecordsFit'
  BY <1>2, <1>4, <1>5 DEF SourceInv, RecordsFit
<1>7. InOrder'
  BY <1>2 DEF SourceInv, InOrder, Effective
<1>8. ASSUME NEW c \in DOMAIN claimsMade', NEW o \in DOMAIN observations, Effective(o) PROVE AgreesWith(c, o)'
  <2>1. CASE c \in DOMAIN claimsMade
    <3>1. AgreesWith(c, o)
      BY <1>8, <2>1 DEF SourceInv, ClaimsAgree
    <3> QED BY <1>2, <1>5, <2>1, <3>1 DEF AgreesWith, Effective
  <2>2. CASE c = Len(claimsMade) + 1
    BY <1>2, <1>3, <1>4, <1>5, <2>2 DEF AgreesWith
  <2> QED BY <1>5, <2>1, <2>2
<1> QED BY <1>2, <1>6, <1>7, <1>8 DEF ClaimsAgree, Effective


\* An answer that is known before is found, whatever came after it.
LEMMA PreviousFound ==
  ASSUME SourceInv, NEW r, NEW e \in DOMAIN observations, observations[e].query = r.query,
         observations[e].outcome \in Successful
  PROVE  PreviousAnswer(r) # {}
<1>1. PICK T : T = {o \in DOMAIN observations : observations[o].query = r.query
                                               /\ observations[o].outcome \in Successful}
  OBVIOUS
<1>2. /\ DOMAIN observations = 1 .. Len(observations) /\ Len(observations) \in Nat
      /\ \A o \in DOMAIN observations : observations[o] \in ObservationRows
  BY IndexedRows DEF SourceInv, RecordsFit
<1>3. T \subseteq 1 .. Len(observations) /\ T # {}
  BY <1>1, <1>2
<1>4. PICK x \in T : \A y \in T : y <= x
  BY <1>2, <1>3, LargestOf
<1>5. ASSUME NEW y \in T
      PROVE  observations[y].at < observations[x].at \/ (observations[y].at = observations[x].at /\ y <= x)
  <2>1. /\ x \in DOMAIN observations /\ y \in DOMAIN observations /\ Effective(x) /\ Effective(y)
        /\ observations[x].query = observations[y].query
    BY <1>1 DEF Successful, Effective
  <2>2. y < x => observations[y].at <= observations[x].at
    BY <2>1 DEF SourceInv, InOrder
  <2>3. observations[x].at \in Nat /\ observations[y].at \in Nat /\ x \in Nat /\ y \in Nat
    BY <1>2, <2>1 DEF ObservationRows
  <2> QED BY <1>4, <2>2, <2>3
<1>6. x \in T /\ \A j \in T : observations[j].at < observations[x].at
                            \/ (observations[j].at = observations[x].at /\ j <= x)
  BY <1>4, <1>5
<1>7. observations[x].receipt \in PreviousAnswer(r)
  <2>1. PICK found : found = Newest(T, LAMBDA o : observations[o].at)
    OBVIOUS
  <2>2. x \in found
    BY <1>6, <2>1 DEF Newest
  <2> QED BY <1>1, <2>1, <2>2 DEF PreviousAnswer, Newest
<1> QED BY <1>7

LEMMA OutcomeTells ==
  ASSUME NEW r
  PROVE  /\ Outcome(r) \in {"baseline", "unchanged", "changed", "no_record", "unavailable", "out_of_order"}
         /\ Outcome(r) # "out_of_order" => ~Late(r)
BY DEF Outcome

LEMMA AnswerRecorded ==
  ASSUME SourceInv, NEW r \in ReceiptRows, receipts' = Append(receipts, r), recordSourceObservation(r),
         UNCHANGED <<source, clock>>
  PROVE  RecordsFit' /\ InOrder' /\ ClaimsAgree'
<1>1. PICK obs : obs = [receipt |-> Len(receipts) + 1, query |-> r.query, at |-> r.at, outcome |-> Outcome(r)]
  OBVIOUS
<1>2. observations' = Append(observations, obs)
  BY <1>1 DEF recordSourceObservation
<1>3. ClaimsKeep /\ \A c \in DOMAIN claimsMade : Outdates(r, claimsMade[c]) => claimsMade'[c].stale
  BY OutdatedClaims
<1>4. /\ receipts \in Seq(ReceiptRows) /\ observations \in Seq(ObservationRows)
      /\ Len(receipts) + 1 \in Nat /\ r.query \in Queries /\ r.at \in Nat
  BY IndexedRows DEF SourceInv, RecordsFit, ReceiptRows
<1>5. /\ obs \in ObservationRows /\ obs.receipt = Len(receipts) + 1 /\ obs.query = r.query /\ obs.at = r.at
      /\ obs.outcome = Outcome(r)
  BY <1>1, <1>4, OutcomeTells DEF ObservationRows
<1>6. /\ receipts' \in Seq(ReceiptRows) /\ DOMAIN receipts' = DOMAIN receipts \cup {Len(receipts) + 1}
      /\ \A i \in DOMAIN receipts : receipts'[i] = receipts[i]
      /\ receipts'[Len(receipts) + 1] = r
  BY <1>4, AppendedRow
<1>0. PICK n : n = Len(observations) + 1
  OBVIOUS
<1>7. /\ observations' \in Seq(ObservationRows) /\ DOMAIN observations' = DOMAIN observations \cup {n}
      /\ n \notin DOMAIN observations /\ observations'[n] = obs
      /\ \A o \in DOMAIN observations : observations'[o] = observations[o]
  BY <1>0, <1>2, <1>4, <1>5, AppendedRow
<1>8. /\ DOMAIN observations = 1 .. Len(observations) /\ Len(observations) \in Nat
      /\ \A o \in DOMAIN observations : observations[o] \in ObservationRows
  BY <1>4, IndexedRows
<1>9. RecordsFit'
  BY <1>3, <1>5, <1>6, <1>7 DEF SourceInv, RecordsFit, ClaimsKeep
<1>10. InOrder'
  <2>1. ASSUME NEW o \in DOMAIN observations, Effective(o), Outcome(r) # "out_of_order",
               observations[o].query = r.query
        PROVE  observations[o].at <= r.at
    <3>1. ~(r.at < observations[o].at)
      BY <2>1, OutcomeTells DEF Late, Effective
    <3>2. observations[o].at \in Nat
      BY <1>8 DEF ObservationRows
    <3> QED BY <1>4, <3>1, <3>2
  <2>2. ASSUME NEW o \in DOMAIN observations', NEW e \in DOMAIN observations', Effective(o)', Effective(e)',
               observations'[o].query = observations'[e].query, o < e
        PROVE  observations'[o].at <= observations'[e].at
    <3>1. o \in DOMAIN observations
      BY <1>0, <1>7, <1>8, <2>2
    <3>2. CASE e \in DOMAIN observations
      BY <1>7, <2>2, <3>1, <3>2 DEF SourceInv, InOrder, Effective
    <3>3. CASE e = n
      BY <1>5, <1>7, <2>1, <2>2, <3>1, <3>3 DEF Effective
    <3> QED BY <1>7, <3>2, <3>3
  <2> QED BY <2>2 DEF InOrder
<1>11. ASSUME NEW c \in DOMAIN claimsMade, NEW o \in DOMAIN observations, Effective(o) PROVE AgreesWith(c, o)'
  <2>1. /\ observations[o].receipt \in DOMAIN receipts /\ claimsMade[c].receipt \in DOMAIN receipts \cup {0}
        /\ AgreesWith(c, o)
    BY <1>11 DEF SourceInv, RecordsFit, ClaimsAgree
  <2>2. /\ claimsMade'[c].receipt = claimsMade[c].receipt /\ claimsMade'[c].after = claimsMade[c].after
        /\ claimsMade[c].stale => claimsMade'[c].stale
    BY <1>3 DEF ClaimsKeep
  <2>3. \A e : e \in DOMAIN observations' /\ e < o => e \in DOMAIN observations
    BY <1>0, <1>7, <1>8
  <2> QED BY <1>6, <1>7, <2>1, <2>2, <2>3 DEF AgreesWith, Effective
<1>12. ASSUME NEW c \in DOMAIN claimsMade, Outcome(r) # "out_of_order" PROVE AgreesWith(c, n)'
  <2>1. /\ claimsMade'[c].receipt = claimsMade[c].receipt /\ claimsMade[c].receipt \in DOMAIN receipts \cup {0}
    BY <1>3 DEF ClaimsKeep, SourceInv, RecordsFit
  <2>2. SUFFICES ASSUME claimsMade[c].receipt # 0, ~claimsMade'[c].stale,
                        receipts[claimsMade[c].receipt].query = r.query,
                        receipts[claimsMade[c].receipt].at < r.at
                 PROVE  /\ Outcome(r) = "changed" => receipts[claimsMade[c].receipt].hash = r.hash
                        /\ Outcome(r) = "no_record" =>
                             ~\E e \in DOMAIN observations : /\ observations[e].query = r.query
                                                             /\ observations[e].outcome \in Successful
    <3>1. \A e : e \in DOMAIN observations' /\ e < n => e \in DOMAIN observations
      BY <1>0, <1>7, <1>8
    <3> QED BY <1>5, <1>6, <1>7, <2>1, <3>1 DEF AgreesWith, Effective
  <2>3. receipts[claimsMade[c].receipt].at <= r.at
    <3>1. receipts[claimsMade[c].receipt] \in ReceiptRows
      BY <1>4, <2>1, <2>2, IndexedRows
    <3> QED BY <1>4, <2>2, <3>1 DEF ReceiptRows
  <2>4. ~Outdates(r, claimsMade[c])
    BY <1>3, <2>2
  <2>5. Outcome(r) = "no_record" => PreviousAnswer(r) = {}
    BY <2>2, <2>3, <2>4 DEF Outdates
  <2>6. Outcome(r) = "changed" => receipts[claimsMade[c].receipt].hash = r.hash
    BY <2>2, <2>3, <2>4 DEF Outdates
  <2> QED BY <2>5, <2>6, PreviousFound
<1>13. ClaimsAgree'
  <2>1. DOMAIN claimsMade' = DOMAIN claimsMade
    BY <1>3 DEF ClaimsKeep
  <2>2. ASSUME NEW c \in DOMAIN claimsMade, NEW o \in DOMAIN observations', Effective(o)' PROVE AgreesWith(c, o)'
    <3>1. CASE o \in DOMAIN observations
      BY <1>7, <1>11, <2>2, <3>1 DEF Effective
    <3>2. CASE o = n
      BY <1>5, <1>7, <1>12, <2>2, <3>2 DEF Effective
    <3> QED BY <1>7, <3>1, <3>2
  <2> QED BY <2>1, <2>2 DEF ClaimsAgree
<1> QED BY <1>9, <1>10, <1>13


-----------------------------------------------------------------------------
(* SourceSpec keeps SourceInv.                                             *)

LEMMA SourceBegins ==
  ASSUME SourceInit PROVE SourceInv
<1>1. /\ patch = Absent /\ taskOpen = FALSE /\ checking = {} /\ clock = 1
      /\ reviews = <<>> /\ observations = <<>> /\ claimsMade = <<>>
      /\ seen = [p \in Persons |-> Absent] /\ keys = [k \in Keys |-> Absent]
      /\ source \in [Queries -> Hashes]
  BY DEF SourceInit
<1>2. AuthorityFits
  <2>1. CASE authority = Absent
    BY <2>1 DEF SourceInit, AuthorityFits
  <2>2. CASE authority # Absent
    <3>1. /\ authority \in [state : DOMAIN authorityMachine, version : {1}, registeredBy : Persons,
                            acceptedBy : Persons \cup {Nobody}]
          /\ authority.acceptedBy # authority.registeredBy
      BY <2>2, StartAssumption DEF SourceInit
    <3>2. authority \in AuthorityRows /\ authority.version = 1 /\ authority.state \in AuthorityStates
      BY <3>1 DEF AuthorityRows, authorityMachine, AuthorityStates
    <3>3. history = <<authority.state>>
      BY <2>2 DEF SourceInit
    <3> QED BY <3>1, <3>2, <3>3 DEF AuthorityFits
  <2> QED BY <2>1, <2>2
<1>3. ConnectionFits
  <2>1. connection # Absent =>
          connection \in [state : DOMAIN sourceConnectionMachine, version : {1}, config : Configs]
    BY StartAssumption DEF SourceInit
  <2>2. connection # Absent => connection \in ConnectionRows /\ connection.version = 1
    BY <2>1 DEF ConnectionRows, sourceConnectionMachine, ConnectionStates
  <2>3. LookedAt
    BY <1>1 DEF LookedAt
  <2>4. PatchReady
    BY <1>1 DEF PatchReady
  <2>5. Activated
    BY <2>2 DEF SourceInit, Activated
  <2> QED BY <1>1, <2>2, <2>3, <2>4, <2>5 DEF ConnectionFits
<1>4. receipts \in Seq(ReceiptRows) /\ \A i \in DOMAIN receipts :
        receipts[i].via = "adapter" /\ receipts[i].key = Nothing /\ receipts[i].supersedes = 0
  <2>1. receipts \in Seq(EarlierReceipts)
    BY StartAssumption DEF SourceInit
  <2>2. ASSUME NEW row \in EarlierReceipts
        PROVE  row \in ReceiptRows /\ row.via = "adapter" /\ row.key = Nothing /\ row.supersedes = 0
    BY DEF EarlierReceipts, ReceiptRows, Results, SourceContents
  <2>3. receipts = [i \in DOMAIN receipts |-> receipts[i]] /\ \A i \in DOMAIN receipts : receipts[i] \in EarlierReceipts
    BY <2>1, IndexedRows
  <2>4. receipts \in Seq(ReceiptRows)
    BY <2>1, <2>2, <2>3, RewrittenRows
  <2> QED BY <2>2, <2>3, <2>4
<1>5. CollectFits
  <2>1. collect \in [Collects -> {NewCollect(k, q) : k \in Keys, q \in Queries}]
    BY DEF SourceInit
  <2>2. \A k \in Keys, q \in Queries : NewCollect(k, q) \in CollectRows /\ NewCollect(k, q).pc = "start"
    BY DEF NewCollect, CollectRows, Steps, SourceContents
  <2>3. collect \in [Collects -> CollectRows] /\ \A c \in Collects : collect[c].pc = "start"
    BY <2>1, <2>2
  <2> QED BY <2>3 DEF CollectFits, Holding
<1>6. KeysFit
  BY <1>1, KeyStates DEF KeysFit
<1>7. KeysAnswer /\ HandsFit
  BY <1>1, <1>4 DEF KeysAnswer, HandsFit
<1>8. RecordsFit /\ InOrder /\ ClaimsAgree
  BY <1>1, <1>4 DEF RecordsFit, InOrder, ClaimsAgree, SourceContents
<1> QED BY <1>2, <1>3, <1>5, <1>6, <1>7, <1>8 DEF SourceInv

LEMMA ConfigurationKeeps ==
  ASSUME SourceInv, ConfigurationNext
  PROVE  SourceInv'
<1>0. clock \in Nat
  BY DEF SourceInv, RecordsFit
<1>1. ASSUME NEW p \in Persons, RegisterAuthority(p) PROVE SourceInv'
  <2>1. AuthorityFits'
    BY <1>1, AuthorityKeeps
  <2> QED BY <1>1, <2>1, PartsStay DEF RegisterAuthority, evidence, SourceInv
<1>2. ASSUME NEW p \in Persons, ReadConnection(p) PROVE SourceInv'
  <2>1. ConnectionFits'
    BY <1>2, ConnectionRead
  <2> QED BY <1>2, <2>1, PartsStay DEF ReadConnection, evidence, SourceInv
<1>3. ASSUME UpdateAuthority PROVE SourceInv'
  <2>1. AuthorityFits'
    BY <1>3, AuthorityKeeps
  <2> QED BY <1>3, <2>1, PartsStay DEF UpdateAuthority, evidence, SourceInv
<1>4. ASSUME NEW p \in Persons, NEW to \in DOMAIN authorityMachine, TransitionAuthority(p, to) PROVE SourceInv'
  <2>1. AuthorityFits' /\ ConnectionFits'
    BY <1>4, AuthorityKeeps, AuthorityDemotes
  <2>2. UNCHANGED <<receipts, observations, keys, collect, checking, clock, source>>
    BY <1>4 DEF TransitionAuthority
  <2>3. ClaimsKeep
    <3>1. claimsMade' = propagate_connection_to_claims \/ UNCHANGED claimsMade
      BY <1>4 DEF TransitionAuthority, propagate_authority_state
    <3> QED BY <3>1, ConnectionTakesClaims, ClaimsUnchanged
  <2>4. RecordsFit' /\ InOrder' /\ ClaimsAgree'
    BY <1>0, <2>2, <2>3, RecordsStay
  <2> QED BY <2>1, <2>2, <2>4, PartsStay DEF SourceInv
<1>5. ASSUME NEW config \in Configs, CreateConnection(config) PROVE SourceInv'
  <2>1. ConnectionFits'
    BY <1>5, ConnectionBegins
  <2> QED BY <1>5, <2>1, PartsStay DEF CreateConnection, evidence, SourceInv
<1>6. ASSUME NEW p \in Persons, NEW decision \in {"approved", "rejected"}, ReviewConnection(p, decision)
      PROVE  SourceInv'
  <2>1. ConnectionFits'
    BY <1>6, ConnectionReviewed
  <2> QED BY <1>6, <2>1, PartsStay DEF ReviewConnection, evidence, SourceInv
<1>7. ASSUME NEW p \in Persons, NEW state \in PatchStates, NEW config \in Configs,
             PatchConnection(p, state, config)
      PROVE  SourceInv'
  <2>1. ConnectionFits'
    BY <1>7, PatchPrepared
  <2> QED BY <1>7, <2>1, PartsStay DEF PatchConnection, evidence, SourceInv
<1>8. ASSUME CommitPatch PROVE SourceInv'
  <2>1. ConnectionFits'
    BY <1>8, PatchCommitted
  <2>2. UNCHANGED <<authority, history, receipts, observations, keys, collect, checking, clock, source>>
    BY <1>8 DEF CommitPatch
  <2>3. ClaimsKeep
    <3>1. claimsMade' = propagate_connection_to_claims \/ UNCHANGED claimsMade
      BY <1>8 DEF CommitPatch
    <3> QED BY <3>1, ConnectionTakesClaims, ClaimsUnchanged
  <2>4. RecordsFit' /\ InOrder' /\ ClaimsAgree'
    BY <1>0, <2>2, <2>3, RecordsStay
  <2> QED BY <2>1, <2>2, <2>4, PartsStay DEF SourceInv
<1>9. ASSUME ResolveTask PROVE SourceInv'
  <2>1. ConnectionFits'
    BY <1>9, TaskResolved
  <2> QED BY <1>9, <2>1, PartsStay DEF ResolveTask, evidence, SourceInv
<1> QED BY <1>1, <1>2, <1>3, <1>4, <1>5, <1>6, <1>7, <1>8, <1>9 DEF ConfigurationNext

LEMMA SettledKeeps ==
  ASSUME SourceInv, NEW c \in Collects, SettleWrites(c),
         \/ collect' = [collect EXCEPT ![c].answer = Len(receipts) + 1, ![c].pc = "collected"]
         \/ Goto(c, "failing")
  PROVE  SourceInv'
<1>1. PICK r \in ReceiptRows :
           /\ r.via = "adapter" /\ r.key = collect[c].key /\ r.query = collect[c].query /\ r.supersedes = 0
           /\ InsertReceipt(r) /\ recordSourceObservation(r)
           /\ keys' = [keys EXCEPT ![r.key] = Settled(r.query, Len(receipts) + 1)]
           /\ collect[c].pc = "settle"
  BY SettledReceipt
<1>2. receipts' = Append(receipts, r)
  BY <1>1 DEF InsertReceipt
<1>3. UNCHANGED <<authority, history, reviews, activation, patch, seen, source, checking, clock>>
  BY DEF SettleWrites, outsideCollect
<1>4. KeysFit' /\ CollectFits' /\ KeysAnswer'
  BY SettleKeeps
<1>5. ConnectionFits'
  BY <1>1, <1>3, ReceiptsDegrade
<1>6. HandsFit'
  BY <1>1, <1>2, <1>3, HandsAppend
<1>7. RecordsFit' /\ InOrder' /\ ClaimsAgree'
  BY <1>1, <1>2, <1>3, AnswerRecorded
<1> QED BY <1>3, <1>4, <1>5, <1>6, <1>7, PartsStay DEF SourceInv

LEMMA CollectionKeeps ==
  ASSUME SourceInv, CollectionNext
  PROVE  SourceInv'
<1>1. ASSUME NEW c \in Collects, NEW pc \in {"reserve", "refused", "failing", "dead"}, Goto(c, pc),
             pc = "failing" => collect[c].pc \in {"call", "settle"},
             UNCHANGED <<outsideCollect, connection, taskOpen, evidence, keys, clock>>
      PROVE  SourceInv'
  <2>1. KeysFit' /\ CollectFits' /\ KeysAnswer'
    BY <1>1, WalkKeeps DEF Steps, evidence
  <2> QED BY <1>1, <2>1, PartsStay DEF outsideCollect, evidence, SourceInv
<1>2. ASSUME NEW c \in Collects, ReadCallable(c) PROVE SourceInv'
  <2>1. \E pc \in {"reserve", "refused"} : Goto(c, pc)
    BY <1>2 DEF ReadCallable
  <2> QED BY <1>1, <1>2, <2>1 DEF ReadCallable
<1>3. ASSUME NEW c \in Collects, Reserve(c) PROVE SourceInv'
  <2>1. KeysFit' /\ CollectFits' /\ KeysAnswer'
    BY <1>3, ReserveKeeps
  <2> QED BY <1>3, <2>1, PartsStay DEF Reserve, outsideCollect, evidence, SourceInv
<1>4. ASSUME NEW c \in Collects, Ask(c) PROVE SourceInv'
  <2>1. /\ KeysFit' /\ CollectFits' /\ KeysAnswer'
        /\ UNCHANGED <<authority, history, reviews, activation, patch, seen, source, checking, connection,
                       taskOpen, receipts, observations, claimsMade>>
        /\ clock' = clock + 1
    BY <1>4, AskKeeps
  <2>2. clock' \in Nat
    BY <2>1 DEF SourceInv, RecordsFit
  <2>3. RecordsFit' /\ InOrder' /\ ClaimsAgree'
    BY <2>1, <2>2, RecordsStay, ClaimsUnchanged
  <2> QED BY <2>1, <2>3, PartsStay DEF SourceInv
<1>5. ASSUME NEW c \in Collects, Settle(c) \/ SettleUnheard(c) PROVE SourceInv'
  BY <1>5, SettledKeeps DEF Settle, SettleUnheard
<1>6. ASSUME NEW c \in Collects, Fail(c) PROVE SourceInv'
  BY <1>1, <1>6 DEF Fail
<1>7. ASSUME NEW c \in Collects, releaseIdempotencyAfterFailure(c) PROVE SourceInv'
  <2>1. KeysFit' /\ CollectFits' /\ KeysAnswer'
    BY <1>7, ReleaseKeeps
  <2> QED BY <1>7, <2>1, PartsStay DEF releaseIdempotencyAfterFailure, outsideCollect, evidence, SourceInv
<1>8. ASSUME NEW c \in Collects, Crash(c) PROVE SourceInv'
  BY <1>1, <1>8 DEF Crash
<1>9. ASSUME NEW i \in DOMAIN receipts \cup {0}, CreateClaim(i) PROVE SourceInv'
  <2>1. RecordsFit' /\ InOrder' /\ ClaimsAgree'
    BY <1>9, ClaimRests
  <2> QED BY <1>9, <2>1, PartsStay DEF CreateClaim, SourceInv
<1>10. ASSUME NEW q \in Queries, NEW content \in Hashes \cup {Nothing}, SourceChanges(q, content)
       PROVE  SourceInv'
  <2>1. /\ source' = [source EXCEPT ![q] = content]
        /\ UNCHANGED <<configuration, connection, evidence, keys, collect, checking, clock>>
    BY <1>10 DEF SourceChanges
  <2>2. source' = [x \in Queries |-> source'[x]] /\ \A x \in Queries : source'[x] \in SourceContents
    BY <2>1 DEF SourceInv, RecordsFit, SourceContents
  <2>3. RecordsFit'
    BY <2>1, <2>2 DEF SourceInv, RecordsFit, evidence
  <2>4. InOrder' /\ ClaimsAgree'
    BY <2>1 DEF SourceInv, InOrder, ClaimsAgree, AgreesWith, Effective, evidence
  <2> QED BY <2>1, <2>3, <2>4, PartsStay DEF configuration, evidence, SourceInv
<1> QED BY <1>2, <1>3, <1>4, <1>5, <1>6, <1>7, <1>8, <1>9, <1>10 DEF CollectionNext

LEMMA ByHandKeeps ==
  ASSUME SourceInv, ByHandNext
  PROVE  SourceInv'
<1>0. clock \in Nat /\ clock + 1 \in Nat
  BY DEF SourceInv, RecordsFit
<1>1. ASSUME NEW p \in Persons, NEW k \in Keys, NEW q \in Queries, NEW result \in ManualResults,
             CreateReceipt(p, k, q, result)
      PROVE  SourceInv'
  <2>1. /\ UNCHANGED <<authority, history, reviews, activation, patch, seen, source, checking, observations>>
        /\ clock' = clock + 1
    BY <1>1 DEF CreateReceipt, outsideCollect
  <2>2. PICK r \in ReceiptRows : /\ r.result = result /\ r.supersedes = 0
                                 /\ InsertReceipt(r) /\ receipts' = Append(receipts, r)
    BY <1>1, HandWrittenReceipt
  <2>3. KeysFit' /\ CollectFits' /\ KeysAnswer'
    BY <1>1, HandWrittenReceipt
  <2>4. ConnectionFits'
    BY <2>1, <2>2, ReceiptsDegrade
  <2>5. HandsFit'
    BY <2>1, <2>2, HandsAppend, ManualAssumption
  <2>6. ClaimsKeep
    <3>1. claimsMade' = propagate_connection_to_claims \/ UNCHANGED claimsMade
      BY <1>1 DEF CreateReceipt
    <3> QED BY <3>1, ConnectionTakesClaims, ClaimsUnchanged
  <2>7. RecordsFit' /\ InOrder' /\ ClaimsAgree'
    BY <1>0, <2>1, <2>2, <2>6, RecordsStay
  <2> QED BY <2>1, <2>3, <2>4, <2>5, <2>7, PartsStay DEF SourceInv
<1>2. ASSUME NEW p \in Persons, NEW i \in DOMAIN receipts, NEW n \in 1 .. 2, StartSecondReview(p, i, n)
      PROVE  SourceInv'
  <2>1. HandsFit'
    BY <1>2, SecondReviewBegins
  <2> QED BY <1>2, <2>1, PartsStay DEF StartSecondReview, evidence, SourceInv
<1>3. ASSUME NEW check \in checking, NEW result \in {"confirmed_from_source", "conflicting"},
             FinishSecondReview(check, result)
      PROVE  SourceInv'
  <2>1. /\ UNCHANGED <<authority, history, reviews, activation, patch, seen, source, observations, claimsMade,
                       keys, collect>>
        /\ checking' \subseteq checking
    BY <1>3 DEF FinishSecondReview
  <2>2. CASE NotFollowedUp(check.of)
    <3>1. PICK r \in ReceiptRows :
           /\ r.key = Nothing /\ InsertReceipt(r) /\ receipts' = Append(receipts, r)
           /\ r.second \notin {Nobody, r.first}
           /\ \A i \in DOMAIN receipts : receipts[i].supersedes # r.supersedes
      BY <1>3, <2>2, SecondReviewReceipt
    <3>2. clock' \in Nat
      BY <1>0, <1>3, <2>2 DEF FinishSecondReview
    <3>3. KeysFit' /\ CollectFits' /\ KeysAnswer'
      BY <2>1, <3>1, KeylessReceipt
    <3>4. ConnectionFits'
      BY <2>1, <3>1, ReceiptsDegrade
    <3>5. HandsFit'
      BY <2>1, <3>1, HandsAppend
    <3>6. RecordsFit' /\ InOrder' /\ ClaimsAgree'
      BY <2>1, <3>1, <3>2, RecordsStay, ClaimsUnchanged
    <3> QED BY <2>1, <3>3, <3>4, <3>5, <3>6, PartsStay DEF SourceInv
  <2>3. CASE ~NotFollowedUp(check.of)
    <3>1. UNCHANGED <<receipts, connection, taskOpen, clock>>
      BY <1>3, <2>3 DEF FinishSecondReview
    <3>2. HandsFit'
      BY <2>1, <3>1 DEF SourceInv, HandsFit
    <3> QED BY <2>1, <3>1, <3>2, PartsStay DEF SourceInv
  <2> QED BY <2>2, <2>3
<1> QED BY <1>1, <1>2, <1>3 DEF ByHandNext

LEMMA SourceStep ==
  ASSUME SourceInv, [SourceNext]_sourceVars
  PROVE  SourceInv'
<1>1. CASE UNCHANGED sourceVars
  BY <1>1, PartsStay DEF sourceVars, SourceInv
<1> QED BY <1>1, ConfigurationKeeps, CollectionKeeps, ByHandKeeps DEF SourceNext

LEMMA FewerThanTwo ==
  ASSUME NEW S, \A x, y \in S : x = y
  PROVE  Cardinality(S) <= 1
<1>1. CASE S = {}
  BY <1>1, FS_EmptySet
<1>2. ASSUME NEW x \in S PROVE Cardinality(S) <= 1
  <2>1. S = {x}
    OBVIOUS
  <2> QED BY <2>1, FS_Singleton
<1> QED BY <1>1, <1>2

LEMMA InvMeansSources ==
  ASSUME SourceInv PROVE SourcesStand
<1>1. CollectedOnce
  BY DEF SourceInv, CollectedOnce, CollectFits, KeysAnswer, Holding
<1>2. ASSUME NEW i \in DOMAIN receipts PROVE Cardinality(FollowUps(i)) <= 1
  <2>1. i # 0
    BY IndexedRows DEF SourceInv, RecordsFit
  <2>2. \A j, k \in FollowUps(i) : j = k
    BY <2>1 DEF SourceInv, HandsFit, FollowUps
  <2>3. PICK S : S = FollowUps(i)
    OBVIOUS
  <2> QED BY <2>2, <2>3, FewerThanTwo
<1>3. ConfirmedByTwo
  BY <1>2 DEF SourceInv, HandsFit, ConfirmedByTwo
<1>4. ActiveIsReviewed
  BY DEF SourceInv, AuthorityFits, ConnectionFits, Activated, ActiveIsReviewed
<1> QED BY <1>1, <1>3, <1>4 DEF SourcesStand, ReceiptsStand

\* What was collected can be relied on: one receipt per key however often a delivery
\* is repeated or its confirmation lost, two people behind a look by hand, and an
\* active connection that runs what another person looked at and approved
\* (source-collect.ts, connection-review.ts).
THEOREM SourcesAlwaysStand == SourceSpec => []SourcesStand
<1>1. SourceSpec => []SourceInv
  BY SourceBegins, SourceStep, PTL DEF SourceSpec
<1> QED BY <1>1, InvMeansSources, PTL

\* Answers take effect in the order they were received, and a claim that is not
\* stale agrees with each that came after it (source-observations.ts).
THEOREM AnswersAlwaysTakeEffect == SourceSpec => []AnswersTakeEffect
<1>1. ASSUME SourceInv PROVE AnswersTakeEffect
  BY <1>1 DEF SourceInv, InOrder, ClaimsAgree, AgreesWith, Effective, AnswersTakeEffect
<1>2. SourceSpec => []SourceInv
  BY SourceBegins, SourceStep, PTL DEF SourceSpec
<1> QED BY <1>1, <1>2, PTL

-----------------------------------------------------------------------------
(* Verification: its rows.                                                 *)

Ranks == 0..3
AttestationStates == DOMAIN attestationMachine
Live == {"signed", "active", "stale_candidate", "disputed"}
Fixed == {"state", "scope", "type", "supersedes", "case", "assignment", "snapshot"}

\* A table is a sequence of whatever its rows are.
IsTable(s) == s \in Seq({s[i] : i \in DOMAIN s})

CasesFit ==
  /\ IsTable(cases)
  /\ \A c \in DOMAIN cases : /\ {"state", "claims", "assigned", "snapshot"} \subseteq DOMAIN cases[c]
                             /\ cases[c].claims \subseteq DOMAIN claims

\* A correction comes after what it corrects and covers it.
AttestationsFit ==
  /\ IsTable(attestations)
  /\ \A a \in DOMAIN attestations :
       /\ Fixed \subseteq DOMAIN attestations[a]
       /\ attestations[a].state \in AttestationStates
       /\ attestations[a].type \in DOMAIN STATE_ESTABLISHED_BY
       /\ attestations[a].scope \subseteq DOMAIN claims
       /\ attestations[a].supersedes \in Nat
       /\ attestations[a].supersedes # None =>
            /\ attestations[a].supersedes < a
            /\ attestations[attestations[a].supersedes].scope \subseteq attestations[a].scope

ClaimsFit ==
  /\ claims = [k \in DOMAIN claims |-> claims[k]]
  /\ \E n \in Nat : DOMAIN claims = 1 .. n
  /\ \A k \in DOMAIN claims :
       /\ {"rank", "grade", "tier", "conflicts", "stale", "successor"} \subseteq DOMAIN claims[k]
       /\ claims[k].rank \in Ranks
       /\ claims[k].grade = "verified" => claims[k].conflicts = 0

RequestsFit ==
  /\ IsTable(requests)
  /\ \A q \in DOMAIN requests : /\ {"att", "snapshot", "state"} \subseteq DOMAIN requests[q]
                                /\ requests[q].att \in DOMAIN attestations

\* An attestation is superseded by the one correction of it that was signed.
Corrects(b, a) == attestations[b].supersedes = a /\ attestations[b].state # "draft"
CorrectionsFit ==
  /\ \A a \in DOMAIN attestations :
       attestations[a].state = "superseded" <=> \E b \in DOMAIN attestations : Corrects(b, a)
  /\ \A a, b, c \in DOMAIN attestations : Corrects(b, a) /\ Corrects(c, a) => b = c

-----------------------------------------------------------------------------
(* What a transaction holds.                                               *)

TransactionFields == {"op", "row", "att", "writing", "outcome", "todo", "atts", "cases", "marks"}

\* What t has locked, it can still do.
Signs(t) ==
  LET a == tx[t].att IN
  /\ DOMAIN tx[t].atts = {a} \cup Replaced(a)
  /\ tx[t].atts[a] = "signed" /\ attestations[a].state = "draft"
  /\ \A p \in Replaced(a) : /\ tx[t].atts[p] = "superseded" /\ attestations[p].state \in Live
                            /\ \A b \in DOMAIN attestations : b # a => ~Corrects(b, p)
Revokes(t) ==
  LET a == tx[t].att IN
  /\ DOMAIN tx[t].atts = {a}
  /\ tx[t].atts[a] = "revoked" /\ attestations[a].state \in Live

TransactionFits(t) ==
  /\ TransactionFields \subseteq DOMAIN tx[t]
  /\ tx[t].op \in {"sign", "revoke", "resolve"}
  /\ tx[t].op = "resolve" \/ ~tx[t].writing =>
       DOMAIN tx[t].atts = {} /\ DOMAIN tx[t].marks = {} /\ tx[t].todo = {}
  /\ tx[t].op \in {"sign", "revoke"} => tx[t].att \in DOMAIN attestations
  /\ tx[t].op \in {"sign", "revoke"} /\ tx[t].writing =>
       /\ IF tx[t].op = "sign" THEN Signs(t) ELSE Revokes(t)
       /\ attestations[tx[t].att].scope \subseteq tx[t].todo \cup DOMAIN tx[t].marks

\* Two transactions lock different rows.
LocksHold ==
  \A t, u \in Tx : Open(t) /\ Open(u) /\ t # u =>
    DOMAIN tx[t].atts \cap DOMAIN tx[u].atts = {} /\ DOMAIN tx[t].marks \cap DOMAIN tx[u].marks = {}

-----------------------------------------------------------------------------
(* What a claim stands on.                                                 *)

\* Rank fits claim k when the attestations in rows are in these states.
Backed(rank, k, rows, states) ==
  /\ rank \in Ranks
  /\ rank = 0 \/ \E b \in DOMAIN rows : /\ k \in rows[b].scope /\ states[b] \in Live
                                        /\ rank <= STATE_ESTABLISHED_BY[rows[b].type]
  /\ \A b \in DOMAIN rows : k \in rows[b].scope /\ states[b] = "signed"
                              => rank >= STATE_ESTABLISHED_BY[rows[b].type]

Committed == [b \in DOMAIN attestations |-> attestations[b].state]
ClaimsFollow == \A k \in DOMAIN claims : Backed(claims[k].rank, k, attestations, Committed)

\* What t has assessed is so once it commits.
After(t) == [b \in DOMAIN attestations |-> SeenState(t, b)]
AssessmentFits(t) ==
  \A k \in DOMAIN tx[t].marks :
    /\ {"rank", "grade"} \subseteq DOMAIN tx[t].marks[k]
    /\ Backed(tx[t].marks[k].rank, k, attestations, After(t))
    /\ k \in DOMAIN claims /\ tx[t].marks[k].grade = "verified" => claims[k].conflicts = 0

TransactionsFit ==
  /\ tx = [t \in Tx |-> tx[t]]
  /\ \A t \in Tx : Open(t) => TransactionFits(t) /\ AssessmentFits(t)
  /\ LocksHold

ReviewInv ==
  /\ CasesFit /\ AttestationsFit /\ ClaimsFit /\ RequestsFit /\ CorrectionsFit
  /\ TransactionsFit /\ ClaimsFollow

LEMMA TableRows ==
  ASSUME NEW S, NEW s \in Seq(S)
  PROVE  IsTable(s)
<1>1. PICK T : T = {s[i] : i \in DOMAIN s}
  OBVIOUS
<1>2. DOMAIN s = 1 .. Len(s) /\ Len(s) \in Nat /\ s = [i \in DOMAIN s |-> s[i]]
  OBVIOUS
<1>3. s \in [1 .. Len(s) -> T]
  BY <1>1, <1>2
<1>4. s \in Seq(T)
  BY <1>2, <1>3
<1> QED BY <1>1, <1>4 DEF IsTable

LEMMA TableIndexed ==
  ASSUME NEW s, IsTable(s)
  PROVE  DOMAIN s = 1 .. Len(s) /\ Len(s) \in Nat /\ s = [i \in DOMAIN s |-> s[i]]
<1>1. PICK T : T = {s[i] : i \in DOMAIN s}
  OBVIOUS
<1>2. s \in Seq(T)
  BY <1>1 DEF IsTable
<1> QED BY <1>2

LEMMA TableOf ==
  ASSUME NEW s, NEW n \in Nat, s = [i \in 1 .. n |-> s[i]]
  PROVE  IsTable(s)
<1>1. PICK T : T = {s[i] : i \in 1 .. n}
  OBVIOUS
<1>2. s \in [1 .. n -> T]
  BY <1>1
<1>3. s \in Seq(T)
  BY <1>2
<1> QED BY <1>3, TableRows

LEMMA TableGrows ==
  ASSUME NEW s, IsTable(s), NEW row
  PROVE  /\ IsTable(Append(s, row))
         /\ DOMAIN Append(s, row) = DOMAIN s \cup {Len(s) + 1}
         /\ Len(s) + 1 \notin DOMAIN s
         /\ \A i \in DOMAIN s : Append(s, row)[i] = s[i]
         /\ Append(s, row)[Len(s) + 1] = row
<1>1. PICK T : T = {s[i] : i \in DOMAIN s} \cup {row}
  OBVIOUS
<1>2. DOMAIN s = 1 .. Len(s) /\ Len(s) \in Nat /\ s = [i \in DOMAIN s |-> s[i]]
  BY TableIndexed
<1>3. s \in [1 .. Len(s) -> T]
  BY <1>1, <1>2
<1>4. s \in Seq(T) /\ row \in T
  BY <1>1, <1>2, <1>3
<1>5. Append(s, row) \in Seq(T)
  BY <1>4
<1>6. IsTable(Append(s, row))
  BY <1>5, TableRows
<1>7. Len(Append(s, row)) = Len(s) + 1 /\ Append(s, row)[Len(s) + 1] = row
      /\ \A i \in 1 .. Len(s) : Append(s, row)[i] = s[i]
  BY <1>4
<1>8. DOMAIN Append(s, row) = 1 .. Len(Append(s, row))
  BY <1>5
<1> QED BY <1>2, <1>6, <1>7, <1>8

LEMMA TableRewritten ==
  ASSUME NEW s, IsTable(s), NEW f, f = [i \in DOMAIN s |-> f[i]]
  PROVE  IsTable(f) /\ DOMAIN f = DOMAIN s
<1>1. DOMAIN s = 1 .. Len(s) /\ Len(s) \in Nat
  BY TableIndexed
<1>2. f = [i \in 1 .. Len(s) |-> f[i]]
  BY <1>1
<1> QED BY <1>1, <1>2, TableOf

LEMMA TableRowWritten ==
  ASSUME NEW s, IsTable(s), NEW k, NEW row, NEW f, f = [s EXCEPT ![k] = row]
  PROVE  /\ IsTable(f) /\ DOMAIN f = DOMAIN s
         /\ \A i \in DOMAIN s : f[i] = IF i = k THEN row ELSE s[i]
<1>1. f = [i \in DOMAIN s |-> f[i]] /\ \A i \in DOMAIN s : f[i] = IF i = k THEN row ELSE s[i]
  OBVIOUS
<1> QED BY <1>1, TableRewritten

-----------------------------------------------------------------------------
(* Verification: states that are written.                                  *)

Rewrites(f) ==
  /\ IsTable(attestations') /\ DOMAIN attestations' = DOMAIN attestations
  /\ \A a \in DOMAIN attestations :
       /\ Fixed \subseteq DOMAIN attestations'[a]
       /\ attestations'[a].scope = attestations[a].scope
       /\ attestations'[a].type = attestations[a].type
       /\ attestations'[a].supersedes = attestations[a].supersedes
       /\ attestations'[a].state = IF a \in DOMAIN f THEN f[a] ELSE attestations[a].state

LEMMA StateWritten ==
  ASSUME NEW r, NEW s, NEW row, Fixed \subseteq DOMAIN r, row = [r EXCEPT !.state = s]
  PROVE  /\ Fixed \subseteq DOMAIN row /\ row.state = s /\ row.scope = r.scope
         /\ row.type = r.type /\ row.supersedes = r.supersedes
BY DEF Fixed

LEMMA StatesWritten ==
  ASSUME AttestationsFit, NEW f, attestations' = WithStates(f)
  PROVE  Rewrites(f)
<1>1. attestations' = [a \in DOMAIN attestations |-> attestations'[a]]
      /\ \A a \in DOMAIN attestations :
           attestations'[a] = IF a \in DOMAIN f THEN [attestations[a] EXCEPT !.state = f[a]] ELSE attestations[a]
  BY DEF WithStates
<1>2. IsTable(attestations') /\ DOMAIN attestations' = DOMAIN attestations
  BY <1>1, TableRewritten DEF AttestationsFit
<1>3. ASSUME NEW a \in DOMAIN attestations
      PROVE  /\ Fixed \subseteq DOMAIN attestations'[a]
             /\ attestations'[a].scope = attestations[a].scope
             /\ attestations'[a].type = attestations[a].type
             /\ attestations'[a].supersedes = attestations[a].supersedes
             /\ attestations'[a].state = IF a \in DOMAIN f THEN f[a] ELSE attestations[a].state
  <2>1. PICK row : row = [attestations[a] EXCEPT !.state = f[a]]
    OBVIOUS
  <2>2. Fixed \subseteq DOMAIN attestations[a]
    BY DEF AttestationsFit
  <2>3. /\ Fixed \subseteq DOMAIN row /\ row.state = f[a] /\ row.scope = attestations[a].scope
        /\ row.type = attestations[a].type /\ row.supersedes = attestations[a].supersedes
    BY <2>1, <2>2, StateWritten
  <2>4. attestations'[a] = IF a \in DOMAIN f THEN row ELSE attestations[a]
    BY <1>1, <2>1
  <2> QED BY <2>2, <2>3, <2>4
<1> QED BY <1>2, <1>3 DEF Rewrites

LEMMA OneStateWritten ==
  ASSUME AttestationsFit, NEW a, NEW s, attestations' = [attestations EXCEPT ![a].state = s],
         NEW f, f = [b \in {a} |-> s]
  PROVE  Rewrites(f)
<1>1. PICK row : row = [attestations[a] EXCEPT !.state = s]
  OBVIOUS
<1>2. attestations' = [attestations EXCEPT ![a] = row]
  BY <1>1
<1>3. /\ IsTable(attestations') /\ DOMAIN attestations' = DOMAIN attestations
      /\ \A i \in DOMAIN attestations : attestations'[i] = IF i = a THEN row ELSE attestations[i]
  BY <1>2, TableRowWritten DEF AttestationsFit
<1>4. a \in DOMAIN attestations =>
        /\ Fixed \subseteq DOMAIN row /\ row.state = s /\ row.scope = attestations[a].scope
        /\ row.type = attestations[a].type /\ row.supersedes = attestations[a].supersedes
  BY <1>1, StateWritten DEF AttestationsFit
<1>5. \A b \in DOMAIN attestations : Fixed \subseteq DOMAIN attestations[b]
  BY DEF AttestationsFit
<1>6. DOMAIN f = {a} /\ f[a] = s
  OBVIOUS
<1> QED BY <1>3, <1>4, <1>5, <1>6 DEF Rewrites

LEMMA NothingWritten ==
  ASSUME AttestationsFit, UNCHANGED attestations, NEW f, DOMAIN f = {}
  PROVE  Rewrites(f)
BY DEF AttestationsFit, Rewrites

LEMMA AttestationsStay ==
  ASSUME AttestationsFit, DOMAIN claims \subseteq DOMAIN claims', NEW f, Rewrites(f),
         \A a \in DOMAIN f : f[a] \in AttestationStates
  PROVE  AttestationsFit'
<1>1. ASSUME NEW a \in DOMAIN attestations
      PROVE  /\ Fixed \subseteq DOMAIN attestations'[a]
             /\ attestations'[a].state \in AttestationStates
             /\ attestations'[a].type \in DOMAIN STATE_ESTABLISHED_BY
             /\ attestations'[a].scope \subseteq DOMAIN claims'
             /\ attestations'[a].supersedes \in Nat
  BY DEF AttestationsFit, Rewrites
<1>2. ASSUME NEW a \in DOMAIN attestations, attestations[a].supersedes # None
      PROVE  /\ attestations'[a].supersedes < a
             /\ attestations'[attestations'[a].supersedes].scope \subseteq attestations'[a].scope
  <2>1. PICK p : p = attestations[a].supersedes
    OBVIOUS
  <2>2. p \in Nat /\ p # 0 /\ p < a /\ attestations[p].scope \subseteq attestations[a].scope
    BY <1>2, <2>1 DEF AttestationsFit, None
  <2>3. DOMAIN attestations = 1 .. Len(attestations) /\ Len(attestations) \in Nat
    BY TableIndexed DEF AttestationsFit
  <2>4. p \in DOMAIN attestations
    BY <2>2, <2>3
  <2> QED BY <2>1, <2>2, <2>4 DEF Rewrites
<1>3. /\ IsTable(attestations') /\ DOMAIN attestations' = DOMAIN attestations
      /\ \A a \in DOMAIN attestations : attestations'[a].supersedes = attestations[a].supersedes
  BY DEF Rewrites
<1> QED BY <1>1, <1>2, <1>3 DEF AttestationsFit

\* What is replaced is there.
LEMMA Predecessor ==
  ASSUME AttestationsFit, NEW a \in DOMAIN attestations, NEW p \in Replaced(a)
  PROVE  /\ p = attestations[a].supersedes /\ p # None /\ p \in DOMAIN attestations /\ p # a
         /\ attestations[p].scope \subseteq attestations[a].scope
<1>1. p = attestations[a].supersedes /\ p # None
  BY DEF Replaced
<1>2. p \in Nat /\ p < a /\ attestations[p].scope \subseteq attestations[a].scope
  BY <1>1 DEF AttestationsFit
<1>3. DOMAIN attestations = 1 .. Len(attestations) /\ Len(attestations) \in Nat
  BY TableIndexed DEF AttestationsFit
<1> QED BY <1>1, <1>2, <1>3 DEF None

-----------------------------------------------------------------------------
(* A rank stays backed while what backs it lives on and nothing new signed  *)
(* is above it.                                                             *)

Softer(k, rows, states, rows2, states2) ==
  /\ DOMAIN rows \subseteq DOMAIN rows2
  /\ \A b \in DOMAIN rows : rows2[b].scope = rows[b].scope /\ rows2[b].type = rows[b].type
  /\ \A b \in DOMAIN rows : k \in rows[b].scope =>
       /\ states[b] \in Live => states2[b] \in Live
       /\ states2[b] = "signed" => states[b] = "signed"
  /\ \A b \in DOMAIN rows2 \ DOMAIN rows : states2[b] # "signed"

LEMMA BackedStays ==
  ASSUME NEW rank, NEW k, NEW rows, NEW states, NEW rows2, NEW states2,
         Backed(rank, k, rows, states), Softer(k, rows, states, rows2, states2)
  PROVE  Backed(rank, k, rows2, states2)
<1>1. rank = 0 \/ \E b \in DOMAIN rows2 : /\ k \in rows2[b].scope /\ states2[b] \in Live
                                          /\ rank <= STATE_ESTABLISHED_BY[rows2[b].type]
  BY DEF Backed, Softer
<1>2. ASSUME NEW b \in DOMAIN rows2, k \in rows2[b].scope, states2[b] = "signed"
      PROVE  rank >= STATE_ESTABLISHED_BY[rows2[b].type]
  <2>1. b \in DOMAIN rows
    BY <1>2 DEF Softer
  <2> QED BY <1>2, <2>1 DEF Backed, Softer
<1> QED BY <1>1, <1>2 DEF Backed

LEMMA CorrectionsStay ==
  ASSUME CorrectionsFit, NEW f, Rewrites(f),
         \A a \in DOMAIN f \cap DOMAIN attestations : attestations[a].state \in Live /\ f[a] \in Live \cup {"revoked"}
  PROVE  CorrectionsFit'
<1>1. \A a \in DOMAIN attestations :
        /\ attestations'[a].state = "draft" <=> attestations[a].state = "draft"
        /\ attestations'[a].state = "superseded" <=> attestations[a].state = "superseded"
  BY DEF Rewrites, Live
<1>2. \A a, b \in DOMAIN attestations : Corrects(b, a)' <=> Corrects(b, a)
  BY <1>1 DEF Corrects, Rewrites
<1>3. DOMAIN attestations' = DOMAIN attestations
  BY DEF Rewrites
<1>4. \A a \in DOMAIN attestations' :
        attestations'[a].state = "superseded" <=> \E b \in DOMAIN attestations' : Corrects(b, a)'
  BY <1>1, <1>2, <1>3 DEF CorrectionsFit
<1>5. \A a, b, c \in DOMAIN attestations' : Corrects(b, a)' /\ Corrects(c, a)' => b = c
  BY <1>2, <1>3 DEF CorrectionsFit
<1> QED BY <1>4, <1>5 DEF CorrectionsFit

-----------------------------------------------------------------------------
(* The transactions that do not move.                                       *)

\* What is written is none of the rows u holds, nor does it correct one of them, nor does
\* it concern a claim u has assessed in another way than by taking from what it stands on.
LeavesAlone(f, u) ==
  /\ DOMAIN f \cap DOMAIN tx[u].atts = {}
  /\ \A b \in DOMAIN attestations \cap DOMAIN f :
       /\ attestations[b].state = "draft" => attestations[b].supersedes \notin DOMAIN tx[u].atts
       /\ attestations[b].scope \cap DOMAIN tx[u].marks = {} \/ (attestations[b].state \in Live /\ f[b] \in Live
                                                                  /\ f[b] # "signed")
\* Of claims, that none takes on a conflict that u did not see.
ClaimsLeft(u) ==
  \A k \in DOMAIN tx[u].marks \cap DOMAIN claims' :
    IF k \in DOMAIN claims THEN claims'[k].conflicts = claims[k].conflicts ELSE claims'[k].conflicts = 0

LEMMA BystanderFits ==
  ASSUME AttestationsFit, NEW u \in Tx, tx'[u] = tx[u], TransactionFits(u), AssessmentFits(u),
         NEW f, Rewrites(f), LeavesAlone(f, u)
  PROVE  TransactionFits(u)'
<1>1. tx[u].op = "resolve" \/ ~tx[u].writing \/ tx[u].op \in {"sign", "revoke"}
  BY DEF TransactionFits
<1>2. DOMAIN attestations' = DOMAIN attestations
  BY DEF Rewrites
<1>3. ASSUME tx[u].op \in {"sign", "revoke"}, tx[u].writing
      PROVE  /\ IF tx[u].op = "sign" THEN Signs(u)' ELSE Revokes(u)'
             /\ attestations'[tx[u].att].scope \subseteq tx[u].todo \cup DOMAIN tx[u].marks
  <2>1. PICK a \in DOMAIN attestations : a = tx[u].att
    BY <1>3 DEF TransactionFits
  <2>2. \A b \in DOMAIN tx[u].atts \cap DOMAIN attestations : attestations'[b].state = attestations[b].state
    BY DEF Rewrites, LeavesAlone
  <2>3. Replaced(a)' = Replaced(a)
    BY DEF Replaced, Rewrites
  <2>4. CASE tx[u].op = "revoke"
    <3>1. Revokes(u)
      BY <1>3, <2>4 DEF TransactionFits
    <3>2. Revokes(u)'
      BY <2>1, <2>2, <3>1 DEF Revokes
    <3> QED BY <1>3, <2>1, <2>4, <3>2 DEF TransactionFits, Rewrites
  <2>5. CASE tx[u].op = "sign"
    <3>1. Signs(u)
      BY <1>3, <2>5 DEF TransactionFits
    <3>2. ASSUME NEW p \in Replaced(a)
          PROVE  /\ tx[u].atts[p] = "superseded" /\ attestations'[p].state \in Live
                 /\ \A b \in DOMAIN attestations : b # a => ~Corrects(b, p)'
      <4>1. p \in DOMAIN attestations /\ p \in DOMAIN tx[u].atts
        BY <2>1, <3>1, <3>2, Predecessor DEF Signs
      <4>2. tx[u].atts[p] = "superseded" /\ attestations[p].state \in Live
            /\ \A b \in DOMAIN attestations : b # a => ~Corrects(b, p)
        BY <2>1, <3>1, <3>2 DEF Signs
      <4>3. ASSUME NEW b \in DOMAIN attestations, b # a, Corrects(b, p)' PROVE FALSE
        <5>1. attestations[b].supersedes = p /\ attestations'[b].state # "draft" /\ attestations[b].state = "draft"
          BY <4>2, <4>3 DEF Corrects, Rewrites
        <5>2. b \in DOMAIN f
          BY <5>1 DEF Rewrites
        <5> QED BY <4>1, <5>1, <5>2 DEF LeavesAlone
      <4> QED BY <2>2, <4>1, <4>2, <4>3
    <3>3. Signs(u)'
      BY <1>2, <2>1, <2>2, <2>3, <3>1, <3>2 DEF Signs
    <3> QED BY <1>3, <2>1, <2>5, <3>3 DEF TransactionFits, Rewrites
  <2> QED BY <1>3, <2>4, <2>5
<1> QED BY <1>2, <1>3 DEF TransactionFits

LEMMA BystanderAssesses ==
  ASSUME AttestationsFit, NEW u \in Tx, tx'[u] = tx[u], TransactionFits(u), AssessmentFits(u),
         NEW f, Rewrites(f), LeavesAlone(f, u), ClaimsLeft(u)
  PROVE  AssessmentFits(u)'
<1>1. PICK s : s = After(u)
  OBVIOUS
<1>2. PICK s2 : s2 = After(u)'
  OBVIOUS
<1>3. /\ s = [b \in DOMAIN attestations |-> IF b \in DOMAIN tx[u].atts THEN tx[u].atts[b] ELSE attestations[b].state]
      /\ s2 = [b \in DOMAIN attestations' |-> IF b \in DOMAIN tx[u].atts THEN tx[u].atts[b] ELSE attestations'[b].state]
  BY <1>1, <1>2 DEF After, SeenState
<1>4. ASSUME NEW k \in DOMAIN tx[u].marks
      PROVE  Backed(tx[u].marks[k].rank, k, attestations', s2)
  <2>1. Softer(k, attestations, s, attestations', s2)
    BY <1>3 DEF Softer, LeavesAlone, Rewrites
  <2>2. Backed(tx[u].marks[k].rank, k, attestations, s)
    BY <1>1 DEF AssessmentFits
  <2> QED BY <2>1, <2>2, BackedStays
<1>5. \A k \in DOMAIN tx[u].marks :
        k \in DOMAIN claims' /\ tx[u].marks[k].grade = "verified" => claims'[k].conflicts = 0
  BY DEF AssessmentFits, ClaimsLeft
<1> QED BY <1>2, <1>4, <1>5 DEF AssessmentFits

-----------------------------------------------------------------------------
(* Steps that take nothing from the claims but standing.                    *)

\* Attestations nobody holds, and that live, live on unsigned.
Softens(f) ==
  /\ Rewrites(f)
  /\ \A b \in DOMAIN f : /\ b \in DOMAIN attestations /\ AttestationFree(b)
                         /\ attestations[b].state \in Live /\ f[b] \in Live /\ f[b] # "signed"

\* Claims keep their rank; those that are new have none.
RanksStay ==
  /\ DOMAIN claims \subseteq DOMAIN claims'
  /\ \A k \in DOMAIN claims' : claims'[k].rank = IF k \in DOMAIN claims THEN claims[k].rank ELSE 0

LEMMA SoftenedLeavesAlone ==
  ASSUME NEW f, Softens(f), NEW u \in Tx, Open(u)
  PROVE  LeavesAlone(f, u)
BY DEF Softens, LeavesAlone, AttestationFree, Live

LEMMA SoftenedFits ==
  ASSUME ReviewInv, NEW f, Softens(f), RanksStay
  PROVE  AttestationsFit' /\ CorrectionsFit' /\ ClaimsFollow'
<1>1. Rewrites(f) /\ \A a \in DOMAIN f : f[a] \in AttestationStates
  BY DEF Softens, Live, AttestationStates, attestationMachine
<1>2. AttestationsFit'
  BY <1>1, AttestationsStay DEF ReviewInv, RanksStay
<1>3. CorrectionsFit'
  BY <1>1, CorrectionsStay DEF ReviewInv, Softens
<1>4. PICK s : s = Committed
  OBVIOUS
<1>5. PICK s2 : s2 = Committed'
  OBVIOUS
<1>6. /\ s = [b \in DOMAIN attestations |-> attestations[b].state]
      /\ s2 = [b \in DOMAIN attestations' |-> attestations'[b].state]
  BY <1>4, <1>5 DEF Committed
<1>7. ASSUME NEW k \in DOMAIN claims'
      PROVE  Backed(claims'[k].rank, k, attestations', s2)
  <2>1. CASE k \in DOMAIN claims
    <3>1. Softer(k, attestations, s, attestations', s2)
      BY <1>1, <1>6 DEF Softer, Softens, Rewrites
    <3>2. Backed(claims[k].rank, k, attestations, s)
      BY <1>4, <2>1 DEF ReviewInv, ClaimsFollow
    <3>3. claims'[k].rank = claims[k].rank
      BY <2>1 DEF RanksStay
    <3> QED BY <3>1, <3>2, <3>3, BackedStays
  <2>2. CASE k \notin DOMAIN claims
    <3>1. claims'[k].rank = 0
      BY <2>2 DEF RanksStay
    <3>2. \A b \in DOMAIN attestations' : k \notin attestations'[b].scope
      BY <1>1, <2>2 DEF ReviewInv, AttestationsFit, Rewrites
    <3> QED BY <3>1, <3>2 DEF Backed, Ranks
  <2> QED BY <2>1, <2>2
<1>8. ClaimsFollow'
  BY <1>5, <1>7 DEF ClaimsFollow
<1> QED BY <1>2, <1>3, <1>8

LEMMA BystandersStay ==
  ASSUME ReviewInv, NEW f, Rewrites(f), NEW T \in SUBSET Tx,
         \A u \in T : Open(u) /\ tx'[u] = tx[u] /\ LeavesAlone(f, u) /\ ClaimsLeft(u)
  PROVE  \A u \in T : Open(u)' /\ TransactionFits(u)' /\ AssessmentFits(u)'
<1>1. ASSUME NEW u \in T PROVE Open(u)' /\ TransactionFits(u)' /\ AssessmentFits(u)'
  <2>1. u \in Tx /\ tx'[u] = tx[u] /\ TransactionFits(u) /\ AssessmentFits(u) /\ Open(u)
    BY DEF ReviewInv, TransactionsFit
  <2>2. TransactionFits(u)'
    BY <2>1, BystanderFits DEF ReviewInv
  <2>3. AssessmentFits(u)'
    BY <2>1, BystanderAssesses DEF ReviewInv
  <2> QED BY <2>1, <2>2, <2>3 DEF Open
<1> QED BY <1>1

\* A step after which each transaction is as it was, or is over.
LEMMA TransactionsStay ==
  ASSUME ReviewInv, NEW f, Softens(f), \A u \in Tx : Open(u) => ClaimsLeft(u),
         tx' = [t \in Tx |-> tx'[t]], \A u \in Tx : tx'[u] = tx[u] \/ tx'[u] = Idle
  PROVE  TransactionsFit'
<1>1. PICK T : T = {u \in Tx : Open(u) /\ tx'[u] = tx[u]}
  OBVIOUS
<1>2. \A u \in T : Open(u)' /\ TransactionFits(u)' /\ AssessmentFits(u)'
  BY <1>1, BystandersStay, SoftenedLeavesAlone DEF Softens
<1>3. \A u \in Tx : Open(u)' => u \in T
  BY <1>1 DEF Open
<1>4. LocksHold'
  BY <1>1, <1>3 DEF ReviewInv, TransactionsFit, LocksHold
<1> QED BY <1>2, <1>3, <1>4 DEF TransactionsFit

\* Most steps: what they change is a state here and there.
LEMMA QuietStep ==
  ASSUME ReviewInv, NEW f, Softens(f), UNCHANGED claims,
         tx' = [t \in Tx |-> tx'[t]], \A u \in Tx : tx'[u] = tx[u] \/ tx'[u] = Idle
  PROVE  AttestationsFit' /\ CorrectionsFit' /\ ClaimsFollow' /\ ClaimsFit' /\ TransactionsFit'
<1>1. RanksStay /\ \A u \in Tx : ClaimsLeft(u)
  BY DEF RanksStay, ClaimsLeft
<1>2. ClaimsFit'
  BY DEF ReviewInv, ClaimsFit
<1> QED BY <1>1, <1>2, SoftenedFits, TransactionsStay

LEMMA CasesStay ==
  ASSUME ReviewInv, UNCHANGED cases, DOMAIN claims \subseteq DOMAIN claims'
  PROVE  CasesFit'
BY DEF ReviewInv, CasesFit

LEMMA RequestsStay ==
  ASSUME ReviewInv, UNCHANGED requests, DOMAIN attestations \subseteq DOMAIN attestations'
  PROVE  RequestsFit'
BY DEF ReviewInv, RequestsFit

LEMMA NothingSoftened ==
  ASSUME ReviewInv, UNCHANGED attestations, NEW f, DOMAIN f = {}
  PROVE  Softens(f)
BY NothingWritten DEF ReviewInv, Softens

\* Nothing but cases, requests, disputes, credentials and signals.
LEMMA AroundReviews ==
  ASSUME ReviewInv, UNCHANGED <<claims, attestations, tx>>
  PROVE  AttestationsFit' /\ CorrectionsFit' /\ ClaimsFollow' /\ ClaimsFit' /\ TransactionsFit'
<1>1. PICK f : f = [b \in {} |-> "active"]
  OBVIOUS
<1>2. DOMAIN f = {}
  BY <1>1
<1>3. Softens(f)
  BY <1>2, NothingSoftened
<1>4. tx' = [t \in Tx |-> tx'[t]] /\ \A u \in Tx : tx'[u] = tx[u]
  BY DEF ReviewInv, TransactionsFit
<1> QED BY <1>3, <1>4, QuietStep

-----------------------------------------------------------------------------
(* Steps around the reviews.                                                *)

LEMMA CaseWritten ==
  ASSUME ReviewInv, NEW c \in DOMAIN cases, NEW row, cases' = [cases EXCEPT ![c] = row], UNCHANGED claims,
         {"state", "claims", "assigned", "snapshot"} \subseteq DOMAIN row, row.claims = cases[c].claims
  PROVE  CasesFit'
<1>1. /\ IsTable(cases') /\ DOMAIN cases' = DOMAIN cases
      /\ \A i \in DOMAIN cases : cases'[i] = IF i = c THEN row ELSE cases[i]
  BY TableRowWritten DEF ReviewInv, CasesFit
<1> QED BY <1>1 DEF ReviewInv, CasesFit

LEMMA CreateCaseKeeps ==
  ASSUME ReviewInv, NEW o, NEW r, NEW scope, NEW d, CreateCase(o, r, scope, d)
  PROVE  ReviewInv'
<1>1. PICK row : row = [state |-> "assigned", claims |-> scope, assigned |-> <<assignReviewer(r, o, scope, d).row>>,
                        snapshot |-> buildEvidenceSnapshot(scope)]
  OBVIOUS
<1>2. cases' = Append(cases, row) /\ scope \subseteq DOMAIN claims
  BY <1>1 DEF CreateCase
<1>3. IsTable(cases)
  BY DEF ReviewInv, CasesFit
<1>4. /\ IsTable(cases') /\ DOMAIN cases' = DOMAIN cases \cup {Len(cases) + 1}
      /\ \A i \in DOMAIN cases : cases'[i] = cases[i]
      /\ cases'[Len(cases) + 1] = row
  BY <1>2, <1>3, TableGrows
<1>5. {"state", "claims", "assigned", "snapshot"} \subseteq DOMAIN row /\ row.claims = scope
  BY <1>1
<1>6. UNCHANGED <<claims, attestations, tx, requests>>
  BY DEF CreateCase
<1>7. CasesFit'
  BY <1>2, <1>4, <1>5, <1>6 DEF ReviewInv, CasesFit
<1> QED BY <1>6, <1>7, AroundReviews, RequestsStay DEF ReviewInv

LEMMA CaseChangesKeep ==
  ASSUME ReviewInv, CaseChanges
  PROVE  ReviewInv'
<1>1. UNCHANGED <<claims, attestations, tx, requests>>
  BY DEF CaseChanges, TransitionCase, RevokeAssignment, Reassign
<1>2. PICK c \in DOMAIN cases :
        \/ \E to \in {"in_review", "changes_requested", "declined", "cancelled"} : TransitionCase(c, to)
        \/ RevokeAssignment(c)
        \/ \E o \in Officer, r \in Reviewer, d \in Disclosure : Reassign(c, o, r, d)
  BY DEF CaseChanges
<1>3. {"state", "claims", "assigned", "snapshot"} \subseteq DOMAIN cases[c]
  BY DEF ReviewInv, CasesFit
<1>4. ASSUME NEW to, TransitionCase(c, to) PROVE CasesFit'
  <2>1. PICK row : row = [cases[c] EXCEPT !.state = to]
    OBVIOUS
  <2>2. cases' = [cases EXCEPT ![c] = row]
    BY <1>4, <2>1 DEF TransitionCase
  <2>3. {"state", "claims", "assigned", "snapshot"} \subseteq DOMAIN row /\ row.claims = cases[c].claims
    BY <1>3, <2>1
  <2> QED BY <1>1, <2>2, <2>3, CaseWritten
<1>5. ASSUME RevokeAssignment(c) PROVE CasesFit'
  <2>1. PICK row : row = [cases[c] EXCEPT !.assigned[Latest(c)].revoked = TRUE]
    OBVIOUS
  <2>2. cases' = [cases EXCEPT ![c] = row]
    BY <1>5, <2>1 DEF RevokeAssignment
  <2>3. {"state", "claims", "assigned", "snapshot"} \subseteq DOMAIN row /\ row.claims = cases[c].claims
    BY <1>3, <2>1
  <2> QED BY <1>1, <2>2, <2>3, CaseWritten
<1>6. ASSUME NEW o, NEW r, NEW d, Reassign(c, o, r, d) PROVE CasesFit'
  <2>1. PICK list : cases' = [cases EXCEPT ![c].assigned = list]
    BY <1>6 DEF Reassign
  <2>2. PICK row : row = [cases[c] EXCEPT !.assigned = list]
    OBVIOUS
  <2>3. cases' = [cases EXCEPT ![c] = row]
    BY <2>1, <2>2
  <2>4. {"state", "claims", "assigned", "snapshot"} \subseteq DOMAIN row /\ row.claims = cases[c].claims
    BY <1>3, <2>2
  <2> QED BY <1>1, <2>3, <2>4, CaseWritten
<1> QED BY <1>1, <1>2, <1>4, <1>5, <1>6, AroundReviews, RequestsStay DEF ReviewInv

LEMMA RequestSignatureKeeps ==
  ASSUME ReviewInv, NEW a, RequestSignature(a)
  PROVE  ReviewInv'
<1>1. PICK row : row = [att |-> a, snapshot |-> attestations[a].snapshot, state |-> "open"]
  OBVIOUS
<1>2. requests' = Append(requests, row) /\ a \in DOMAIN attestations
  BY <1>1 DEF RequestSignature
<1>3. IsTable(requests)
  BY DEF ReviewInv, RequestsFit
<1>4. /\ IsTable(requests') /\ DOMAIN requests' = DOMAIN requests \cup {Len(requests) + 1}
      /\ \A i \in DOMAIN requests : requests'[i] = requests[i]
      /\ requests'[Len(requests) + 1] = row
  BY <1>2, <1>3, TableGrows
<1>5. {"att", "snapshot", "state"} \subseteq DOMAIN row /\ row.att = a
  BY <1>1
<1>6. UNCHANGED <<claims, attestations, tx, cases>>
  BY DEF RequestSignature
<1>7. RequestsFit'
  BY <1>2, <1>4, <1>5, <1>6 DEF ReviewInv, RequestsFit
<1> QED BY <1>6, <1>7, AroundReviews, CasesStay DEF ReviewInv

LEMMA ElsewhereKeeps ==
  ASSUME ReviewInv, UNCHANGED <<cases, claims, attestations, requests, tx>>
  PROVE  ReviewInv'
BY AroundReviews, CasesStay, RequestsStay DEF ReviewInv

-----------------------------------------------------------------------------
(* Disputes, and a basis that is shaken.                                    *)

LEMMA RaiseDisputeKeeps ==
  ASSUME ReviewInv, NEW a, RaiseDispute(a)
  PROVE  ReviewInv'
<1>1. PICK f : f = [b \in {a} |-> "disputed"]
  OBVIOUS
<1>2. UNCHANGED <<cases, claims, requests, tx>> /\ a \in DOMAIN attestations /\ AttestationFree(a)
      /\ attestations' = [attestations EXCEPT ![a].state = "disputed"]
      /\ (attestations[a].state = "disputed" \/ "disputed" \in attestationMachine[attestations[a].state])
  BY DEF RaiseDispute
<1>3. Rewrites(f)
  BY <1>1, <1>2, OneStateWritten DEF ReviewInv
<1>4. attestations[a].state \in Live
  BY <1>2 DEF ReviewInv, AttestationsFit, AttestationStates, attestationMachine, Live
<1>5. Softens(f)
  BY <1>1, <1>2, <1>3, <1>4 DEF Softens, Live
<1>6. tx' = [t \in Tx |-> tx'[t]] /\ \A u \in Tx : tx'[u] = tx[u]
  BY <1>2 DEF ReviewInv, TransactionsFit
<1>7. DOMAIN attestations' = DOMAIN attestations
  BY <1>3 DEF Rewrites
<1> QED BY <1>2, <1>5, <1>6, <1>7, QuietStep, CasesStay, RequestsStay DEF ReviewInv

LEMMA RolledBack ==
  ASSUME ReviewInv, NEW t \in Tx, Rollback(t)
  PROVE  tx' = [u \in Tx |-> tx'[u]] /\ tx'[t] = Idle /\ \A u \in Tx \ {t} : tx'[u] = tx[u]
BY DEF ReviewInv, TransactionsFit, Rollback

LEMMA ResolveWritesKeeps ==
  ASSUME ReviewInv, NEW t \in Tx, ResolveWrites(t)
  PROVE  ReviewInv'
<1>1. UNCHANGED <<cases, claims, requests>> /\ Rollback(t)
  BY DEF ResolveWrites
<1>2. PICK a : a = tx[t].att
  OBVIOUS
<1>3. PICK f : f = [b \in {b \in {a} \cap DOMAIN attestations : tx[t].writing /\ attestations[b].state = "disputed"} |-> "active"]
  OBVIOUS
<1>4. /\ DOMAIN f = {b \in {a} \cap DOMAIN attestations : tx[t].writing /\ attestations[b].state = "disputed"}
      /\ \A b \in DOMAIN f : f[b] = "active"
  BY <1>3
<1>5. Rewrites(f)
  <2>1. CASE tx[t].writing
    <3>1. PICK s : s = Restored(a)
      OBVIOUS
    <3>2. attestations' = [attestations EXCEPT ![a].state = s]
      BY <1>2, <2>1, <3>1 DEF ResolveWrites
    <3>3. PICK g : g = [b \in {a} |-> s]
      OBVIOUS
    <3>4. Rewrites(g)
      BY <3>2, <3>3, OneStateWritten DEF ReviewInv
    <3>5. \A b \in DOMAIN attestations :
            (IF b \in DOMAIN g THEN g[b] ELSE attestations[b].state)
              = (IF b \in DOMAIN f THEN f[b] ELSE attestations[b].state)
      BY <1>4, <2>1, <3>1, <3>3 DEF Restored
    <3> QED BY <3>4, <3>5 DEF Rewrites
  <2>2. CASE ~tx[t].writing
    <3>1. UNCHANGED attestations
      BY <2>2 DEF ResolveWrites
    <3>2. DOMAIN f = {}
      BY <1>4, <2>2
    <3> QED BY <3>1, <3>2, NothingWritten DEF ReviewInv
  <2> QED BY <2>1, <2>2
<1>6. tx[t].writing => AttestationFree(a)
  BY <1>2 DEF ResolveWrites
<1>7. Softens(f)
  BY <1>4, <1>5, <1>6 DEF Softens, Live
<1>8. DOMAIN attestations' = DOMAIN attestations
  BY <1>5 DEF Rewrites
<1>9. tx' = [u \in Tx |-> tx'[u]] /\ \A u \in Tx : tx'[u] = tx[u] \/ tx'[u] = Idle
  BY <1>1, RolledBack
<1> QED BY <1>1, <1>7, <1>8, <1>9, QuietStep, CasesStay, RequestsStay DEF ReviewInv

LEMMA Unsettled ==
  ASSUME ReviewInv, NEW shaken, shaken \subseteq Active, Unsettle(shaken)
  PROVE  \E f : Softens(f)
<1>1. PICK f : f = [a \in shaken |-> "stale_candidate"]
  OBVIOUS
<1>2. attestations' = WithStates(f) /\ \A a \in shaken : AttestationFree(a)
  BY <1>1 DEF Unsettle
<1>3. Rewrites(f)
  BY <1>2, StatesWritten DEF ReviewInv
<1>4. DOMAIN f = shaken /\ \A a \in shaken : f[a] = "stale_candidate"
  BY <1>1
<1>5. Softens(f)
  BY <1>2, <1>3, <1>4 DEF Softens, Active, Live
<1> QED BY <1>5

LEMMA ShakenBasisKeeps ==
  ASSUME ReviewInv, NEW shaken, shaken \subseteq Active, Unsettle(shaken), UNCHANGED <<cases, claims, requests, tx>>
  PROVE  ReviewInv'
<1>1. PICK f : Softens(f)
  BY Unsettled
<1>2. tx' = [t \in Tx |-> tx'[t]] /\ \A u \in Tx : tx'[u] = tx[u]
  BY DEF ReviewInv, TransactionsFit
<1>3. DOMAIN attestations' = DOMAIN attestations
  BY <1>1 DEF Softens, Rewrites
<1> QED BY <1>1, <1>2, <1>3, QuietStep, CasesStay, RequestsStay DEF ReviewInv

LEMMA RecordConflictKeeps ==
  ASSUME ReviewInv, NEW k, RecordConflict(k)
  PROVE  ReviewInv'
<1>1. UNCHANGED <<cases, attestations, requests, tx>> /\ k \in DOMAIN claims /\ ClaimFree(k)
  BY DEF RecordConflict
<1>2. PICK types : claims' = [claims EXCEPT ![k].conflicts = 1,
                                ![k].grade = computeClaimGrade(claims[k].rank, claims[k].tier, types, 1)]
  BY DEF RecordConflict
<1>3. PICK g : g = computeClaimGrade(claims[k].rank, claims[k].tier, types, 1)
  OBVIOUS
<1>4. PICK r1 : r1 = [claims[k] EXCEPT !.conflicts = 1]
  OBVIOUS
<1>5. PICK row : row = [r1 EXCEPT !.grade = g]
  OBVIOUS
<1>6. {"rank", "grade", "tier", "conflicts", "stale", "successor"} \subseteq DOMAIN claims[k]
      /\ claims[k].rank \in Ranks /\ claims = [i \in DOMAIN claims |-> claims[i]]
  BY <1>1 DEF ReviewInv, ClaimsFit
<1>7. /\ {"rank", "grade", "tier", "conflicts", "stale", "successor"} \subseteq DOMAIN r1
      /\ r1.rank = claims[k].rank /\ r1.conflicts = 1
  BY <1>4, <1>6
<1>8. /\ {"rank", "grade", "tier", "conflicts", "stale", "successor"} \subseteq DOMAIN row
      /\ row.rank = claims[k].rank /\ row.conflicts = 1 /\ row.grade = g
  BY <1>5, <1>7
<1>9. g # "verified"
  BY <1>3 DEF computeClaimGrade
<1>10. claims' = [claims EXCEPT ![k] = row]
  BY <1>2, <1>3, <1>4, <1>5
<1>11. DOMAIN claims' = DOMAIN claims /\ claims' = [i \in DOMAIN claims |-> claims'[i]]
       /\ \A i \in DOMAIN claims : claims'[i] = IF i = k THEN row ELSE claims[i]
  BY <1>10
<1>12. ClaimsFit'
  BY <1>8, <1>9, <1>11 DEF ReviewInv, ClaimsFit
<1>13. RanksStay
  BY <1>8, <1>11 DEF RanksStay
<1>14. \A u \in Tx : Open(u) => ClaimsLeft(u)
  BY <1>1, <1>11 DEF ClaimsLeft, ClaimFree
<1>15. PICK f : f = [b \in {} |-> "active"]
  OBVIOUS
<1>16. DOMAIN f = {}
  BY <1>15
<1>17. Softens(f)
  BY <1>1, <1>16, NothingSoftened
<1>18. tx' = [t \in Tx |-> tx'[t]] /\ \A u \in Tx : tx'[u] = tx[u]
  BY <1>1 DEF ReviewInv, TransactionsFit
<1>19. TransactionsFit'
  BY <1>14, <1>17, <1>18, TransactionsStay
<1> QED BY <1>1, <1>11, <1>12, <1>13, <1>17, <1>19, SoftenedFits, CasesStay, RequestsStay DEF ReviewInv

LEMMA NextClaim ==
  ASSUME NEW n \in Nat, n # 0
  PROVE  Max(1 .. n) = n
<1>1. PICK S : S = 1 .. n
  OBVIOUS
<1>2. PICK m : m = CHOOSE x \in S : \A y \in S : x >= y
  OBVIOUS
<1>3. n \in S /\ \A y \in S : n >= y
  BY <1>1
<1>4. m \in S /\ \A y \in S : m >= y
  BY <1>2, <1>3
<1>5. m = n
  BY <1>1, <1>3, <1>4
<1> QED BY <1>1, <1>2, <1>5 DEF Max

LEMMA CorrectClaimKeeps ==
  ASSUME ReviewInv, NEW k, CorrectClaim(k)
  PROVE  ReviewInv'
<1>1. UNCHANGED <<cases, requests, tx>> /\ k \in DOMAIN claims
  BY DEF CorrectClaim
<1>2. PICK n \in Nat : DOMAIN claims = 1 .. n
  BY DEF ReviewInv, ClaimsFit
<1>3. PICK new : new = Max(DOMAIN claims) + 1
  OBVIOUS
<1>4. new = n + 1
  <2>1. n # 0
    BY <1>1, <1>2
  <2> QED BY <1>2, <1>3, <2>1, NextClaim
<1>5. PICK c1 : c1 = [claims EXCEPT ![k].successor = new, ![k].stale = TRUE]
  OBVIOUS
<1>6. PICK first : first = NewClaim(Tier[new])
  OBVIOUS
<1>7. claims' = With(c1, new, first)
  BY <1>3, <1>5, <1>6 DEF CorrectClaim
<1>8. PICK r1 : r1 = [claims[k] EXCEPT !.successor = new]
  OBVIOUS
<1>9. PICK row : row = [r1 EXCEPT !.stale = TRUE]
  OBVIOUS
<1>10. {"rank", "grade", "tier", "conflicts", "stale", "successor"} \subseteq DOMAIN claims[k]
      /\ claims = [i \in DOMAIN claims |-> claims[i]]
  BY <1>1 DEF ReviewInv, ClaimsFit
<1>11. /\ {"rank", "grade", "tier", "conflicts", "stale", "successor"} \subseteq DOMAIN r1
       /\ r1.rank = claims[k].rank /\ r1.conflicts = claims[k].conflicts /\ r1.grade = claims[k].grade
  BY <1>8, <1>10
<1>12. /\ {"rank", "grade", "tier", "conflicts", "stale", "successor"} \subseteq DOMAIN row
       /\ row.rank = claims[k].rank /\ row.conflicts = claims[k].conflicts /\ row.grade = claims[k].grade
  BY <1>9, <1>11
<1>13. c1 = [claims EXCEPT ![k] = row]
  BY <1>5, <1>8, <1>9
<1>14. DOMAIN c1 = 1 .. n /\ \A i \in DOMAIN claims : c1[i] = IF i = k THEN row ELSE claims[i]
  BY <1>2, <1>13
<1>15. /\ DOMAIN claims' = 1 .. n + 1 /\ claims' = [i \in DOMAIN claims' |-> claims'[i]]
       /\ claims'[n + 1] = first /\ n + 1 \notin DOMAIN claims
       /\ \A i \in DOMAIN claims : claims'[i] = IF i = k THEN row ELSE claims[i]
  <2>1. DOMAIN claims' = (1 .. n) \cup {n + 1} /\ claims' = [i \in DOMAIN claims' |-> claims'[i]]
        /\ \A i \in (1 .. n) \cup {n + 1} : claims'[i] = IF i = n + 1 THEN first ELSE c1[i]
    BY <1>4, <1>7, <1>14 DEF With
  <2>2. (1 .. n) \cup {n + 1} = 1 .. n + 1 /\ n + 1 \notin 1 .. n
    OBVIOUS
  <2> QED BY <1>2, <1>14, <2>1, <2>2
<1>16. /\ {"rank", "grade", "tier", "conflicts", "stale", "successor"} \subseteq DOMAIN first
       /\ first.rank = 0 /\ first.conflicts = 0 /\ first.grade = "unverified"
  BY <1>6 DEF NewClaim
<1>17. \A i \in DOMAIN claims' : i \in DOMAIN claims \/ i = n + 1
  BY <1>2, <1>15
<1>18. ClaimsFit'
  <2>1. \A i \in DOMAIN claims' :
       /\ {"rank", "grade", "tier", "conflicts", "stale", "successor"} \subseteq DOMAIN claims'[i]
       /\ claims'[i].rank \in Ranks
       /\ claims'[i].grade = "verified" => claims'[i].conflicts = 0
    BY <1>12, <1>15, <1>16, <1>17 DEF ReviewInv, ClaimsFit, Ranks
  <2> QED BY <1>15, <2>1 DEF ClaimsFit
<1>19. RanksStay
  BY <1>2, <1>12, <1>15, <1>16, <1>17 DEF RanksStay
<1>20. \A u \in Tx : ClaimsLeft(u)
  BY <1>12, <1>15, <1>16, <1>17 DEF ClaimsLeft
<1>21. PICK shaken : shaken = {a \in Active : k \in attestations[a].scope /\ ~claims[k].stale}
  OBVIOUS
<1>22. Unsettle(shaken) /\ shaken \subseteq Active
  BY <1>21 DEF CorrectClaim
<1>23. PICK f : Softens(f)
  BY <1>22, Unsettled
<1>24. tx' = [t \in Tx |-> tx'[t]] /\ \A u \in Tx : tx'[u] = tx[u]
  BY <1>1 DEF ReviewInv, TransactionsFit
<1>25. TransactionsFit'
  BY <1>20, <1>23, <1>24, TransactionsStay
<1>26. DOMAIN attestations' = DOMAIN attestations /\ DOMAIN claims \subseteq DOMAIN claims'
  BY <1>19, <1>23 DEF Softens, Rewrites, RanksStay
<1> QED BY <1>1, <1>18, <1>19, <1>23, <1>25, <1>26, SoftenedFits, CasesStay, RequestsStay DEF ReviewInv

LEMMA BasisChangesKeep ==
  ASSUME ReviewInv, BasisChanges
  PROVE  ReviewInv'
<1>1. ASSUME NEW r, NEW to, NEW o, ChangeCredential(r, to, o) PROVE ReviewInv'
  <2>1. PICK shaken : shaken = IF to = "valid" THEN {}
              ELSE {a \in Active : Holder(attestations[a].case, attestations[a].assignment) = r}
    OBVIOUS
  <2>2. Unsettle(shaken) /\ shaken \subseteq Active
    BY <1>1, <2>1 DEF ChangeCredential
  <2> QED BY <1>1, <2>2, ShakenBasisKeeps DEF ChangeCredential
<1>2. ASSUME NEW r, sweep_credential_expiry(r) PROVE ReviewInv'
  <2>1. PICK shaken : shaken = {a \in Active : Holder(attestations[a].case, attestations[a].assignment) = r}
    OBVIOUS
  <2>2. Unsettle(shaken) /\ shaken \subseteq Active
    BY <1>2, <2>1 DEF sweep_credential_expiry
  <2> QED BY <1>2, <2>2, ShakenBasisKeeps DEF sweep_credential_expiry
<1>3. ASSUME SchemaSuperseded PROVE ReviewInv'
  BY <1>3, ShakenBasisKeeps DEF SchemaSuperseded
<1>4. ASSUME IssuerChanges PROVE ReviewInv'
  BY <1>4, ElsewhereKeeps DEF IssuerChanges
<1> QED BY <1>1, <1>2, <1>3, <1>4, RecordConflictKeeps, CorrectClaimKeeps DEF BasisChanges

-----------------------------------------------------------------------------
(* A draft: it stands for nothing yet.                                      *)

\* What a transaction holds is there.
LEMMA HeldRows ==
  ASSUME ReviewInv, NEW u \in Tx, Open(u)
  PROVE  DOMAIN tx[u].atts \subseteq DOMAIN attestations
<1>1. TransactionFits(u)
  BY DEF ReviewInv, TransactionsFit
<1>2. CASE tx[u].op = "resolve" \/ ~tx[u].writing
  BY <1>1, <1>2 DEF TransactionFits
<1>3. CASE tx[u].op \in {"sign", "revoke"} /\ tx[u].writing
  <2>1. PICK a \in DOMAIN attestations : a = tx[u].att
    BY <1>1, <1>3 DEF TransactionFits
  <2>2. DOMAIN tx[u].atts = {a} \/ DOMAIN tx[u].atts = {a} \cup Replaced(a)
    BY <1>1, <1>3, <2>1 DEF TransactionFits, Signs, Revokes
  <2>3. \A p \in Replaced(a) : p \in DOMAIN attestations
    BY Predecessor DEF ReviewInv
  <2> QED BY <2>2, <2>3
<1> QED BY <1>1, <1>2, <1>3 DEF TransactionFits

\* The new row is a draft.
Drafted(row) ==
  /\ attestations' = Append(attestations, row) /\ UNCHANGED <<claims, requests, tx>>
  /\ Fixed \subseteq DOMAIN row /\ row.state = "draft" /\ row.type \in DOMAIN STATE_ESTABLISHED_BY
  /\ row.scope \subseteq DOMAIN claims
  /\ row.supersedes = None \/ /\ row.supersedes \in DOMAIN attestations
                              /\ attestations[row.supersedes].scope \subseteq row.scope

LEMMA DraftAdded ==
  ASSUME ReviewInv, NEW row, Drafted(row)
  PROVE  /\ IsTable(attestations')
         /\ DOMAIN attestations' = DOMAIN attestations \cup {Len(attestations) + 1}
         /\ DOMAIN attestations = 1 .. Len(attestations) /\ Len(attestations) \in Nat
         /\ \A i \in DOMAIN attestations : attestations'[i] = attestations[i]
         /\ attestations'[Len(attestations) + 1] = row
BY TableGrows, TableIndexed DEF ReviewInv, AttestationsFit, Drafted

LEMMA DraftFits ==
  ASSUME ReviewInv, NEW row, Drafted(row)
  PROVE  AttestationsFit' /\ CorrectionsFit'
<1>1. PICK n \in Nat : n = Len(attestations)
  BY DraftAdded
<1>2. /\ IsTable(attestations') /\ DOMAIN attestations' = DOMAIN attestations \cup {n + 1}
      /\ DOMAIN attestations = 1 .. n
      /\ \A i \in DOMAIN attestations : attestations'[i] = attestations[i]
      /\ attestations'[n + 1] = row
  BY <1>1, DraftAdded
<1>3. ASSUME NEW a \in DOMAIN attestations, attestations[a].supersedes # None
      PROVE  /\ attestations[a].supersedes \in DOMAIN attestations
             /\ attestations[attestations[a].supersedes].scope \subseteq attestations[a].scope
  <2>1. attestations[a].supersedes \in Nat /\ attestations[a].supersedes < a /\ a \in 1 .. n
        /\ attestations[attestations[a].supersedes].scope \subseteq attestations[a].scope
    BY <1>2, <1>3 DEF ReviewInv, AttestationsFit
  <2> QED BY <1>2, <1>3, <2>1 DEF None
<1>4. AttestationsFit'
  <2>1. ASSUME NEW a \in DOMAIN attestations
        PROVE  /\ Fixed \subseteq DOMAIN attestations'[a]
               /\ attestations'[a].state \in AttestationStates
               /\ attestations'[a].type \in DOMAIN STATE_ESTABLISHED_BY
               /\ attestations'[a].scope \subseteq DOMAIN claims'
               /\ attestations'[a].supersedes \in Nat
               /\ attestations'[a].supersedes # None =>
                    /\ attestations'[a].supersedes < a
                    /\ attestations'[attestations'[a].supersedes].scope \subseteq attestations'[a].scope
    BY <1>2, <1>3 DEF ReviewInv, AttestationsFit, Drafted
  <2>2. /\ Fixed \subseteq DOMAIN row /\ row.state \in AttestationStates
        /\ row.type \in DOMAIN STATE_ESTABLISHED_BY /\ row.scope \subseteq DOMAIN claims'
    BY DEF Drafted, AttestationStates, attestationMachine
  <2>3. row.supersedes \in Nat
        /\ (row.supersedes # None => /\ row.supersedes < n + 1
                                     /\ attestations'[row.supersedes].scope \subseteq row.scope)
    BY <1>2 DEF Drafted, None
  <2> QED BY <1>2, <2>1, <2>2, <2>3 DEF AttestationsFit
<1>5. ASSUME NEW b \in DOMAIN attestations' PROVE ~Corrects(b, n + 1)'
  <2>1. CASE b \in DOMAIN attestations
    BY <1>2, <1>3, <2>1 DEF Corrects, None
  <2>2. CASE b = n + 1
    BY <1>2, <2>2 DEF Corrects, Drafted
  <2> QED BY <1>2, <2>1, <2>2
<1>6. \A a, b \in DOMAIN attestations : Corrects(b, a)' <=> Corrects(b, a)
  BY <1>2 DEF Corrects
<1>7. \A a \in DOMAIN attestations' : ~Corrects(n + 1, a)'
  BY <1>2 DEF Corrects, Drafted
<1>8. \A a \in DOMAIN attestations' :
        attestations'[a].state = "superseded" <=> \E b \in DOMAIN attestations' : Corrects(b, a)'
  <2>1. ASSUME NEW a \in DOMAIN attestations
        PROVE  attestations'[a].state = "superseded" <=> \E b \in DOMAIN attestations' : Corrects(b, a)'
    BY <1>2, <1>6, <1>7 DEF ReviewInv, CorrectionsFit
  <2>2. attestations'[n + 1].state # "superseded"
    BY <1>2 DEF Drafted
  <2> QED BY <1>2, <1>5, <2>1, <2>2
<1>9. \A a, b, c \in DOMAIN attestations' : Corrects(b, a)' /\ Corrects(c, a)' => b = c
  BY <1>2, <1>5, <1>6, <1>7 DEF ReviewInv, CorrectionsFit
<1> QED BY <1>4, <1>8, <1>9 DEF CorrectionsFit

LEMMA DraftStandsForNothing ==
  ASSUME ReviewInv, NEW row, Drafted(row)
  PROVE  ClaimsFollow' /\ \A u \in Tx : Open(u) => AssessmentFits(u)'
<1>1. PICK n \in Nat : n = Len(attestations)
  BY DraftAdded
<1>2. /\ DOMAIN attestations' = DOMAIN attestations \cup {n + 1}
      /\ \A i \in DOMAIN attestations : attestations'[i] = attestations[i]
      /\ attestations'[n + 1] = row /\ row.state = "draft" /\ n + 1 \notin DOMAIN attestations
      /\ UNCHANGED <<claims, tx>>
  BY <1>1, DraftAdded DEF Drafted
<1>3. ASSUME NEW k, NEW rank, NEW held, DOMAIN held \subseteq DOMAIN attestations, NEW s, NEW s2,
             s = [b \in DOMAIN attestations |-> IF b \in DOMAIN held THEN held[b] ELSE attestations[b].state],
             s2 = [b \in DOMAIN attestations' |-> IF b \in DOMAIN held THEN held[b] ELSE attestations'[b].state],
             Backed(rank, k, attestations, s)
      PROVE  Backed(rank, k, attestations', s2)
  <2>1. Softer(k, attestations, s, attestations', s2)
    BY <1>2, <1>3 DEF Softer
  <2> QED BY <1>3, <2>1, BackedStays
<1>4. ASSUME NEW k \in DOMAIN claims PROVE Backed(claims'[k].rank, k, attestations', Committed')
  <2>1. PICK held : held = [b \in {} |-> "draft"]
    OBVIOUS
  <2>2. PICK s : s = Committed
    OBVIOUS
  <2>3. PICK s2 : s2 = Committed'
    OBVIOUS
  <2>4. DOMAIN held = {}
        /\ s = [b \in DOMAIN attestations |-> IF b \in DOMAIN held THEN held[b] ELSE attestations[b].state]
        /\ s2 = [b \in DOMAIN attestations' |-> IF b \in DOMAIN held THEN held[b] ELSE attestations'[b].state]
    BY <2>1, <2>2, <2>3 DEF Committed
  <2>5. Backed(claims[k].rank, k, attestations, s)
    BY <2>2 DEF ReviewInv, ClaimsFollow
  <2>6. Backed(claims[k].rank, k, attestations', s2)
    BY <1>3, <2>4, <2>5
  <2> QED BY <1>2, <2>3, <2>6
<1>5. ASSUME NEW u \in Tx, Open(u) PROVE AssessmentFits(u)'
  <2>1. PICK held : held = tx[u].atts
    OBVIOUS
  <2>2. PICK s : s = After(u)
    OBVIOUS
  <2>3. PICK s2 : s2 = After(u)'
    OBVIOUS
  <2>4. DOMAIN held \subseteq DOMAIN attestations
        /\ s = [b \in DOMAIN attestations |-> IF b \in DOMAIN held THEN held[b] ELSE attestations[b].state]
        /\ s2 = [b \in DOMAIN attestations' |-> IF b \in DOMAIN held THEN held[b] ELSE attestations'[b].state]
    BY <1>2, <1>5, <2>1, <2>2, <2>3, HeldRows DEF After, SeenState
  <2>5. AssessmentFits(u)
    BY <1>5 DEF ReviewInv, TransactionsFit
  <2>6. \A k \in DOMAIN tx[u].marks : Backed(tx[u].marks[k].rank, k, attestations', s2)
    BY <1>3, <2>2, <2>4, <2>5 DEF AssessmentFits
  <2> QED BY <1>2, <2>3, <2>5, <2>6 DEF AssessmentFits
<1> QED BY <1>2, <1>4, <1>5 DEF ClaimsFollow

LEMMA DraftDisturbsNobody ==
  ASSUME ReviewInv, NEW row, Drafted(row), NEW u \in Tx, Open(u)
  PROVE  TransactionFits(u)'
<1>1. PICK n \in Nat : n = Len(attestations)
  BY DraftAdded
<1>2. /\ DOMAIN attestations' = DOMAIN attestations \cup {n + 1}
      /\ \A i \in DOMAIN attestations : attestations'[i] = attestations[i]
      /\ attestations'[n + 1] = row /\ row.state = "draft" /\ UNCHANGED tx
  BY <1>1, DraftAdded DEF Drafted
<1>3. TransactionFits(u)
  BY DEF ReviewInv, TransactionsFit
<1>4. ASSUME tx[u].op \in {"sign", "revoke"}, tx[u].writing
      PROVE  /\ IF tx[u].op = "sign" THEN Signs(u)' ELSE Revokes(u)'
             /\ attestations'[tx[u].att].scope \subseteq tx[u].todo \cup DOMAIN tx[u].marks
  <2>1. PICK a \in DOMAIN attestations : a = tx[u].att
    BY <1>3, <1>4 DEF TransactionFits
  <2>2. Replaced(a)' = Replaced(a)
    BY <1>2 DEF Replaced
  <2>3. CASE tx[u].op = "revoke"
    BY <1>2, <1>3, <1>4, <2>1, <2>3 DEF TransactionFits, Revokes
  <2>4. CASE tx[u].op = "sign"
    <3>1. Signs(u)
      BY <1>3, <1>4, <2>4 DEF TransactionFits
    <3>2. ASSUME NEW p \in Replaced(a)
          PROVE  /\ tx[u].atts[p] = "superseded" /\ attestations'[p].state \in Live
                 /\ \A b \in DOMAIN attestations' : b # a => ~Corrects(b, p)'
      <4>1. p \in DOMAIN attestations
        BY Predecessor DEF ReviewInv
      <4>2. tx[u].atts[p] = "superseded" /\ attestations[p].state \in Live
            /\ \A b \in DOMAIN attestations : b # a => ~Corrects(b, p)
        BY <2>1, <3>1 DEF Signs
      <4> QED BY <1>2, <4>1, <4>2 DEF Corrects
    <3>3. Signs(u)'
      BY <1>2, <2>1, <2>2, <3>1, <3>2 DEF Signs
    <3> QED BY <1>2, <1>3, <1>4, <2>1, <2>4, <3>3 DEF TransactionFits
  <2> QED BY <1>4, <2>3, <2>4
<1> QED BY <1>2, <1>3, <1>4 DEF TransactionFits

LEMMA DraftAttestationKeeps ==
  ASSUME ReviewInv, NEW c, NEW i, NEW body \in Bodies, NEW p \in {None} \cup DOMAIN attestations,
         DraftAttestation(c, i, body.scope, body.type, p)
  PROVE  ReviewInv'
<1>1. PICK row : row = DraftRow(c, i, body.scope, body.type, p)
  OBVIOUS
<1>2. c \in DOMAIN cases /\ UNCHANGED <<claims, requests, tx>>
  BY DEF DraftAttestation
<1>3. Drafted(row)
  <2>1. /\ Fixed \subseteq DOMAIN row /\ row.state = "draft" /\ row.type = body.type
        /\ row.scope = body.scope /\ row.supersedes = p
    BY <1>1 DEF DraftRow, Fixed
  <2>2. attestations' = Append(attestations, row) /\ body.scope \subseteq cases[c].claims
        /\ (p # None => attestations[p].scope \subseteq body.scope)
    BY <1>1 DEF DraftAttestation, assertSupersedable
  <2>3. cases[c].claims \subseteq DOMAIN claims
    BY <1>2 DEF ReviewInv, CasesFit
  <2> QED BY <1>2, <2>1, <2>2, <2>3, BodiesAssumption DEF Drafted
<1>4. CasesFit'
  <2>1. PICK s : s = IF cases[c].state = "assigned" THEN "in_review" ELSE cases[c].state
    OBVIOUS
  <2>2. PICK new : new = [cases[c] EXCEPT !.state = s]
    OBVIOUS
  <2>3. cases' = [cases EXCEPT ![c] = new]
    BY <2>1, <2>2 DEF DraftAttestation
  <2>4. {"state", "claims", "assigned", "snapshot"} \subseteq DOMAIN cases[c]
    BY <1>2 DEF ReviewInv, CasesFit
  <2>5. {"state", "claims", "assigned", "snapshot"} \subseteq DOMAIN new /\ new.claims = cases[c].claims
    BY <2>2, <2>4
  <2> QED BY <1>2, <2>3, <2>5, CaseWritten
<1>5. ClaimsFit'
  BY <1>2 DEF ReviewInv, ClaimsFit
<1>6. RequestsFit'
  BY <1>2, <1>3, DraftAdded, RequestsStay
<1>7. LocksHold' /\ tx' = [t \in Tx |-> tx'[t]] /\ \A u \in Tx : Open(u)' => Open(u)
  BY <1>2 DEF ReviewInv, TransactionsFit, LocksHold, Open
<1>8. \A u \in Tx : Open(u)' => TransactionFits(u)' /\ AssessmentFits(u)'
  BY <1>3, <1>7, DraftStandsForNothing, DraftDisturbsNobody
<1>9. TransactionsFit'
  BY <1>7, <1>8 DEF TransactionsFit
<1> QED BY <1>3, <1>4, <1>5, <1>6, <1>9, DraftFits, DraftStandsForNothing DEF ReviewInv

-----------------------------------------------------------------------------
(* A transaction begins, and writes.                                        *)

\* One transaction moves; what it then holds nobody else does.
LEMMA TransactionMoves ==
  ASSUME ReviewInv, NEW t \in Tx, NEW rec, tx' = [tx EXCEPT ![t] = rec],
         UNCHANGED <<cases, claims, attestations, requests>>,
         TransactionFits(t)', AssessmentFits(t)',
         \A u \in Tx \ {t} : Open(u) => /\ DOMAIN rec.atts \cap DOMAIN tx[u].atts = {}
                                        /\ DOMAIN rec.marks \cap DOMAIN tx[u].marks = {}
  PROVE  ReviewInv'
<1>1. PICK f : f = [b \in {} |-> "active"]
  OBVIOUS
<1>2. DOMAIN f = {} /\ Rewrites(f)
  BY <1>1, NothingWritten DEF ReviewInv
<1>3. PICK T : T = {u \in Tx \ {t} : Open(u)}
  OBVIOUS
<1>4. /\ tx' = [u \in Tx |-> tx'[u]] /\ tx'[t] = rec
      /\ \A u \in Tx \ {t} : tx'[u] = tx[u]
  BY DEF ReviewInv, TransactionsFit
<1>5. \A u \in T : Open(u) /\ tx'[u] = tx[u] /\ LeavesAlone(f, u) /\ ClaimsLeft(u)
  BY <1>2, <1>3, <1>4 DEF LeavesAlone, ClaimsLeft
<1>6. T \in SUBSET Tx
  BY <1>3
<1>7. \A u \in T : Open(u)' /\ TransactionFits(u)' /\ AssessmentFits(u)'
  BY <1>2, <1>5, <1>6, BystandersStay
<1>8. \A u \in Tx \ {t} : Open(u)' => u \in T
  BY <1>3, <1>4 DEF Open
<1>9. \A u \in Tx : Open(u)' => TransactionFits(u)' /\ AssessmentFits(u)'
  BY <1>7, <1>8
<1>10. LocksHold'
  <2>1. ASSUME NEW u \in Tx, NEW v \in Tx, Open(u)', Open(v)', u # v
        PROVE  DOMAIN tx'[u].atts \cap DOMAIN tx'[v].atts = {} /\ DOMAIN tx'[u].marks \cap DOMAIN tx'[v].marks = {}
    <3>1. CASE u # t /\ v # t
      BY <1>4, <2>1, <3>1 DEF ReviewInv, TransactionsFit, LocksHold, Open
    <3>2. CASE u = t
      BY <1>4, <2>1, <3>2 DEF Open
    <3>3. CASE v = t
      BY <1>4, <2>1, <3>3 DEF Open
    <3> QED BY <3>1, <3>2, <3>3
  <2> QED BY <2>1 DEF LocksHold
<1>11. TransactionsFit'
  BY <1>4, <1>9, <1>10 DEF TransactionsFit
<1>12. AttestationsFit' /\ CorrectionsFit' /\ ClaimsFit' /\ ClaimsFollow' /\ CasesFit' /\ RequestsFit'
  BY DEF ReviewInv, AttestationsFit, CorrectionsFit, Corrects, ClaimsFit, ClaimsFollow, Committed, CasesFit, RequestsFit
<1> QED BY <1>11, <1>12 DEF ReviewInv

LEMMA SignReadsKeeps ==
  ASSUME ReviewInv, NEW t \in Tx, NEW q, SignReads(t, q)
  PROVE  ReviewInv'
<1>1. PICK rec : rec = Started("sign", q, requests[q].att)
  OBVIOUS
<1>2. tx' = [tx EXCEPT ![t] = rec] /\ UNCHANGED <<cases, claims, attestations, requests>>
  BY <1>1 DEF SignReads, Begin
<1>3. requests[q].att \in DOMAIN attestations
  BY DEF SignReads, ReviewInv, RequestsFit
<1>4. /\ TransactionFields \subseteq DOMAIN rec /\ rec.op = "sign" /\ rec.att = requests[q].att
      /\ ~rec.writing /\ rec.todo = {} /\ DOMAIN rec.atts = {} /\ DOMAIN rec.marks = {}
  BY <1>1 DEF Started, TransactionFields
<1>5. tx'[t] = rec
  BY <1>2 DEF ReviewInv, TransactionsFit
<1>6. TransactionFits(t)' /\ AssessmentFits(t)'
  BY <1>2, <1>3, <1>4, <1>5 DEF TransactionFits, AssessmentFits
<1> QED BY <1>2, <1>4, <1>6, TransactionMoves

LEMMA ResolveReadsKeeps ==
  ASSUME ReviewInv, NEW t \in Tx, NEW d, NEW outcome, ResolveReads(t, d, outcome)
  PROVE  ReviewInv'
<1>1. PICK r0 : r0 = Started("resolve", d, disputes[d].att)
  OBVIOUS
<1>2. PICK w : w = (outcome = "dismissed" /\ Remaining(d) = {})
  OBVIOUS
<1>3. PICK r1 : r1 = [r0 EXCEPT !.writing = w]
  OBVIOUS
<1>4. PICK rec : rec = [r1 EXCEPT !.outcome = outcome]
  OBVIOUS
<1>5. tx' = [tx EXCEPT ![t] = rec] /\ UNCHANGED <<cases, claims, attestations, requests>>
  BY <1>1, <1>2, <1>3, <1>4 DEF ResolveReads, Begin
<1>6. /\ TransactionFields \subseteq DOMAIN r0 /\ r0.op = "resolve"
      /\ r0.todo = {} /\ DOMAIN r0.atts = {} /\ DOMAIN r0.marks = {}
  BY <1>1 DEF Started, TransactionFields
<1>7. /\ TransactionFields \subseteq DOMAIN rec /\ rec.op = "resolve"
      /\ rec.todo = {} /\ DOMAIN rec.atts = {} /\ DOMAIN rec.marks = {}
  BY <1>3, <1>4, <1>6 DEF TransactionFields
<1>8. tx'[t] = rec
  BY <1>5 DEF ReviewInv, TransactionsFit
<1>9. TransactionFits(t)' /\ AssessmentFits(t)'
  BY <1>5, <1>7, <1>8 DEF TransactionFits, AssessmentFits
<1> QED BY <1>5, <1>7, <1>9, TransactionMoves

LEMMA RevokeAttestationKeeps ==
  ASSUME ReviewInv, NEW t \in Tx, NEW a, RevokeAttestation(t, a)
  PROVE  ReviewInv'
<1>1. PICK r0 : r0 = Started("revoke", None, a)
  OBVIOUS
<1>2. PICK r1 : r1 = [r0 EXCEPT !.writing = TRUE]
  OBVIOUS
<1>3. PICK r2 : r2 = [r1 EXCEPT !.todo = attestations[a].scope]
  OBVIOUS
<1>4. PICK f : f = [b \in {a} |-> "revoked"]
  OBVIOUS
<1>5. PICK r3 : r3 = [r2 EXCEPT !.atts = f]
  OBVIOUS
<1>6. PICK e : e = [d \in {o \in {attestations[a].case} : "revoked" \in verificationCaseMachine[cases[o].state]} |-> "revoked"]
  OBVIOUS
<1>7. PICK rec : rec = [r3 EXCEPT !.cases = e]
  OBVIOUS
<1>8. /\ tx' = [tx EXCEPT ![t] = rec] /\ UNCHANGED <<cases, claims, attestations, requests>>
      /\ a \in DOMAIN attestations /\ AttestationFree(a) /\ "revoked" \in attestationMachine[attestations[a].state]
  BY <1>1, <1>2, <1>3, <1>4, <1>5, <1>6, <1>7 DEF RevokeAttestation, Begin
<1>9. /\ TransactionFields \subseteq DOMAIN r0 /\ r0.op = "revoke" /\ r0.att = a /\ DOMAIN r0.marks = {}
  BY <1>1 DEF Started, TransactionFields
<1>10. /\ TransactionFields \subseteq DOMAIN r2 /\ r2.op = "revoke" /\ r2.att = a /\ DOMAIN r2.marks = {}
       /\ r2.writing /\ r2.todo = attestations[a].scope
  BY <1>2, <1>3, <1>9 DEF TransactionFields
<1>11. /\ TransactionFields \subseteq DOMAIN rec /\ rec.op = "revoke" /\ rec.att = a /\ DOMAIN rec.marks = {}
       /\ rec.writing /\ rec.todo = attestations[a].scope /\ rec.atts = f
  BY <1>5, <1>7, <1>10 DEF TransactionFields
<1>12. DOMAIN f = {a} /\ f[a] = "revoked"
  BY <1>4
<1>13. attestations[a].state \in Live
  BY <1>8 DEF ReviewInv, AttestationsFit, AttestationStates, attestationMachine, Live
<1>14. tx'[t] = rec
  BY <1>8 DEF ReviewInv, TransactionsFit
<1>15. Revokes(t)'
  BY <1>8, <1>11, <1>12, <1>13, <1>14 DEF Revokes
<1>16. TransactionFits(t)' /\ AssessmentFits(t)'
  BY <1>8, <1>11, <1>14, <1>15 DEF TransactionFits, AssessmentFits
<1>17. \A u \in Tx \ {t} : Open(u) => DOMAIN rec.atts \cap DOMAIN tx[u].atts = {}
                                     /\ DOMAIN rec.marks \cap DOMAIN tx[u].marks = {}
  BY <1>8, <1>11, <1>12 DEF AttestationFree
<1> QED BY <1>8, <1>16, <1>17, TransactionMoves

\* The signature and what it replaces are locked, and can be written.
LEMMA SignWritesKeeps ==
  ASSUME ReviewInv, NEW t \in Tx, SignWrites(t)
  PROVE  ReviewInv'
<1>1. PICK a : a = tx[t].att
  OBVIOUS
<1>2. PICK held : held = {a} \cup Replaced(a)
  OBVIOUS
<1>3. /\ Open(t) /\ tx[t].op = "sign" /\ ~tx[t].writing /\ \A b \in held : AttestationFree(b)
      /\ UNCHANGED <<cases, claims, attestations, requests>>
  BY <1>1, <1>2 DEF SignWrites
<1>4. /\ TransactionFields \subseteq DOMAIN tx[t] /\ DOMAIN tx[t].marks = {} /\ a \in DOMAIN attestations
  BY <1>1, <1>3 DEF ReviewInv, TransactionsFit, TransactionFits
<1>5. CASE Rollback(t)
  <2>1. PICK f : f = [b \in {} |-> "active"]
    OBVIOUS
  <2>2. DOMAIN f = {}
    BY <2>1
  <2>3. Softens(f)
    BY <1>3, <2>2, NothingSoftened
  <2> QED BY <1>3, <1>5, <2>3, QuietStep, RolledBack, CasesStay, RequestsStay DEF ReviewInv
<1>6. CASE ~Rollback(t)
  <2>1. protect_signed_attestation(a) /\ (Replaced(a) # {} => supersedePredecessor(a))
    BY <1>1, <1>6 DEF SignWrites
  <2>2. PICK f : f = [b \in held |-> IF b = a THEN "signed" ELSE "superseded"]
    OBVIOUS
  <2>3. PICK e : tx' = [tx EXCEPT ![t].writing = TRUE, ![t].todo = attestations[a].scope,
                          ![t].atts = f, ![t].cases = e]
    BY <1>1, <1>2, <2>1, <2>2 DEF SignWrites
  <2>4. PICK r1 : r1 = [tx[t] EXCEPT !.writing = TRUE]
    OBVIOUS
  <2>5. PICK r2 : r2 = [r1 EXCEPT !.todo = attestations[a].scope]
    OBVIOUS
  <2>6. PICK r3 : r3 = [r2 EXCEPT !.atts = f]
    OBVIOUS
  <2>7. PICK rec : rec = [r3 EXCEPT !.cases = e]
    OBVIOUS
  <2>8. tx' = [tx EXCEPT ![t] = rec]
    BY <2>3, <2>4, <2>5, <2>6, <2>7
  <2>9. /\ TransactionFields \subseteq DOMAIN r2 /\ r2.op = "sign" /\ r2.att = a /\ DOMAIN r2.marks = {}
        /\ r2.writing /\ r2.todo = attestations[a].scope
    BY <1>1, <1>3, <1>4, <2>4, <2>5 DEF TransactionFields
  <2>10. /\ TransactionFields \subseteq DOMAIN rec /\ rec.op = "sign" /\ rec.att = a /\ DOMAIN rec.marks = {}
         /\ rec.writing /\ rec.todo = attestations[a].scope /\ rec.atts = f
    BY <2>6, <2>7, <2>9 DEF TransactionFields
  <2>11. tx'[t] = rec
    BY <2>8 DEF ReviewInv, TransactionsFit
  <2>12. DOMAIN f = {a} \cup Replaced(a) /\ f[a] = "signed" /\ attestations[a].state = "draft"
    BY <1>2, <2>1, <2>2 DEF protect_signed_attestation
  <2>13. ASSUME NEW p \in Replaced(a)
         PROVE  /\ f[p] = "superseded" /\ attestations[p].state \in Live
                /\ \A b \in DOMAIN attestations : b # a => ~Corrects(b, p)
    <3>1. p = attestations[a].supersedes /\ p # a /\ p \in DOMAIN attestations
      BY <1>4, Predecessor DEF ReviewInv
    <3>2. f[p] = "superseded"
      BY <1>2, <2>2, <3>1
    <3>3. /\ "superseded" \in attestationMachine[attestations[p].state]
          /\ \A b \in DOMAIN attestations \ {a} : attestations[b].supersedes = p => attestations[b].state = "draft"
      BY <2>1, <3>1 DEF supersedePredecessor
    <3>4. attestations[p].state \in Live
      BY <3>1, <3>3 DEF ReviewInv, AttestationsFit, AttestationStates, attestationMachine, Live
    <3>5. \A b \in DOMAIN attestations : b # a => ~Corrects(b, p)
      BY <3>3 DEF Corrects
    <3> QED BY <3>2, <3>4, <3>5
  <2>14. Signs(t)'
    BY <1>3, <2>10, <2>11, <2>12, <2>13 DEF Signs, Replaced, Corrects
  <2>15. TransactionFits(t)' /\ AssessmentFits(t)'
    BY <1>3, <1>4, <2>10, <2>11, <2>14 DEF TransactionFits, AssessmentFits
  <2>16. \A u \in Tx \ {t} : Open(u) => DOMAIN rec.atts \cap DOMAIN tx[u].atts = {}
                                       /\ DOMAIN rec.marks \cap DOMAIN tx[u].marks = {}
    BY <1>2, <1>3, <2>10, <2>12 DEF AttestationFree
  <2> QED BY <1>3, <2>8, <2>15, <2>16, TransactionMoves
<1> QED BY <1>5, <1>6

-----------------------------------------------------------------------------
(* A claim is assessed.                                                     *)

\* The rank that types of attestations establish is the highest of them.
LEMMA Derived ==
  ASSUME NEW types, types \subseteq DOMAIN STATE_ESTABLISHED_BY
  PROVE  /\ deriveVerificationState(types) \in Ranks
         /\ deriveVerificationState(types) = 0
            \/ \E ty \in types : deriveVerificationState(types) = STATE_ESTABLISHED_BY[ty]
         /\ \A ty \in types : STATE_ESTABLISHED_BY[ty] <= deriveVerificationState(types)
<1>1. PICK S : S = {0} \cup {STATE_ESTABLISHED_BY[ty] : ty \in types}
  OBVIOUS
<1>2. \A ty \in types : STATE_ESTABLISHED_BY[ty] \in {1, 2, 3}
  BY DEF STATE_ESTABLISHED_BY
<1>3. S \subseteq {0, 1, 2, 3} /\ 0 \in S
  BY <1>1, <1>2
<1>4. \E x \in S : \A y \in S : x >= y
  <2>1. CASE 3 \in S
    BY <1>3, <2>1
  <2>2. CASE 3 \notin S /\ 2 \in S
    BY <1>3, <2>2
  <2>3. CASE 3 \notin S /\ 2 \notin S /\ 1 \in S
    BY <1>3, <2>3
  <2>4. CASE 3 \notin S /\ 2 \notin S /\ 1 \notin S
    BY <1>3, <2>4
  <2> QED BY <2>1, <2>2, <2>3, <2>4
<1>5. PICK m : m = CHOOSE x \in S : \A y \in S : x >= y
  OBVIOUS
<1>6. m \in S /\ \A y \in S : m >= y
  BY <1>4, <1>5
<1>7. deriveVerificationState(types) = m
  BY <1>1, <1>5 DEF deriveVerificationState, Max
<1>8. m \in Ranks
  BY <1>3, <1>6 DEF Ranks
<1>9. m = 0 \/ \E ty \in types : m = STATE_ESTABLISHED_BY[ty]
  BY <1>1, <1>6
<1>10. \A ty \in types : STATE_ESTABLISHED_BY[ty] <= m
  BY <1>1, <1>3, <1>6
<1> QED BY <1>7, <1>8, <1>9, <1>10

LEMMA Assessed ==
  ASSUME ReviewInv, NEW t, NEW k
  PROVE  Backed(deriveVerificationState(standingAttestationTypes(t, k)), k, attestations, After(t))
<1>1. PICK s : s = After(t)
  OBVIOUS
<1>2. s = [b \in DOMAIN attestations |-> SeenState(t, b)]
  BY <1>1 DEF After
<1>3. PICK B : B = {b \in DOMAIN attestations : k \in attestations[b].scope /\ s[b] \in STANDING_ATTESTATION_STATES}
  OBVIOUS
<1>4. PICK types : types = {attestations[b].type : b \in B}
  OBVIOUS
<1>5. standingAttestationTypes(t, k) = types
  BY <1>2, <1>3, <1>4 DEF standingAttestationTypes
<1>6. types \subseteq DOMAIN STATE_ESTABLISHED_BY
  BY <1>3, <1>4 DEF ReviewInv, AttestationsFit
<1>7. PICK rank : rank = deriveVerificationState(types)
  OBVIOUS
<1>8. /\ rank \in Ranks
      /\ rank = 0 \/ \E ty \in types : rank = STATE_ESTABLISHED_BY[ty]
      /\ \A ty \in types : STATE_ESTABLISHED_BY[ty] <= rank
  BY <1>6, <1>7, Derived
<1>9. rank = 0 \/ \E b \in B : rank = STATE_ESTABLISHED_BY[attestations[b].type]
  BY <1>4, <1>8
<1>10. \A b \in B : STATE_ESTABLISHED_BY[attestations[b].type] <= rank
  BY <1>4, <1>8
<1>11. \A b \in B : b \in DOMAIN attestations /\ k \in attestations[b].scope /\ s[b] \in Live
  BY <1>3 DEF STANDING_ATTESTATION_STATES, Live
<1>12. \A b \in DOMAIN attestations : k \in attestations[b].scope /\ s[b] = "signed" => b \in B
  BY <1>3 DEF STANDING_ATTESTATION_STATES
<1>13. \A b \in B : STATE_ESTABLISHED_BY[attestations[b].type] \in {1, 2, 3}
  BY <1>4, <1>6 DEF STATE_ESTABLISHED_BY
<1>14. rank = 0 \/ \E b \in DOMAIN attestations :
         k \in attestations[b].scope /\ s[b] \in Live /\ rank <= STATE_ESTABLISHED_BY[attestations[b].type]
  BY <1>9, <1>11, <1>13
<1>15. \A b \in DOMAIN attestations : k \in attestations[b].scope /\ s[b] = "signed"
         => rank >= STATE_ESTABLISHED_BY[attestations[b].type]
  BY <1>8, <1>10, <1>12, <1>13 DEF Ranks
<1> QED BY <1>1, <1>5, <1>7, <1>8, <1>14, <1>15 DEF Backed

LEMMA ReassessClaimKeeps ==
  ASSUME ReviewInv, NEW t \in Tx, reassessClaim(t)
  PROVE  ReviewInv'
<1>1. PICK k : k = Min(tx[t].todo)
  OBVIOUS
<1>2. PICK types : types = standingAttestationTypes(t, k)
  OBVIOUS
<1>3. PICK rank : rank = deriveVerificationState(types)
  OBVIOUS
<1>4. PICK grade : grade = computeClaimGrade(rank, claims[k].tier, types, claims[k].conflicts)
  OBVIOUS
<1>5. PICK mark : mark = [rank |-> rank, grade |-> grade]
  OBVIOUS
<1>6. PICK m : m = With(tx[t].marks, k, mark)
  OBVIOUS
<1>7. PICK r1 : r1 = [tx[t] EXCEPT !.todo = tx[t].todo \ {k}]
  OBVIOUS
<1>8. PICK rec : rec = [r1 EXCEPT !.marks = m]
  OBVIOUS
<1>9. Open(t) /\ tx[t].writing /\ tx[t].todo # {} /\ ClaimFree(k) /\ UNCHANGED <<cases, claims, attestations, requests>>
  BY <1>1 DEF reassessClaim
<1>10. TransactionFits(t) /\ AssessmentFits(t)
  BY <1>9 DEF ReviewInv, TransactionsFit
<1>11. TransactionFields \subseteq DOMAIN tx[t] /\ tx[t].op \in {"sign", "revoke"}
  BY <1>9, <1>10 DEF TransactionFits
<1>12. tx' = [tx EXCEPT ![t] = rec]
  <2>1. tx' = [tx EXCEPT ![t].todo = @ \ {k}, ![t].marks = With(@, k, mark)]
    BY <1>1, <1>2, <1>3, <1>4, <1>5 DEF reassessClaim
  <2>2. r1.marks = tx[t].marks
    BY <1>7, <1>11 DEF TransactionFields
  <2> QED BY <1>6, <1>7, <1>8, <2>1, <2>2
<1>13. /\ TransactionFields \subseteq DOMAIN r1 /\ r1.op = tx[t].op /\ r1.att = tx[t].att /\ r1.atts = tx[t].atts
       /\ r1.writing /\ r1.todo = tx[t].todo \ {k}
  BY <1>7, <1>9, <1>11 DEF TransactionFields
<1>14. /\ TransactionFields \subseteq DOMAIN rec /\ rec.op = tx[t].op /\ rec.att = tx[t].att /\ rec.atts = tx[t].atts
       /\ rec.writing /\ rec.todo = tx[t].todo \ {k} /\ rec.marks = m
  BY <1>8, <1>13 DEF TransactionFields
<1>15. DOMAIN m = DOMAIN tx[t].marks \cup {k} /\ m[k] = mark
       /\ \A x \in DOMAIN tx[t].marks \ {k} : m[x] = tx[t].marks[x]
  BY <1>6 DEF With
<1>16. tx'[t] = rec
  BY <1>12 DEF ReviewInv, TransactionsFit
<1>17. TransactionFits(t)'
  <2>1. IF rec.op = "sign" THEN Signs(t)' ELSE Revokes(t)'
    BY <1>9, <1>10, <1>11, <1>14, <1>16 DEF TransactionFits, Signs, Revokes, Replaced, Corrects
  <2>2. attestations'[rec.att].scope \subseteq rec.todo \cup DOMAIN rec.marks
    BY <1>9, <1>10, <1>11, <1>14, <1>15 DEF TransactionFits
  <2>3. rec.att \in DOMAIN attestations'
    BY <1>9, <1>10, <1>11, <1>14 DEF TransactionFits
  <2> QED BY <1>11, <1>14, <1>16, <2>1, <2>2, <2>3 DEF TransactionFits
<1>18. AssessmentFits(t)'
  <2>1. After(t)' = After(t)
    BY <1>9, <1>14, <1>16 DEF After, SeenState
  <2>2. PICK s : s = After(t)
    OBVIOUS
  <2>3. /\ {"rank", "grade"} \subseteq DOMAIN mark /\ mark.rank = rank /\ mark.grade = grade
        /\ Backed(rank, k, attestations, s)
    BY <1>2, <1>3, <1>5, <2>2, Assessed
  <2>4. grade = "verified" => claims[k].conflicts = 0
    BY <1>4 DEF computeClaimGrade
  <2>5. \A x \in DOMAIN m : /\ {"rank", "grade"} \subseteq DOMAIN m[x] /\ Backed(m[x].rank, x, attestations, s)
                            /\ x \in DOMAIN claims /\ m[x].grade = "verified" => claims[x].conflicts = 0
    BY <1>10, <1>15, <2>2, <2>3, <2>4 DEF AssessmentFits
  <2> QED BY <1>9, <1>14, <1>16, <2>1, <2>2, <2>5 DEF AssessmentFits
<1>19. \A u \in Tx \ {t} : Open(u) => DOMAIN rec.atts \cap DOMAIN tx[u].atts = {}
                                     /\ DOMAIN rec.marks \cap DOMAIN tx[u].marks = {}
  BY <1>9, <1>14, <1>15 DEF ClaimFree, ReviewInv, TransactionsFit, LocksHold
<1> QED BY <1>9, <1>12, <1>17, <1>18, <1>19, TransactionMoves

-----------------------------------------------------------------------------
(* A transaction commits: what it holds is written, and what it has         *)
(* assessed becomes so.                                                     *)

\* t has assessed every claim it touches.
Ready(t) ==
  /\ Open(t) /\ tx[t].op \in {"sign", "revoke"} /\ tx[t].writing
  /\ attestations[tx[t].att].scope \subseteq DOMAIN tx[t].marks

LEMMA CommitFinds ==
  ASSUME ReviewInv, NEW t \in Tx, CommitReview(t)
  PROVE  /\ Ready(t) /\ TransactionFits(t) /\ AssessmentFits(t) /\ Rewrites(tx[t].atts)
         /\ tx' = [u \in Tx |-> tx'[u]] /\ tx'[t] = Idle /\ \A u \in Tx \ {t} : tx'[u] = tx[u]
<1>1. Open(t) /\ tx[t].op \in {"sign", "revoke"} /\ tx[t].writing /\ tx[t].todo = {} /\ Rollback(t)
      /\ attestations' = WithStates(tx[t].atts)
  BY DEF CommitReview
<1>2. TransactionFits(t) /\ AssessmentFits(t)
  BY <1>1 DEF ReviewInv, TransactionsFit
<1>3. attestations[tx[t].att].scope \subseteq DOMAIN tx[t].marks
  BY <1>1, <1>2 DEF TransactionFits
<1>4. Rewrites(tx[t].atts)
  BY <1>1, StatesWritten DEF ReviewInv
<1> QED BY <1>1, <1>2, <1>3, <1>4, RolledBack DEF Ready

\* What it writes, over which claims.
LEMMA CommitWrites ==
  ASSUME ReviewInv, NEW t \in Tx, Ready(t), TransactionFits(t), NEW b \in DOMAIN tx[t].atts
  PROVE  /\ b \in DOMAIN attestations /\ tx[t].atts[b] \in AttestationStates
         /\ attestations[b].scope \subseteq DOMAIN tx[t].marks
         /\ attestations[b].state = "draft" => b = tx[t].att /\ tx[t].op = "sign"
         /\ attestations[b].state \in Live \cup {"draft"}
<1>1. PICK a \in DOMAIN attestations : a = tx[t].att
  BY DEF Ready, TransactionFits
<1>2. attestations[a].scope \subseteq DOMAIN tx[t].marks
  BY <1>1 DEF Ready
<1>3. CASE tx[t].op = "revoke"
  <2>1. Revokes(t)
    BY <1>3 DEF Ready, TransactionFits
  <2> QED BY <1>1, <1>2, <1>3, <2>1 DEF Revokes, Live, AttestationStates, attestationMachine
<1>4. CASE tx[t].op = "sign"
  <2>1. Signs(t)
    BY <1>4 DEF Ready, TransactionFits
  <2>2. CASE b = a
    BY <1>1, <1>2, <1>4, <2>1, <2>2 DEF Signs, Live, AttestationStates, attestationMachine
  <2>3. CASE b # a
    <3>1. b \in Replaced(a)
      BY <1>1, <2>1, <2>3 DEF Signs
    <3>2. b \in DOMAIN attestations /\ attestations[b].scope \subseteq attestations[a].scope
      BY <3>1, Predecessor DEF ReviewInv
    <3>3. tx[t].atts[b] = "superseded" /\ attestations[b].state \in Live
      BY <1>1, <2>1, <3>1 DEF Signs
    <3> QED BY <1>2, <3>2, <3>3 DEF Live, AttestationStates, attestationMachine
  <2> QED BY <2>2, <2>3
<1> QED BY <1>3, <1>4 DEF Ready

LEMMA CommitLeavesOthersAlone ==
  ASSUME ReviewInv, NEW t \in Tx, Ready(t), TransactionFits(t), NEW u \in Tx \ {t}, Open(u)
  PROVE  LeavesAlone(tx[t].atts, u)
<1>1. PICK a \in DOMAIN attestations : a = tx[t].att
  BY DEF Ready, TransactionFits
<1>2. DOMAIN tx[t].atts \cap DOMAIN tx[u].atts = {} /\ DOMAIN tx[t].marks \cap DOMAIN tx[u].marks = {}
  BY DEF Ready, ReviewInv, TransactionsFit, LocksHold
<1>3. ASSUME NEW b \in DOMAIN tx[t].atts
      PROVE  /\ attestations[b].state = "draft" => attestations[b].supersedes \notin DOMAIN tx[u].atts
             /\ attestations[b].scope \cap DOMAIN tx[u].marks = {}
  <2>1. attestations[b].scope \cap DOMAIN tx[u].marks = {}
    BY <1>2, CommitWrites
  <2>2. ASSUME attestations[b].state = "draft" PROVE attestations[b].supersedes \notin DOMAIN tx[u].atts
    <3>1. b = a /\ tx[t].op = "sign"
      BY <1>1, <2>2, CommitWrites
    <3>2. CASE attestations[a].supersedes = None
      <4>1. DOMAIN tx[u].atts \subseteq DOMAIN attestations
        BY HeldRows
      <4>2. DOMAIN attestations = 1 .. Len(attestations) /\ Len(attestations) \in Nat
        BY TableIndexed DEF ReviewInv, AttestationsFit
      <4> QED BY <3>1, <3>2, <4>1, <4>2 DEF None
    <3>3. CASE attestations[a].supersedes # None
      <4>1. Signs(t)
        BY <3>1 DEF Ready, TransactionFits
      <4>2. attestations[a].supersedes \in DOMAIN tx[t].atts
        BY <1>1, <3>3, <4>1 DEF Signs, Replaced
      <4> QED BY <1>2, <3>1, <4>2
    <3> QED BY <3>2, <3>3
  <2> QED BY <2>1, <2>2
<1> QED BY <1>2, <1>3 DEF LeavesAlone

LEMMA CommitCorrects ==
  ASSUME ReviewInv, NEW t \in Tx, Ready(t), TransactionFits(t), Rewrites(tx[t].atts)
  PROVE  CorrectionsFit'
<1>1. PICK a \in DOMAIN attestations : a = tx[t].att
  BY DEF Ready, TransactionFits
<1>2. PICK f : f = tx[t].atts
  OBVIOUS
<1>3. Rewrites(f) /\ DOMAIN attestations' = DOMAIN attestations
  BY <1>2 DEF Rewrites
<1>4. CASE tx[t].op = "revoke"
  <2>1. Revokes(t)
    BY <1>4 DEF Ready, TransactionFits
  <2>2. \A b \in DOMAIN f : attestations[b].state \in Live /\ f[b] \in Live \cup {"revoked"}
    BY <1>1, <1>2, <2>1 DEF Revokes
  <2> QED BY <1>3, <2>2, CorrectionsStay DEF ReviewInv
<1>5. CASE tx[t].op = "sign"
  <2>1. Signs(t)
    BY <1>5 DEF Ready, TransactionFits
  <2>2. DOMAIN f = {a} \cup Replaced(a) /\ f[a] = "signed" /\ attestations[a].state = "draft"
    BY <1>1, <1>2, <2>1 DEF Signs
  <2>3. ASSUME NEW p \in Replaced(a)
        PROVE  /\ f[p] = "superseded" /\ attestations[p].state \in Live /\ p = attestations[a].supersedes
               /\ p # a /\ p \in DOMAIN attestations
               /\ \A b \in DOMAIN attestations : b # a => ~Corrects(b, p)
    BY <1>1, <1>2, <2>1, Predecessor DEF Signs, ReviewInv
  <2>4. \A x \in DOMAIN attestations : attestations[a].supersedes = x <=> x \in Replaced(a)
    <3>1. \A x \in DOMAIN attestations : x # None
      BY TableIndexed DEF ReviewInv, AttestationsFit, None
    <3> QED BY <3>1 DEF Replaced
  <2>5. \A x \in DOMAIN attestations :
          attestations'[x].state = IF x = a THEN "signed" ELSE IF x \in Replaced(a) THEN "superseded"
                                   ELSE attestations[x].state
    BY <1>3, <2>2, <2>3 DEF Rewrites
  <2>6. \A b, x \in DOMAIN attestations :
          Corrects(b, x)' <=> IF b = a THEN x \in Replaced(a) ELSE Corrects(b, x)
    BY <1>3, <2>3, <2>4, <2>5 DEF Corrects, Rewrites, Live
  <2>7. \A x \in DOMAIN attestations : ~Corrects(a, x)
    BY <2>2 DEF Corrects
  <2>8. ASSUME NEW x \in DOMAIN attestations
        PROVE  attestations'[x].state = "superseded" <=> \E b \in DOMAIN attestations : Corrects(b, x)'
    <3>1. CASE x \in Replaced(a)
      BY <2>3, <2>5, <2>6, <3>1
    <3>2. CASE x \notin Replaced(a)
      <4>1. attestations'[x].state = "superseded" <=> attestations[x].state = "superseded"
        BY <2>2, <2>5, <3>2
      <4>2. \A b \in DOMAIN attestations : Corrects(b, x)' <=> Corrects(b, x)
        BY <2>6, <2>7, <3>2
      <4>3. attestations[x].state = "superseded" <=> \E b \in DOMAIN attestations : Corrects(b, x)
        BY DEF ReviewInv, CorrectionsFit
      <4> QED BY <4>1, <4>2, <4>3
    <3> QED BY <3>1, <3>2
  <2>9. ASSUME NEW x \in DOMAIN attestations, NEW b \in DOMAIN attestations, NEW c \in DOMAIN attestations,
               Corrects(b, x)', Corrects(c, x)'
        PROVE  b = c
    <3>1. CASE x \in Replaced(a)
      BY <2>3, <2>6, <2>9, <3>1
    <3>2. CASE x \notin Replaced(a)
      BY <2>6, <2>9, <3>2 DEF ReviewInv, CorrectionsFit
    <3> QED BY <3>1, <3>2
  <2> QED BY <1>3, <2>8, <2>9 DEF CorrectionsFit
<1> QED BY <1>4, <1>5 DEF Ready

LEMMA CommitFollows ==
  ASSUME ReviewInv, NEW t \in Tx, CommitReview(t)
  PROVE  ClaimsFollow' /\ ClaimsFit' /\ DOMAIN claims' = DOMAIN claims
         /\ \A k \in DOMAIN claims : claims'[k].conflicts = claims[k].conflicts
<1>1. Ready(t) /\ TransactionFits(t) /\ AssessmentFits(t) /\ Rewrites(tx[t].atts)
  BY CommitFinds
<1>2. PICK m : m = tx[t].marks
  OBVIOUS
<1>3. claims' = [k \in DOMAIN claims |-> IF k \in DOMAIN m
         THEN [claims[k] EXCEPT !.rank = m[k].rank, !.grade = m[k].grade] ELSE claims[k]]
  BY <1>2 DEF CommitReview
<1>4. DOMAIN claims' = DOMAIN claims /\ claims' = [k \in DOMAIN claims' |-> claims'[k]]
  BY <1>3
<1>5. ASSUME NEW k \in DOMAIN claims
      PROVE  /\ {"rank", "grade", "tier", "conflicts", "stale", "successor"} \subseteq DOMAIN claims'[k]
             /\ claims'[k].rank = IF k \in DOMAIN m THEN m[k].rank ELSE claims[k].rank
             /\ claims'[k].grade = IF k \in DOMAIN m THEN m[k].grade ELSE claims[k].grade
             /\ claims'[k].conflicts = claims[k].conflicts
  <2>1. PICK r1 : r1 = [claims[k] EXCEPT !.rank = m[k].rank]
    OBVIOUS
  <2>2. PICK rec : rec = [r1 EXCEPT !.grade = m[k].grade]
    OBVIOUS
  <2>3. {"rank", "grade", "tier", "conflicts", "stale", "successor"} \subseteq DOMAIN claims[k]
    BY DEF ReviewInv, ClaimsFit
  <2>4. /\ {"rank", "grade", "tier", "conflicts", "stale", "successor"} \subseteq DOMAIN r1
        /\ r1.rank = m[k].rank /\ r1.conflicts = claims[k].conflicts
    BY <2>1, <2>3
  <2>5. /\ {"rank", "grade", "tier", "conflicts", "stale", "successor"} \subseteq DOMAIN rec
        /\ rec.rank = m[k].rank /\ rec.conflicts = claims[k].conflicts /\ rec.grade = m[k].grade
    BY <2>2, <2>4
  <2>6. claims'[k] = IF k \in DOMAIN m THEN rec ELSE claims[k]
    BY <1>3, <2>1, <2>2
  <2> QED BY <2>3, <2>5, <2>6
<1>6. PICK s : s = Committed
  OBVIOUS
<1>7. PICK s2 : s2 = Committed'
  OBVIOUS
<1>8. PICK s3 : s3 = After(t)
  OBVIOUS
<1>9. DOMAIN attestations' = DOMAIN attestations
      /\ s = [b \in DOMAIN attestations |-> attestations[b].state]
      /\ s2 = [b \in DOMAIN attestations' |-> attestations'[b].state]
      /\ s3 = [b \in DOMAIN attestations |-> IF b \in DOMAIN tx[t].atts THEN tx[t].atts[b] ELSE attestations[b].state]
  BY <1>1, <1>6, <1>7, <1>8 DEF Committed, After, SeenState, Rewrites
<1>10. ASSUME NEW k \in DOMAIN claims
       PROVE  Backed(claims'[k].rank, k, attestations', s2)
  <2>1. CASE k \in DOMAIN m
    <3>1. Backed(m[k].rank, k, attestations, s3)
      BY <1>1, <1>2, <1>8, <2>1 DEF AssessmentFits
    <3>2. Softer(k, attestations, s3, attestations', s2)
      BY <1>1, <1>9 DEF Softer, Rewrites
    <3>3. Backed(m[k].rank, k, attestations', s2)
      BY <3>1, <3>2, BackedStays
    <3> QED BY <1>5, <2>1, <3>3
  <2>2. CASE k \notin DOMAIN m
    <3>1. \A b \in DOMAIN tx[t].atts : k \notin attestations[b].scope
      BY <1>1, <1>2, <2>2, CommitWrites
    <3>2. Softer(k, attestations, s, attestations', s2)
      BY <1>1, <1>9, <3>1 DEF Softer, Rewrites
    <3>3. Backed(claims[k].rank, k, attestations, s)
      BY <1>6 DEF ReviewInv, ClaimsFollow
    <3>4. Backed(claims[k].rank, k, attestations', s2)
      BY <3>2, <3>3, BackedStays
    <3> QED BY <1>5, <2>2, <3>4
  <2> QED BY <2>1, <2>2
<1>11. ClaimsFollow'
  BY <1>4, <1>7, <1>10 DEF ClaimsFollow
<1>12. \A k \in DOMAIN claims : claims'[k].rank \in Ranks
  BY <1>10 DEF Backed
<1>13. \A k \in DOMAIN claims : claims'[k].grade = "verified" => claims'[k].conflicts = 0
  BY <1>1, <1>2, <1>5 DEF AssessmentFits, ReviewInv, ClaimsFit
<1>14. ClaimsFit'
  BY <1>4, <1>5, <1>12, <1>13 DEF ReviewInv, ClaimsFit
<1> QED BY <1>4, <1>5, <1>11, <1>14

LEMMA CommitReviewKeeps ==
  ASSUME ReviewInv, NEW t \in Tx, CommitReview(t)
  PROVE  ReviewInv'
<1>1. /\ Ready(t) /\ TransactionFits(t) /\ Rewrites(tx[t].atts)
      /\ tx' = [u \in Tx |-> tx'[u]] /\ tx'[t] = Idle /\ \A u \in Tx \ {t} : tx'[u] = tx[u]
  BY CommitFinds
<1>2. /\ ClaimsFollow' /\ ClaimsFit' /\ DOMAIN claims' = DOMAIN claims
      /\ \A k \in DOMAIN claims : claims'[k].conflicts = claims[k].conflicts
  BY CommitFollows
<1>3. PICK f : f = tx[t].atts
  OBVIOUS
<1>4. CorrectionsFit'
  BY <1>1, CommitCorrects
<1>5. AttestationsFit'
  <2>1. \A b \in DOMAIN f : f[b] \in AttestationStates
    BY <1>1, <1>3, CommitWrites
  <2> QED BY <1>1, <1>2, <1>3, <2>1, AttestationsStay DEF ReviewInv
<1>6. TransactionsFit'
  <2>1. PICK T : T = {u \in Tx \ {t} : Open(u)}
    OBVIOUS
  <2>2. T \in SUBSET Tx /\ \A u \in T : Open(u) /\ tx'[u] = tx[u] /\ LeavesAlone(f, u) /\ ClaimsLeft(u)
    BY <1>1, <1>2, <1>3, <2>1, CommitLeavesOthersAlone DEF ClaimsLeft
  <2>3. \A u \in T : Open(u)' /\ TransactionFits(u)' /\ AssessmentFits(u)'
    BY <1>1, <1>3, <2>2, BystandersStay
  <2>4. \A u \in Tx : Open(u)' => u \in T
    BY <1>1, <2>1 DEF Open
  <2>5. LocksHold'
    BY <1>1, <2>1, <2>4 DEF ReviewInv, TransactionsFit, LocksHold
  <2> QED BY <1>1, <2>3, <2>4, <2>5 DEF TransactionsFit
<1>7. CasesFit'
  <2>1. PICK e : e = tx[t].cases
    OBVIOUS
  <2>2. cases' = [c \in DOMAIN cases |-> IF c \in DOMAIN e THEN [cases[c] EXCEPT !.state = e[c]] ELSE cases[c]]
    BY <2>1 DEF CommitReview
  <2>3. DOMAIN cases' = DOMAIN cases /\ cases' = [c \in DOMAIN cases |-> cases'[c]]
    BY <2>2
  <2>4. IsTable(cases')
    BY <2>3, TableRewritten DEF ReviewInv, CasesFit
  <2>5. ASSUME NEW c \in DOMAIN cases
        PROVE  {"state", "claims", "assigned", "snapshot"} \subseteq DOMAIN cases'[c] /\ cases'[c].claims = cases[c].claims
    <3>1. PICK rec : rec = [cases[c] EXCEPT !.state = e[c]]
      OBVIOUS
    <3>2. {"state", "claims", "assigned", "snapshot"} \subseteq DOMAIN cases[c]
      BY DEF ReviewInv, CasesFit
    <3>3. {"state", "claims", "assigned", "snapshot"} \subseteq DOMAIN rec /\ rec.claims = cases[c].claims
      BY <3>1, <3>2
    <3>4. cases'[c] = IF c \in DOMAIN e THEN rec ELSE cases[c]
      BY <2>2, <3>1
    <3> QED BY <3>2, <3>3, <3>4
  <2> QED BY <1>2, <2>3, <2>4, <2>5 DEF ReviewInv, CasesFit
<1>8. RequestsFit'
  <2>1. DOMAIN attestations' = DOMAIN attestations
    BY <1>1 DEF Rewrites
  <2>2. CASE tx[t].op # "sign"
    <3>1. UNCHANGED requests
      BY <2>2 DEF CommitReview
    <3> QED BY <2>1, <3>1, RequestsStay
  <2>3. CASE tx[t].op = "sign"
    <3>1. PICK q : q = tx[t].row
      OBVIOUS
    <3>2. PICK rec : rec = [requests[q] EXCEPT !.state = "used"]
      OBVIOUS
    <3>3. requests' = [requests EXCEPT ![q] = rec]
      BY <2>3, <3>1, <3>2 DEF CommitReview
    <3>4. /\ IsTable(requests') /\ DOMAIN requests' = DOMAIN requests
          /\ \A i \in DOMAIN requests : requests'[i] = IF i = q THEN rec ELSE requests[i]
      BY <3>3, TableRowWritten DEF ReviewInv, RequestsFit
    <3>5. q \in DOMAIN requests => /\ {"att", "snapshot", "state"} \subseteq DOMAIN rec
                                   /\ rec.att = requests[q].att
      BY <3>2 DEF ReviewInv, RequestsFit
    <3> QED BY <2>1, <3>4, <3>5 DEF ReviewInv, RequestsFit
  <2> QED BY <2>2, <2>3
<1> QED BY <1>2, <1>4, <1>5, <1>6, <1>7, <1>8 DEF ReviewInv

-----------------------------------------------------------------------------
(* Verification: every step, and what the invariant means.                 *)

LEMMA ReviewBegins == ReviewInit => ReviewInv
<1> SUFFICES ASSUME ReviewInit PROVE ReviewInv
  OBVIOUS
<1>1. cases = <<>> /\ attestations = <<>> /\ requests = <<>> /\ tx = [t \in Tx |-> Idle]
      /\ claims = [k \in FirstClaims |-> NewClaim(Tier[k])]
  BY DEF ReviewInit
<1>2. DOMAIN cases = {} /\ DOMAIN attestations = {} /\ DOMAIN requests = {}
  BY <1>1
<1>3. IsTable(cases) /\ IsTable(attestations) /\ IsTable(requests)
  <2>1. <<>> \in Seq({})
    OBVIOUS
  <2> QED BY <1>1, <2>1, TableRows
<1>4. CasesFit /\ AttestationsFit /\ RequestsFit /\ CorrectionsFit
  BY <1>2, <1>3 DEF CasesFit, AttestationsFit, RequestsFit, CorrectionsFit
<1>5. ClaimsFit
  <2>1. Cardinality(FirstClaims) \in Nat
    BY ClaimsAssumption, FS_CardinalityType
  <2>2. \A k \in DOMAIN claims :
          /\ {"rank", "grade", "tier", "conflicts", "stale", "successor"} \subseteq DOMAIN claims[k]
          /\ claims[k].rank = 0 /\ claims[k].conflicts = 0
    BY <1>1 DEF NewClaim
  <2> QED BY <1>1, <2>1, <2>2, ClaimsAssumption DEF ClaimsFit, Ranks
<1>6. ClaimsFollow
  BY <1>1, <1>2 DEF ClaimsFollow, Backed, Ranks, NewClaim
<1>7. TransactionsFit
  BY <1>1 DEF TransactionsFit, LocksHold, Open
<1> QED BY <1>4, <1>5, <1>6, <1>7 DEF ReviewInv

LEMMA ReviewsKeep ==
  ASSUME ReviewInv, Reviews
  PROVE  ReviewInv'
<1>1. CASE \E o \in Officer \cup Reviewer, r \in Reviewer, s \in {b.scope : b \in Bodies}, d \in Disclosure :
             CreateCase(o, r, s, d)
  BY <1>1, CreateCaseKeeps
<1>2. CASE \E c \in Case, i \in 1..MaxAssignments, b \in Bodies, p \in {None} \cup DOMAIN attestations :
             DraftAttestation(c, i, b.scope, b.type, p)
  BY <1>2, DraftAttestationKeeps
<1>3. CASE \E a \in Attestation : RequestSignature(a)
  BY <1>3, RequestSignatureKeeps
<1>4. CASE \E t \in Tx : \/ \E q \in Request : SignReads(t, q)
                         \/ \E a \in Attestation : RevokeAttestation(t, a)
                         \/ SignWrites(t) \/ reassessClaim(t) \/ CommitReview(t)
  BY <1>4, SignReadsKeeps, RevokeAttestationKeeps, SignWritesKeeps, ReassessClaimKeeps, CommitReviewKeeps
<1> QED BY <1>1, <1>2, <1>3, <1>4 DEF Reviews

LEMMA ReviewStep == ReviewInv /\ [ReviewNext]_reviewVars => ReviewInv'
<1> SUFFICES ASSUME ReviewInv, [ReviewNext]_reviewVars PROVE ReviewInv'
  OBVIOUS
<1>1. CASE Reviews
  BY <1>1, ReviewsKeep
<1>2. CASE Disputes
  BY <1>2, RaiseDisputeKeeps, ResolveReadsKeeps, ResolveWritesKeeps DEF Disputes
<1>3. CASE CaseChanges
  BY <1>3, CaseChangesKeep
<1>4. CASE BasisChanges
  BY <1>4, BasisChangesKeep
<1>5. CASE Signals
  BY <1>5, ElsewhereKeeps DEF Signals, ResolveSignal
<1>6. CASE UNCHANGED reviewVars
  BY <1>6, ElsewhereKeeps DEF reviewVars
<1> QED BY <1>1, <1>2, <1>3, <1>4, <1>5, <1>6 DEF ReviewNext

LEMMA InvMeansBacked ==
  ASSUME ReviewInv PROVE ClaimsBacked
<1>1. ASSUME NEW k \in DOMAIN claims
      PROVE  /\ claims[k].rank <= deriveVerificationState(
                  {attestations[a].type : a \in {b \in Covering(k) : attestations[b].state \notin Closed \cup {"draft"}}})
             /\ \A a \in Covering(k) : attestations[a].state = "signed"
                                       => claims[k].rank >= STATE_ESTABLISHED_BY[attestations[a].type]
  <2>1. PICK s : s = Committed
    OBVIOUS
  <2>2. s = [b \in DOMAIN attestations |-> attestations[b].state]
    BY <2>1 DEF Committed
  <2>3. Backed(claims[k].rank, k, attestations, s)
    BY <2>1 DEF ReviewInv, ClaimsFollow
  <2>4. PICK B : B = {b \in Covering(k) : attestations[b].state \notin Closed \cup {"draft"}}
    OBVIOUS
  <2>5. PICK types : types = {attestations[a].type : a \in B}
    OBVIOUS
  <2>6. types \subseteq DOMAIN STATE_ESTABLISHED_BY
    BY <2>4, <2>5 DEF ReviewInv, AttestationsFit, Covering
  <2>7. PICK rank : rank = deriveVerificationState(types)
    OBVIOUS
  <2>8. rank \in Ranks /\ \A ty \in types : STATE_ESTABLISHED_BY[ty] <= rank
    BY <2>6, <2>7, Derived
  <2>9. \A b \in DOMAIN attestations : k \in attestations[b].scope /\ s[b] \in Live => b \in B
    BY <2>2, <2>4 DEF Covering, Closed, Live
  <2>10. \A b \in B : attestations[b].type \in types
    BY <2>5
  <2>11. \A ty \in types : STATE_ESTABLISHED_BY[ty] \in {1, 2, 3}
    BY <2>6 DEF STATE_ESTABLISHED_BY
  <2>12. claims[k].rank \in Ranks
    BY <2>3 DEF Backed
  <2>13. claims[k].rank <= rank
    <3>1. CASE claims[k].rank = 0
      BY <2>8, <3>1 DEF Ranks
    <3>2. CASE claims[k].rank # 0
      <4>1. PICK b \in DOMAIN attestations : /\ k \in attestations[b].scope /\ s[b] \in Live
                                             /\ claims[k].rank <= STATE_ESTABLISHED_BY[attestations[b].type]
        BY <2>3, <3>2 DEF Backed
      <4>2. attestations[b].type \in types
        BY <2>9, <2>10, <4>1
      <4> QED BY <2>8, <2>11, <2>12, <4>1, <4>2 DEF Ranks
    <3> QED BY <3>1, <3>2
  <2>14. \A a \in Covering(k) : attestations[a].state = "signed"
                                => claims[k].rank >= STATE_ESTABLISHED_BY[attestations[a].type]
    BY <2>2, <2>3 DEF Backed, Covering
  <2> QED BY <2>4, <2>5, <2>7, <2>13, <2>14
<1>2. \A k \in DOMAIN claims : claims[k].grade = "verified" => claims[k].conflicts = 0
  BY DEF ReviewInv, ClaimsFit
<1> QED BY <1>1, <1>2 DEF ClaimsBacked

LEMMA InvMeansCorrected ==
  ASSUME ReviewInv PROVE CorrectionsCover
<1>1. ASSUME NEW a \in DOMAIN attestations, NEW S,
             S = {b \in DOMAIN attestations : attestations[b].supersedes = a /\ attestations[b].state # "draft"}
      PROVE  /\ attestations[a].state = "superseded" <=> S # {}
             /\ Cardinality(S) <= 1
             /\ \A b \in S : attestations[a].scope \subseteq attestations[b].scope
  <2>1. S = {b \in DOMAIN attestations : Corrects(b, a)}
    BY <1>1 DEF Corrects
  <2>2. attestations[a].state = "superseded" <=> S # {}
    BY <2>1 DEF ReviewInv, CorrectionsFit
  <2>3. \A x, y \in S : x = y
    BY <2>1 DEF ReviewInv, CorrectionsFit
  <2>4. Cardinality(S) <= 1
    BY <2>3, FewerThanTwo
  <2>5. a # None
    BY TableIndexed DEF ReviewInv, AttestationsFit, None
  <2>6. \A b \in S : attestations[a].scope \subseteq attestations[b].scope
    BY <1>1, <2>5 DEF ReviewInv, AttestationsFit
  <2> QED BY <2>2, <2>4, <2>6
<1> QED BY <1>1 DEF CorrectionsCover

\* No claim stands on a judgment that is gone (ClaimsStand). A transaction that
\* signs or revokes holds what it writes and every claim it has assessed until it
\* commits, so what it has assessed is still so when it does; a dispute or a shaken
\* basis takes an attestation out of standing without adding a signed one; and a
\* correction covers what it replaces, under a lock that admits one of them
\* (supersedePredecessor in verification.ts, reassessClaim in claim-state.ts).
THEOREM ClaimsAlwaysStand == ReviewSpec => []ClaimsStand
<1>1. ReviewInv => ClaimsStand
  BY InvMeansBacked, InvMeansCorrected DEF ClaimsStand
<1>2. ReviewSpec => []ReviewInv
  BY ReviewBegins, ReviewStep, PTL DEF ReviewSpec
<1> QED BY <1>1, <1>2, PTL
=============================================================================
