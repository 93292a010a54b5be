------------------------ MODULE RegistryStatusProofs ------------------------
(***************************************************************************)
(* Proofs about RegistryStatus.  The inductive invariant follows a report  *)
(* from the barrier it is evaluated under to the mirror: what it says is   *)
(* grounded in the version history, the stored reports are ordered by      *)
(* sequence the way they are by time and version, and the one being made   *)
(* is ahead of all of them.                                                *)
(***************************************************************************)
EXTENDS RegistryStatus, TLAPS

\* The report is about a version that exists, with that version's content.
Grounded(r) ==
    /\ r \in StatusReport
    /\ r.observedAt <= clock
    /\ r.version \in 1 .. Latest
    /\ r.content = history[r.version].content

\* NextSequence has something to choose.
HasLargest ==
    \E s \in {0} \cup {r.sequence : r \in Stored} : \A r \in Stored : r.sequence <= s

Follows(r, t) == r.observedAt >= t.observedAt /\ r.version >= t.version

StoredInOrder ==
    /\ \A r \in Stored : Grounded(r)
    /\ \A r, t \in Stored : r.sequence > t.sequence => Follows(r, t)
    /\ HasLargest

HandlingAhead ==
    handling # NoAnswer =>
        /\ handling \in Handling
        /\ reports[handling.execution] = NoAnswer
        /\ Grounded(handling.report)
        /\ handling.report.version = Latest
        /\ \A r \in Stored : /\ r.sequence < handling.report.sequence
                             /\ r.observedAt <= handling.report.observedAt

Inv ==
    /\ HistoryTypeOK
    /\ clock \in Nat
    /\ reports \in [Execution -> StatusReport \cup {NoAnswer}]
    /\ StoredInOrder
    /\ HandlingAhead
    /\ signed \subseteq Stored
    /\ mirror \in signed \cup {EmptyMirror}

---------------------------------------------------------------------------
(* A step of the history adds at most one version and keeps what the       *)
(* existing versions say (publish and revoke of registry.ts).              *)
LEMMA LatestIsNat == ASSUME HistoryTypeOK PROVE Latest \in Nat
BY DEF HistoryTypeOK, Latest

LEMMA HistoryStep ==
    ASSUME HistoryTypeOK, HistoryNext
    PROVE  /\ HistoryTypeOK'
           /\ Latest' >= Latest
           /\ \A v \in 1 .. Latest : history'[v].content = history[v].content
<1>1. Latest \in Nat /\ \A v \in 1 .. Latest : history[v] \in Version
  BY DEF HistoryTypeOK, Latest
<1>2. ASSUME NEW row \in Version, NEW s \in VersionStatus
      PROVE  /\ [row EXCEPT !.status = s] \in Version
             /\ [row EXCEPT !.status = s].content = row.content
  BY <1>2 DEF Version
<1>3. {"superseded", "revoked", "published"} \subseteq VersionStatus
  BY DEF VersionStatus
<1>4. ASSUME NEW c \in Content, PublishVersion(c)
      PROVE  /\ HistoryTypeOK'
             /\ Latest' >= Latest
             /\ \A v \in 1 .. Latest : history'[v].content = history[v].content
  <2>1. SupersedeLatest \in [1 .. Latest -> Version]
    BY <1>1, <1>2, <1>3 DEF SupersedeLatest
  <2>2. \A v \in 1 .. Latest : SupersedeLatest[v].content = history[v].content
    BY <1>1, <1>2, <1>3 DEF SupersedeLatest
  <2>3. [status |-> "published", content |-> c] \in Version
    BY <1>3 DEF Version
  <2>4. history' = Append(SupersedeLatest, [status |-> "published", content |-> c])
    BY <1>4 DEF PublishVersion
  <2>5. SupersedeLatest \in Seq(Version) /\ Len(SupersedeLatest) = Latest
    BY <1>1, <2>1
  <2>6. /\ history' \in Seq(Version)
        /\ Len(history') = Latest + 1
        /\ \A v \in 1 .. Latest : history'[v] = SupersedeLatest[v]
    BY <1>1, <2>3, <2>4, <2>5
  <2> QED BY <1>1, <2>2, <2>6 DEF HistoryTypeOK, Latest
<1>5. ASSUME RevokeVersion
      PROVE  /\ HistoryTypeOK'
             /\ Latest' >= Latest
             /\ \A v \in 1 .. Latest : history'[v].content = history[v].content
  <2>1. [history[Latest] EXCEPT !.status = "revoked"] \in Version
    BY <1>1, <1>2, <1>3, <1>5 DEF RevokeVersion
  <2>2. history' = [history EXCEPT ![Latest] = [history[Latest] EXCEPT !.status = "revoked"]]
    BY <1>5 DEF RevokeVersion
  <2>3. history' \in Seq(Version) /\ Len(history') = Latest
    <3>1. history \in [1 .. Latest -> Version]
      BY DEF HistoryTypeOK, Latest
    <3>2. history' \in [1 .. Latest -> Version]
      BY <2>1, <2>2, <3>1
    <3> QED BY <1>1, <3>2
  <2>4. \A v \in 1 .. Latest : history'[v].content = history[v].content
    BY <1>1, <1>2, <1>3, <2>2 DEF HistoryTypeOK, Latest
  <2> QED BY <1>1, <2>3, <2>4 DEF HistoryTypeOK, Latest
<1> QED BY <1>4, <1>5 DEF HistoryNext

(* What is stored stays grounded while versions are added, versions are    *)
(* relabelled and the clock moves on.                                      *)
LEMMA GroundedStays ==
    ASSUME NEW r, Grounded(r), clock \in Nat, clock' \in Nat, clock' >= clock,
           Latest \in Nat, Latest' \in Nat, Latest' >= Latest,
           \A v \in 1 .. Latest : history'[v].content = history[v].content
    PROVE  Grounded(r)'
<1>1. r.observedAt \in Nat /\ r.version \in Nat
  BY DEF Grounded, StatusReport
<1> QED BY <1>1 DEF Grounded

---------------------------------------------------------------------------
LEMMA InitEstablishesInv == Init => Inv
<1> SUFFICES ASSUME Init PROVE Inv
  OBVIOUS
<1>1. Stored = {}
  BY DEF Init, Stored
<1>2. HistoryTypeOK
  BY DEF Init, HistoryInit, HistoryTypeOK
<1>3. HasLargest
  BY <1>1 DEF HasLargest
<1> QED BY <1>1, <1>2, <1>3 DEF Init, Inv, StoredInOrder, HandlingAhead

(* The sequence number a request is given is above all that are stored.    *)
LEMMA NextSequenceIsAhead ==
    ASSUME HasLargest, \A r \in Stored : r \in StatusReport
    PROVE  /\ NextSequence \in Nat /\ NextSequence > 0
           /\ \A r \in Stored : r.sequence < NextSequence
<1> DEFINE S == {0} \cup {r.sequence : r \in Stored}
           L(s) == \A r \in Stored : r.sequence <= s
           m == CHOOSE s \in S : L(s)
<1>1. m \in S /\ L(m)
  BY DEF HasLargest
<1>2. S \subseteq Nat
  BY DEF StatusReport
<1>3. NextSequence = 1 + m
  BY DEF NextSequence
<1>4. \A r \in Stored : r.sequence \in Nat
  BY DEF StatusReport
<1> HIDE DEF m
<1> QED BY <1>1, <1>2, <1>3, <1>4

---------------------------------------------------------------------------
(* What every step owes that leaves core.cre_reports alone.                *)
LEMMA StoredStays ==
    ASSUME Inv, reports' = reports, HistoryTypeOK', Latest' >= Latest,
           \A v \in 1 .. Latest : history'[v].content = history[v].content,
           clock' \in Nat, clock' >= clock
    PROVE  Stored' = Stored /\ StoredInOrder'
<1>1. Stored' = Stored
  BY DEF Stored
<1>2. Latest \in Nat /\ Latest' \in Nat
  BY LatestIsNat DEF Inv, HistoryTypeOK, Latest
<1>3. \A r \in Stored : Grounded(r)'
  BY <1>2, GroundedStays DEF Inv, StoredInOrder
<1> QED BY <1>1, <1>3 DEF Inv, StoredInOrder, HasLargest, Follows

(* A step that touches neither the history, the reports nor the request    *)
(* under way, and signs and shows nothing that is not stored.              *)
LEMMA QuietStep ==
    ASSUME Inv, UNCHANGED <<history, reports, handling>>, clock' \in Nat, clock' >= clock,
           signed' \subseteq Stored, mirror' \in signed' \cup {EmptyMirror}
    PROVE  Inv'
<1>1. HistoryTypeOK' /\ Latest' = Latest /\ Latest \in Nat
  BY LatestIsNat DEF Inv, HistoryTypeOK, Latest
<1>2. Stored' = Stored /\ StoredInOrder'
  BY <1>1, StoredStays
<1>3. HandlingAhead'
  <2> SUFFICES ASSUME handling # NoAnswer PROVE HandlingAhead'
    BY DEF HandlingAhead
  <2>1. Grounded(handling.report)'
    BY <1>1, GroundedStays DEF Inv, HandlingAhead
  <2> QED BY <1>1, <1>2, <2>1 DEF Inv, HandlingAhead
<1> QED BY <1>1, <1>2, <1>3 DEF Inv, EmptyMirror

LEMMA ChangeHistoryKeepsInv == Inv /\ ChangeHistory => Inv'
<1> SUFFICES ASSUME Inv, ChangeHistory PROVE Inv'
  OBVIOUS
<1>1. /\ HistoryTypeOK' /\ Latest' >= Latest
      /\ \A v \in 1 .. Latest : history'[v].content = history[v].content
  BY HistoryStep DEF Inv, ChangeHistory
<1>2. Stored' = Stored /\ StoredInOrder'
  BY <1>1, StoredStays DEF Inv, ChangeHistory
<1> QED BY <1>1, <1>2 DEF Inv, ChangeHistory, HandlingAhead, EmptyMirror

LEMMA GiveUpKeepsInv == Inv /\ GiveUp => Inv'
<1> SUFFICES ASSUME Inv, GiveUp PROVE Inv'
  OBVIOUS
<1>1. HistoryTypeOK' /\ Latest' = Latest /\ Latest \in Nat
  BY LatestIsNat DEF Inv, GiveUp, HistoryTypeOK, Latest
<1>2. Stored' = Stored /\ StoredInOrder'
  BY <1>1, StoredStays DEF Inv, GiveUp
<1> QED BY <1>1, <1>2 DEF Inv, GiveUp, HandlingAhead, EmptyMirror

(* The report is read off the locked history at one moment and numbered    *)
(* after everything stored so far.                                         *)
LEMMA EvaluateKeepsInv ==
    ASSUME Inv, NEW e \in Execution, NEW n \in Node, Evaluate(e, n)
    PROVE  Inv'
<1> DEFINE to == IF e \in Elsewhere THEN Other ELSE This
           r == [destination |-> to, version |-> Latest, content |-> history[Latest].content,
                 observedAt |-> clock, validUntil |-> clock + Ttl,
                 sequence |-> NextSequence, status |-> StatusOf(Latest)]
<1>1. handling' = [execution |-> e, node |-> n, report |-> r]
  BY DEF Evaluate, ReportedVersion
<1>2. HistoryTypeOK' /\ Latest' = Latest /\ Latest \in Nat /\ Latest > 0
  BY LatestIsNat DEF Inv, Evaluate, HistoryTypeOK, Latest
<1>3. Stored' = Stored /\ StoredInOrder'
  BY <1>2, StoredStays DEF Inv, Evaluate
<1>4. NextSequence \in Nat /\ \A t \in Stored : t.sequence < NextSequence
  BY NextSequenceIsAhead DEF Inv, StoredInOrder, Grounded
<1>5. Grounded(r)
  <2>1. to \in Destination
    BY StatusAssumption, ReceiverAssumption
  <2>2. history[Latest].content \in ContentHash
    <3>1. history[Latest] \in Version
      BY <1>2 DEF Inv, HistoryTypeOK, Latest
    <3> QED BY <3>1, StatusAssumption DEF Version
  <2>3. StatusOf(Latest) \in 0 .. UNAVAILABLE
    BY DEF StatusOf, CURRENT, NEEDS_RE_REVIEW, REVOKED, UNAVAILABLE
  <2>4. clock \in Nat /\ clock + Ttl \in Nat
    BY StatusAssumption DEF Inv
  <2> HIDE DEF to
  <2>5. r \in StatusReport
    BY <1>2, <1>4, <2>1, <2>2, <2>3, <2>4 DEF StatusReport
  <2> QED BY <1>2, <2>4, <2>5 DEF Grounded
<1>6. \A t : Grounded(t) => Grounded(t)'
  <2>1. history' = history /\ clock' = clock
    BY DEF Evaluate
  <2> QED BY <1>2, <2>1, GroundedStays DEF Inv
<1>7. \A t \in Stored : t.sequence < r.sequence /\ t.observedAt <= r.observedAt
  BY <1>4 DEF Inv, StoredInOrder, Grounded
<1>8. handling' \in Handling
  BY <1>1, <1>5 DEF Handling, Grounded
<1>9. reports'[e] = NoAnswer
  BY DEF Evaluate, KeyUnused
<1>10. HandlingAhead'
  <2>1. handling'.execution = e /\ handling'.report = r /\ r.version = Latest'
    BY <1>1, <1>2
  <2> HIDE DEF r
  <2>2. Grounded(handling.report)'
    BY <1>5, <1>6, <2>1
  <2> QED BY <1>3, <1>7, <1>8, <1>9, <2>1, <2>2 DEF HandlingAhead
<1> QED BY <1>2, <1>3, <1>10 DEF Inv, Evaluate, EmptyMirror

(* The report under way joins the stored ones as the last of them.         *)
LEMMA StoreKeepsInv ==
    ASSUME Inv, NEW heard \in BOOLEAN, Store(heard)
    PROVE  Inv'
<1> DEFINE r == handling.report
           e == handling.execution
<1>1. /\ handling \in Handling /\ reports[e] = NoAnswer
      /\ Grounded(r) /\ r.version = Latest
      /\ \A t \in Stored : t.sequence < r.sequence /\ t.observedAt <= r.observedAt
  BY DEF Inv, HandlingAhead, Store
<1>2. e \in Execution /\ r \in StatusReport /\ r # NoAnswer
  BY <1>1, StatusAssumption DEF Handling
<1>3. reports' = [reports EXCEPT ![e] = r]
  BY DEF Store, Dated
<1>4. Stored' = Stored \cup {r}
  BY <1>1, <1>2, <1>3 DEF Inv, Stored
<1>5. /\ history' = history /\ clock' = clock /\ handling' = NoAnswer
      /\ signed' = signed /\ mirror' = mirror
  BY DEF Store
<1>6. HistoryTypeOK' /\ Latest' = Latest /\ Latest \in Nat
  BY <1>5, LatestIsNat DEF Inv, HistoryTypeOK, Latest
<1>7. \A t \in Stored' : Grounded(t)'
  <2>1. \A t \in Stored' : Grounded(t)
    BY <1>1, <1>4 DEF Inv, StoredInOrder
  <2> HIDE DEF r
  <2> QED BY <1>5, <1>6, <2>1, GroundedStays DEF Inv
<1>8. \A t, u \in Stored' : t.sequence > u.sequence => Follows(t, u)
  <2>1. \A u \in Stored : Follows(r, u)
    BY <1>1, <1>6 DEF Inv, StoredInOrder, Grounded, Follows, StatusReport
  <2>2. \A u \in Stored \cup {r} : u.sequence <= r.sequence /\ u.sequence \in Nat
    BY <1>1, <1>2 DEF Inv, StoredInOrder, Grounded, StatusReport
  <2>3. \A t, u \in Stored : t.sequence > u.sequence => Follows(t, u)
    BY DEF Inv, StoredInOrder
  <2> HIDE DEF r
  <2> QED BY <1>4, <2>1, <2>2, <2>3
<1>9. HasLargest'
  <2>1. \A u \in Stored \cup {r} : u.sequence <= r.sequence
    BY <1>1, <1>2 DEF Inv, StoredInOrder, Grounded, StatusReport
  <2> HIDE DEF r
  <2> QED BY <1>4, <2>1 DEF HasLargest
<1>10. reports' \in [Execution -> StatusReport \cup {NoAnswer}]
  BY <1>2, <1>3 DEF Inv
<1> HIDE DEF r, e
<1>11. StoredInOrder'
  BY <1>7, <1>8, <1>9 DEF StoredInOrder, Follows
<1> QED BY <1>4, <1>5, <1>6, <1>10, <1>11 DEF Inv, HandlingAhead, EmptyMirror

---------------------------------------------------------------------------
LEMMA NextPreservesInv == Inv /\ [Next]_statusVars => Inv'
<1> SUFFICES ASSUME Inv, [Next]_statusVars PROVE Inv'
  OBVIOUS
<1>1. clock \in Nat /\ signed \subseteq Stored /\ mirror \in signed \cup {EmptyMirror}
  BY DEF Inv
<1>2. CASE ChangeHistory
  BY <1>2, ChangeHistoryKeepsInv
<1>3. ASSUME NEW h \in Health, ChangeHealth(h) PROVE Inv'
  BY <1>1, <1>3, QuietStep DEF ChangeHealth
<1>4. ASSUME NEW e \in Execution, NEW n \in Node, Evaluate(e, n) PROVE Inv'
  BY <1>4, EvaluateKeepsInv
<1>5. ASSUME NEW e \in Execution, NEW n \in Node, Replay(e, n) PROVE Inv'
  BY <1>1, <1>5, QuietStep DEF Replay
<1>6. CASE GiveUp
  BY <1>6, GiveUpKeepsInv
<1>7. ASSUME NEW heard \in BOOLEAN, Store(heard) PROVE Inv'
  BY <1>7, StoreKeepsInv
<1>8. ASSUME NEW e \in Execution, NEW r \in Stored, Sign(e, r) PROVE Inv'
  BY <1>1, <1>8, QuietStep DEF Sign
<1>9. ASSUME NEW r \in signed, Deliver(r) PROVE Inv'
  BY <1>1, <1>9, QuietStep DEF Deliver, OnReport
<1>10. CASE Tick
  BY <1>1, <1>10, QuietStep DEF Tick
<1>11. CASE Block
  BY <1>1, <1>11, QuietStep DEF Block
<1>12. CASE UNCHANGED statusVars
  BY <1>1, <1>12, QuietStep DEF statusVars
<1> QED BY <1>2, <1>3, <1>4, <1>5, <1>6, <1>7, <1>8, <1>9, <1>10, <1>11, <1>12
        DEF Next, Step

LEMMA InvMakesAdmissible == Inv => NewerReportIsAdmissible
<1> SUFFICES ASSUME Inv, NEW r \in signed, r.sequence > mirror.sequence
             PROVE  r.observedAt >= mirror.observedAt /\ SameRecord(r)
  BY DEF NewerReportIsAdmissible
<1>1. r \in Stored /\ Grounded(r)
  BY DEF Inv, StoredInOrder
<1>2. CASE mirror = EmptyMirror
  BY <1>1, <1>2, LatestIsNat DEF Inv, EmptyMirror, Grounded, StatusReport, SameRecord
<1>3. CASE mirror \in signed
  <2>1. mirror \in Stored /\ Grounded(mirror)
    BY <1>3 DEF Inv, StoredInOrder
  <2>2. Follows(r, mirror)
    BY <1>1, <2>1 DEF Inv, StoredInOrder
  <2> QED BY <1>1, <2>1, <2>2 DEF Follows, SameRecord, Grounded
<1> QED BY <1>2, <1>3 DEF Inv

(* A report with a higher sequence is never refused for its order, its     *)
(* version or its content (cre-reports.ts:65-77 and 112-118 against        *)
(* RegistryStatusReceiver.sol:98-103), for any number of executions,       *)
(* nodes, versions and clock readings.                                     *)
THEOREM NewerIsAdmissible == Spec => []NewerReportIsAdmissible
<1>1. Init => Inv
  BY InitEstablishesInv
<1>2. Inv /\ [Next]_statusVars => Inv'
  BY NextPreservesInv
<1>3. Inv => NewerReportIsAdmissible
  BY InvMakesAdmissible
<1> QED BY <1>1, <1>2, <1>3, PTL DEF Spec

---------------------------------------------------------------------------
(* Whatever changes the history is a step of VersionHistory or nothing.    *)
LEMMA HistoryMoves == [Next]_statusVars => HistoryNext \/ history' = history
BY DEF Next, Step, ChangeHistory, ChangeHealth, Evaluate, Replay, GiveUp, Store, Sign,
       Deliver, OnReport, Tick, Block, statusVars

(* No version disappears and none changes what it says                     *)
(* (registry.ts:246-269, 410-426; 0003_guards.sql:115-150).                *)
THEOREM ContentIsFixed == Spec => ContentFixed
<1>1. Inv /\ [Next]_statusVars =>
        [\A v \in 1 .. Latest :
            v <= Len(history') /\ history'[v].content = history[v].content]_history
  <2> SUFFICES ASSUME Inv, HistoryNext, NEW v \in 1 .. Latest
               PROVE  v <= Len(history') /\ history'[v].content = history[v].content
    BY HistoryMoves
  <2>1. HistoryTypeOK' /\ Latest' >= Latest /\ history'[v].content = history[v].content
    BY HistoryStep DEF Inv
  <2>2. Latest \in Nat /\ Latest' \in Nat /\ Latest' = Len(history')
    BY <2>1, LatestIsNat DEF Inv, HistoryTypeOK, Latest
  <2> QED BY <2>1, <2>2
<1>2. Init => Inv
  BY InitEstablishesInv
<1>3. Inv /\ [Next]_statusVars => Inv'
  BY NextPreservesInv
<1> QED BY <1>1, <1>2, <1>3, PTL DEF Spec, ContentFixed

---------------------------------------------------------------------------
(* What a report is worth.  The second invariant says what was true of the *)
(* record when a report was evaluated, and that the network and the chain  *)
(* only ever repeat it.                                                    *)

Worth(r) ==
    /\ WellFormed(r)
    /\ r.validUntil = r.observedAt + Ttl
    /\ r.status = REVOKED => history[r.version].status # "published"
    /\ r.status = CURRENT => lastGood[r.version] >= r.observedAt

\* Once a revocation of the version is stored, no report in the making calls it current.
NotTakenBack(r, t) == r.status = REVOKED /\ t.version = r.version => t.status # CURRENT

ClocksInv ==
    /\ chainTime \in Nat /\ clock <= chainTime + Skew
    /\ Latest <= VersionBound
    /\ lastGood \in [1 .. VersionBound -> Nat]
    /\ \A v \in 1 .. VersionBound : lastGood[v] <= clock

AnswersInv ==
    /\ answers \in [Execution -> [Node -> StatusReport \cup {NoAnswer}]]
    /\ \A e \in Execution : \A n \in Node : answers[e][n] \in {NoAnswer, reports[e]}

ReportsInv ==
    /\ \A r \in Stored : Worth(r)
    /\ \A r, t \in Stored : t.sequence > r.sequence => NotTakenBack(r, t)
    /\ handling # NoAnswer =>
          /\ Worth(handling.report)
          /\ \A r \in Stored : NotTakenBack(r, handling.report)

WorthInv == Inv /\ health \in Health /\ ClocksInv /\ AnswersInv /\ ReportsInv

LEMMA WorthInit == Init => WorthInv
<1> SUFFICES ASSUME Init PROVE WorthInv
  OBVIOUS
<1>1. Inv
  BY InitEstablishesInv
<1>2. Stored = {} /\ handling = NoAnswer
  BY DEF Init, Stored
<1>3. Latest = 0
  BY DEF Init, HistoryInit, Latest
<1>4. ClocksInv
  BY <1>3, StatusAssumption, HistoryAssumption DEF Init, ClocksInv
<1>5. AnswersInv
  BY DEF Init, AnswersInv
<1> QED
  BY <1>1, <1>2, <1>4, <1>5 DEF WorthInv, ReportsInv, Init, Health

\* A version that is not in force never is again.
LEMMA StatusStep ==
    ASSUME HistoryTypeOK, Latest <= VersionBound, HistoryNext \/ history' = history
    PROVE  /\ HistoryTypeOK' /\ Latest' >= Latest /\ Latest' <= VersionBound
           /\ Latest \in Nat /\ Latest' \in Nat
           /\ \A v \in 1 .. Latest :
                /\ history'[v].content = history[v].content
                /\ history'[v].status = "published" => history[v].status = "published"
<1>1. Latest \in Nat /\ \A v \in 1 .. Latest : history[v] \in Version
  BY DEF HistoryTypeOK, Latest
<1>2. CASE history' = history
  BY <1>1, <1>2 DEF HistoryTypeOK, Latest
<1>3. ASSUME NEW c \in Content, PublishVersion(c)
      PROVE  /\ Latest' = Latest + 1 /\ Latest < VersionBound
             /\ \A v \in 1 .. Latest :
                  history'[v].status = "published" => history[v].status = "published"
  <2>1. history' = Append(SupersedeLatest, [status |-> "published", content |-> c])
    BY <1>3 DEF PublishVersion
  <2>2. /\ DOMAIN SupersedeLatest = 1 .. Latest
        /\ \A v \in 1 .. Latest :
             SupersedeLatest[v].status = IF v = Latest THEN "superseded" ELSE history[v].status
    BY <1>1 DEF SupersedeLatest, Version
  <2>3. SupersedeLatest \in [1 .. Latest -> Version]
    BY <1>1 DEF SupersedeLatest, Version, VersionStatus
  <2>4. SupersedeLatest \in Seq(Version) /\ Len(SupersedeLatest) = Latest
    BY <1>1, <2>3
  <2>5. Len(history') = Latest + 1 /\ \A v \in 1 .. Latest : history'[v] = SupersedeLatest[v]
    BY <1>1, <2>1, <2>4
  <2> QED
    BY <1>3, <2>2, <2>5 DEF Latest, PublishVersion
<1>4. ASSUME RevokeVersion
      PROVE  /\ Latest' = Latest
             /\ \A v \in 1 .. Latest :
                  history'[v].status = "published" => history[v].status = "published"
  <2>1. history' = [history EXCEPT ![Latest] = [history[Latest] EXCEPT !.status = "revoked"]]
    BY <1>4 DEF RevokeVersion
  <2>2. [history[Latest] EXCEPT !.status = "revoked"].status = "revoked"
    BY <1>1, <1>4 DEF RevokeVersion, Version
  <2>3. \A v \in 1 .. Latest :
          history'[v].status = IF v = Latest THEN "revoked" ELSE history[v].status
    BY <2>1, <2>2 DEF HistoryTypeOK, Latest
  <2>4. Len(history') = Len(history)
    BY <2>1 DEF HistoryTypeOK
  <2> QED
    BY <2>3, <2>4 DEF Latest
<1>5. CASE HistoryNext
  <2>1. /\ HistoryTypeOK' /\ Latest' >= Latest
        /\ \A v \in 1 .. Latest : history'[v].content = history[v].content
    BY <1>5, HistoryStep
  <2>2. CASE \E c \in Content : PublishVersion(c)
    BY <1>1, <2>1, <2>2, <1>3, HistoryAssumption
  <2>3. CASE RevokeVersion
    BY <1>1, <2>1, <2>3, <1>4
  <2> QED
    BY <1>5, <2>2, <2>3 DEF HistoryNext
<1> QED
  BY <1>2, <1>5

LEMMA ClocksStep ==
    ASSUME WorthInv, Next
    PROVE  /\ ClocksInv'
           /\ clock' >= clock
           /\ \A v \in 1 .. VersionBound : lastGood'[v] >= lastGood[v]
<1>1. /\ HistoryTypeOK' /\ Latest' <= VersionBound
      /\ Latest \in Nat /\ Latest' \in Nat
  BY HistoryMoves, StatusStep DEF WorthInv, Inv, ClocksInv
<1>2. /\ clock \in Nat /\ chainTime \in Nat /\ clock <= chainTime + Skew
      /\ Skew \in Nat /\ VersionBound \in Nat
  BY StatusAssumption, HistoryAssumption DEF WorthInv, Inv, ClocksInv
<1>3. \/ clock' = clock /\ chainTime' = chainTime
      \/ clock' = clock + 1 /\ clock + 1 <= chainTime + Skew /\ chainTime' = chainTime
      \/ clock' = clock /\ chainTime' = chainTime + 1
  BY DEF Next, Step, ChangeHistory, ChangeHealth, Evaluate, Replay, GiveUp, Store, Sign,
         Deliver, OnReport, Tick, Block
<1>4. clock' \in Nat /\ clock' >= clock /\ chainTime' \in Nat /\ clock' <= chainTime' + Skew
  BY <1>2, <1>3
<1>5. lastGood' = IF GoodNow' THEN [lastGood EXCEPT ![Latest'] = clock'] ELSE lastGood
  BY DEF Next, Remember
<1>6. lastGood \in [1 .. VersionBound -> Nat] /\ \A v \in 1 .. VersionBound : lastGood[v] <= clock
  BY DEF WorthInv, ClocksInv
<1>7. \A v \in 1 .. VersionBound : lastGood'[v] \in {lastGood[v], clock'}
  BY <1>5, <1>6
<1>8. lastGood' \in [1 .. VersionBound -> Nat]
  BY <1>4, <1>5, <1>6
<1>9. \A v \in 1 .. VersionBound : lastGood'[v] >= lastGood[v] /\ lastGood'[v] <= clock'
  BY <1>2, <1>4, <1>6, <1>7
<1> QED
  BY <1>1, <1>4, <1>8, <1>9 DEF ClocksInv

\* What a report was worth, it stays worth.
LEMMA WorthStays ==
    ASSUME WorthInv, Next, NEW r, Grounded(r), Worth(r)
    PROVE  Worth(r)'
<1>1. /\ Latest \in Nat /\ Latest <= VersionBound /\ VersionBound \in Nat
      /\ \A v \in 1 .. Latest :
           history'[v].status = "published" => history[v].status = "published"
  BY HistoryMoves, StatusStep, HistoryAssumption DEF WorthInv, Inv, ClocksInv
<1>2. r.version \in 1 .. Latest /\ r.observedAt \in Nat
  BY DEF Grounded, StatusReport
<1>3. r.version \in 1 .. VersionBound
  BY <1>1, <1>2
<1>4. /\ lastGood'[r.version] >= lastGood[r.version]
      /\ lastGood[r.version] \in Nat /\ lastGood'[r.version] \in Nat
  BY <1>3, ClocksStep DEF WorthInv, ClocksInv
<1> QED
  BY <1>1, <1>2, <1>4 DEF Worth, WellFormed

\* The report under evaluation says what is so now.
LEMMA EvaluatedWorth ==
    ASSUME WorthInv, Next, NEW e \in Execution, NEW n \in Node, Evaluate(e, n)
    PROVE  /\ Worth(handling.report)'
           /\ \A r \in Stored : NotTakenBack(r, handling'.report)
<1> DEFINE r == handling'.report
<1>1. /\ r.version = Latest /\ r.content = history[Latest].content
      /\ r.observedAt = clock /\ r.validUntil = clock + Ttl
      /\ r.sequence = NextSequence /\ r.status = StatusOf(Latest)
  BY DEF Evaluate, ReportedVersion
<1>2. /\ Latest \in Nat /\ Latest > 0 /\ Latest <= VersionBound
      /\ history' = history /\ health' = health /\ clock' = clock /\ clock \in Nat
  BY LatestIsNat DEF Evaluate, WorthInv, Inv, ClocksInv
<1>3. history[Latest] \in Version
  BY <1>2 DEF WorthInv, Inv, HistoryTypeOK, Latest
<1>5. NextSequence \in Nat /\ NextSequence > 0
  BY NextSequenceIsAhead DEF WorthInv, Inv, StoredInOrder, Grounded
<1>6. WellFormed(r)
  BY <1>1, <1>2, <1>3, <1>5, StatusAssumption
  DEF WellFormed, StatusOf, CURRENT, NEEDS_RE_REVIEW, REVOKED, UNAVAILABLE, Version
<1>7. r.status = REVOKED => history[Latest].status # "published"
  BY <1>1 DEF StatusOf, CURRENT, NEEDS_RE_REVIEW, REVOKED, UNAVAILABLE
<1>8. r.status = CURRENT => GoodNow
  BY <1>1, <1>2, <1>3
  DEF StatusOf, CURRENT, NEEDS_RE_REVIEW, REVOKED, UNAVAILABLE, GoodNow, Version, VersionStatus,
      WorthInv, Health
<1>9. r.status = CURRENT => lastGood'[Latest] = clock
  <2>1. Latest' = Latest /\ (GoodNow => GoodNow')
    BY <1>2 DEF GoodNow, Latest
  <2>2. Latest \in 1 .. VersionBound
    BY <1>2, HistoryAssumption
  <2> QED
    BY <1>2, <1>8, <2>1, <2>2 DEF Next, Remember, WorthInv, ClocksInv
<1>10. Worth(handling.report)'
  BY <1>1, <1>2, <1>6, <1>7, <1>9 DEF Worth, WellFormed
<1>11. ASSUME NEW t \in Stored, t.status = REVOKED, r.version = t.version
       PROVE  r.status # CURRENT
  <2>1. history[Latest].status # "published"
    BY <1>1, <1>11 DEF WorthInv, ReportsInv, Worth
  <2> QED
    BY <1>8, <2>1 DEF GoodNow
<1> QED
  BY <1>10, <1>11 DEF NotTakenBack

\* What can happen to the stored reports and the one in the making.
LEMMA ReportsMove ==
    ASSUME WorthInv, Next
    PROVE  \/ \E e \in Execution, n \in Node : Evaluate(e, n) /\ Stored' = Stored
           \/ /\ handling # NoAnswer /\ handling' = NoAnswer
              /\ Stored' = Stored \cup {handling.report}
           \/ handling' \in {handling, NoAnswer} /\ Stored' = Stored
<1>1. ASSUME NEW heard \in BOOLEAN, Store(heard)
      PROVE  Stored' = Stored \cup {handling.report}
  <2>1. /\ handling.execution \in Execution
        /\ reports[handling.execution] = NoAnswer
        /\ handling.report # NoAnswer
    BY <1>1, StatusAssumption DEF Store, WorthInv, Inv, HandlingAhead, Handling
  <2>2. reports' = [reports EXCEPT ![handling.execution] = handling.report]
    BY <1>1 DEF Store, Dated
  <2> QED
    BY <2>1, <2>2 DEF WorthInv, Inv, Stored
<1>2. (\A heard \in BOOLEAN : ~Store(heard)) => Stored' = Stored
  BY DEF Next, Step, ChangeHistory, ChangeHealth, Evaluate, Replay, GiveUp, Sign,
         Deliver, OnReport, Tick, Block, Stored
<1>3. \/ \E e \in Execution, n \in Node : Evaluate(e, n)
      \/ \E heard \in BOOLEAN : Store(heard)
      \/ handling' \in {handling, NoAnswer}
  BY DEF Next, Step, ChangeHistory, ChangeHealth, Replay, GiveUp, Sign, Deliver, OnReport,
         Tick, Block
<1>4. ASSUME NEW e \in Execution, NEW n \in Node, Evaluate(e, n)
      PROVE  Stored' = Stored
  BY <1>4 DEF Evaluate, Stored
<1>5. ASSUME NEW heard \in BOOLEAN, Store(heard)
      PROVE  handling # NoAnswer /\ handling' = NoAnswer
  BY <1>5 DEF Store
<1> QED
  BY <1>1, <1>2, <1>3, <1>4, <1>5

LEMMA ReportsStep ==
    ASSUME WorthInv, Next
    PROVE  ReportsInv'
<1>1. \A r \in Stored : Grounded(r) /\ Worth(r) /\ Worth(r)'
  BY WorthStays DEF WorthInv, ReportsInv, Inv, StoredInOrder
<1>2. handling # NoAnswer => \/ Worth(handling.report) /\ (Worth(handling.report))'
                             \/ handling' # handling
  BY WorthStays DEF WorthInv, ReportsInv, Inv, HandlingAhead
<1>3. CASE \E e \in Execution, n \in Node : Evaluate(e, n) /\ Stored' = Stored
  BY <1>1, <1>3, EvaluatedWorth DEF ReportsInv, WorthInv, NotTakenBack
<1>4. CASE /\ handling # NoAnswer /\ handling' = NoAnswer
           /\ Stored' = Stored \cup {handling.report}
  <2>0. PICK q : q = handling.report
    OBVIOUS
  <2>1. /\ Grounded(q) /\ Worth(q) /\ q.sequence \in Nat
        /\ \A r \in Stored : r.sequence < q.sequence /\ NotTakenBack(r, q) /\ r.sequence \in Nat
    BY <1>4, <1>1, <2>0 DEF WorthInv, ReportsInv, Inv, HandlingAhead, Grounded, StatusReport
  <2>2. Worth(q)'
    BY <2>1, WorthStays
  <2>3. Stored' = Stored \cup {q}
    BY <1>4, <2>0
  <2>4. \A r, t \in Stored' : t.sequence > r.sequence => NotTakenBack(r, t)
    BY <2>1, <2>3 DEF WorthInv, ReportsInv
  <2> QED
    BY <1>1, <1>4, <2>2, <2>3, <2>4 DEF ReportsInv, NotTakenBack
<1>5. CASE handling' \in {handling, NoAnswer} /\ Stored' = Stored
  BY <1>1, <1>2, <1>5 DEF ReportsInv, WorthInv, NotTakenBack
<1> QED
  BY <1>3, <1>4, <1>5, ReportsMove

\* A node is only ever given the one report of the execution.
LEMMA AnswersStep ==
    ASSUME WorthInv, Next
    PROVE  AnswersInv'
<1>0. /\ answers \in [Execution -> [Node -> StatusReport \cup {NoAnswer}]]
      /\ reports \in [Execution -> StatusReport \cup {NoAnswer}]
      /\ \A e \in Execution : \A n \in Node : answers[e][n] \in {NoAnswer, reports[e]}
  BY DEF WorthInv, AnswersInv, Inv
<1>1. ASSUME NEW heard \in BOOLEAN, Store(heard)
      PROVE  AnswersInv'
  <2> DEFINE x == handling.execution
             m == handling.node
             r == handling.report
  <2>1. x \in Execution /\ m \in Node /\ r \in StatusReport /\ reports[x] = NoAnswer
    BY <1>1 DEF Store, WorthInv, Inv, HandlingAhead, Handling
  <2>2. /\ reports' = [reports EXCEPT ![x] = r]
        /\ answers' = IF heard THEN [answers EXCEPT ![x][m] = r] ELSE answers
    BY <1>1 DEF Store, Dated
  <2> HIDE DEF x, m, r
  <2>3. answers' \in [Execution -> [Node -> StatusReport \cup {NoAnswer}]]
    BY <1>0, <2>1, <2>2
  <2>4. ASSUME NEW e \in Execution, NEW n \in Node
        PROVE  answers'[e][n] \in {NoAnswer, reports'[e]}
    <3>1. answers'[e][n] \in {answers[e][n], IF e = x THEN r ELSE answers[e][n]}
      BY <1>0, <2>1, <2>2
    <3>2. reports'[e] = IF e = x THEN r ELSE reports[e]
      BY <1>0, <2>1, <2>2
    <3> QED
      BY <1>0, <2>1, <3>1, <3>2
  <2> QED
    BY <2>3, <2>4 DEF AnswersInv
<1>2. ASSUME NEW e \in Execution, NEW n \in Node, Replay(e, n)
      PROVE  AnswersInv'
  <2>1. /\ answers' = [answers EXCEPT ![e][n] = reports[e]] /\ reports' = reports
    BY <1>2 DEF Replay
  <2>2. answers' \in [Execution -> [Node -> StatusReport \cup {NoAnswer}]]
    BY <1>0, <2>1
  <2>3. \A d \in Execution : \A m \in Node :
          answers'[d][m] = IF d = e /\ m = n THEN reports[e] ELSE answers[d][m]
    BY <1>0, <2>1
  <2> QED
    BY <1>0, <2>1, <2>2, <2>3 DEF AnswersInv
<1>3. CASE UNCHANGED <<answers, reports>>
  BY <1>0, <1>3 DEF AnswersInv
<1> QED
  BY <1>1, <1>2, <1>3 DEF Next, Step, ChangeHistory, ChangeHealth, Evaluate, GiveUp, Sign,
     Deliver, OnReport, Tick, Block

LEMMA WorthStep == WorthInv /\ [Next]_statusVars => WorthInv'
<1> SUFFICES ASSUME WorthInv, [Next]_statusVars PROVE WorthInv'
  OBVIOUS
<1>1. Inv'
  BY NextPreservesInv DEF WorthInv
<1>2. CASE Next
  <2>1. health' \in Health
    BY <1>2 DEF Next, Step, ChangeHistory, ChangeHealth, Evaluate, Replay, GiveUp, Store, Sign,
       Deliver, OnReport, Tick, Block, WorthInv
  <2> QED
    BY <1>1, <1>2, <2>1, ClocksStep, AnswersStep, ReportsStep DEF WorthInv
<1>3. CASE UNCHANGED statusVars
  <2>1. health' \in Health /\ ClocksInv' /\ AnswersInv'
    BY <1>3 DEF statusVars, WorthInv, ClocksInv, AnswersInv, Latest
  <2>2. ReportsInv'
    BY <1>3 DEF statusVars, WorthInv, ReportsInv, Worth, WellFormed, NotTakenBack, Stored
  <2> QED
    BY <1>1, <2>1, <2>2 DEF WorthInv
<1> QED
  BY <1>2, <1>3

LEMMA WorthAlways == Spec => []WorthInv
BY WorthInit, WorthStep, PTL DEF Spec

LEMMA EmptyMirrorTyped == EmptyMirror \in StatusReport
BY ReceiverAssumption DEF EmptyMirror, StatusReport, UNAVAILABLE

LEMMA WorthMakesReliable == WorthInv => ReportsCanBeReliedOn
<1> SUFFICES ASSUME WorthInv PROVE ReportsCanBeReliedOn
  OBVIOUS
<1>1. mirror \in StatusReport
  BY EmptyMirrorTyped DEF WorthInv, Inv, StoredInOrder, Grounded
<1>2. TypeOK
  BY <1>1 DEF TypeOK, WorthInv, Inv, ClocksInv, AnswersInv, ReportsInv, Worth, HandlingAhead
<1>3. OneReportPerExecution
  BY <1>2 DEF OneReportPerExecution, WorthInv, AnswersInv
<1>4. ASSUME IsCurrent
      PROVE  clock < lastGood[mirror.version] + Ttl + Skew
  <2>1. mirror # EmptyMirror
    BY <1>4 DEF IsCurrent, EmptyMirror, CURRENT
  <2>2. Grounded(mirror) /\ Worth(mirror)
    BY <2>1 DEF WorthInv, Inv, StoredInOrder, ReportsInv
  <2>3. mirror.version \in 1 .. VersionBound /\ mirror.observedAt \in Nat
    BY <2>2, LatestIsNat, HistoryAssumption DEF Grounded, StatusReport, WorthInv, ClocksInv, Inv
  <2>4. /\ lastGood[mirror.version] \in Nat
        /\ lastGood[mirror.version] >= mirror.observedAt
        /\ mirror.validUntil = mirror.observedAt + Ttl
    BY <1>4, <2>2, <2>3 DEF Worth, IsCurrent, WorthInv, ClocksInv
  <2>5. /\ clock \in Nat /\ chainTime \in Nat /\ Skew \in Nat /\ Ttl \in Nat
        /\ clock <= chainTime + Skew /\ mirror.validUntil > chainTime
    BY <1>4, StatusAssumption DEF IsCurrent, WorthInv, Inv, ClocksInv
  <2> HIDE DEF IsCurrent
  <2> QED
    BY <2>3, <2>4, <2>5
<1> QED
  BY <1>3, <1>4 DEF ReportsCanBeReliedOn, CurrentIsRecent

(* Whatever nodes ask and however often, one execution has one report; and *)
(* what the contract calls current was good for that very version no       *)
(* longer ago than the lifetime of a report and the difference of the      *)
(* clocks (workflow.ts:61, cre-reports.ts:124).                            *)
THEOREM ReportsAreReliable == Spec => []ReportsCanBeReliedOn
BY WorthAlways, WorthMakesReliable, PTL

(* The chain takes a revocation back for no report about the same version: *)
(* a later one was evaluated after the revocation was stored, and a        *)
(* revoked version is never in force again (cre-reports.ts:65-104).        *)
THEOREM RevocationsStick == Spec => RevocationSticks
<1>1. ASSUME WorthInv, [Next]_statusVars, mirror.status = REVOKED, mirror'.status = CURRENT
      PROVE  mirror'.version > mirror.version
  <2>1. PICK r \in signed : Deliver(r)
    <3>1. mirror' # mirror
      BY <1>1 DEF REVOKED, CURRENT
    <3> QED
      BY <1>1, <3>1 DEF Next, Step, ChangeHistory, ChangeHealth, Evaluate, Replay, GiveUp, Store,
         Sign, Tick, Block, statusVars
  <2>2. mirror' = r /\ r.sequence > mirror.sequence /\ r.version >= mirror.version
    BY <2>1 DEF Deliver, OnReport, InOrder, SameRecord
  <2>3. mirror \in Stored /\ r \in Stored
    BY <1>1 DEF WorthInv, Inv, EmptyMirror, REVOKED
  <2>4. mirror.version # r.version
    BY <1>1, <2>2, <2>3 DEF WorthInv, ReportsInv, NotTakenBack
  <2>5. mirror.version \in Nat /\ r.version \in Nat
    BY <1>1, <2>3 DEF WorthInv, Inv, StoredInOrder, Grounded, StatusReport
  <2> QED
    BY <2>2, <2>4, <2>5
<1>2. WorthInv /\ [Next]_statusVars =>
        [(mirror.status = REVOKED /\ mirror'.status = CURRENT)
            => mirror'.version > mirror.version]_statusVars
  BY <1>1
<1> QED
  BY <1>2, WorthAlways, PTL DEF Spec, RevocationSticks
=============================================================================
