--------------------------- MODULE DocumentsProofs ---------------------------
(***************************************************************************)
(* Proofs about UploadScan for any contents, requests and workers, and any *)
(* limits on attempts and leases, and about DocumentGraph for any          *)
(* documents, links, requests and days: judgements stand, versions and     *)
(* links close no loop, and what rests on a document hears when it falls.  *)
(***************************************************************************)
EXTENDS UploadScan, DocumentGraph, FiniteSetTheorems, WellFoundedInduction, TLAPS

UploadRows ==
  [state : UploadStates, version : 1..3, key : ObjectKeys, sens : Sensitivities,
   attempts : 0..MaxAttempts, lease : Leases, rank : 0..Cardinality(Contents)]
RequestRows ==
  [pc : {"start", "put", "stored", "insert", "answered", "mismatch", "failed"},
   via : {"base64", "stream"}, content : Contents, sens : Sensitivities]
Busy ==
  [pc : {"scan", "clean", "infected", "error", "unavailable"}, content : Contents,
   version : {1}, attempts : 1..MaxAttempts, left : 0..LeaseTicks]
Idle == [pc |-> "idle"]

ScanTyped ==
  /\ upload \in [Contents -> UploadRows \cup {NoUpload}]
  /\ request \in [Requests -> RequestRows]
  /\ worker \in [Workers -> Busy \cup {Idle}]
  /\ objects \subseteq ObjectKeys
  /\ artifacts \subseteq Contents
  /\ issued \subseteq Contents

\* A file's version counts the changes of its state.
VersionOf(state) == IF state = "quarantined" THEN 1 ELSE IF state = "promoted" THEN 3 ELSE 2
VersionsCount == \A c \in Contents : exists(c) => upload[c].version = VersionOf(upload[c].state)

\* A request that will write a row has put its object.
RequestsHaveObjects ==
  \A r \in Requests : request[r].pc \in {"stored", "insert"} => quarantineKey(r) \in objects

\* A worker scans a file that has a row.
WorkersHaveRows == \A w \in Workers : busy(w) => exists(worker[w].content)

ScanInv ==
  /\ ScanTyped /\ VersionsCount /\ RequestsHaveObjects /\ WorkersHaveRows
  /\ LiveLeaseIntact /\ RowsHaveObjects /\ AnswersAgree

LEMMA ScanInvIsEnough == ScanInv => UploadsAgree
BY DEF ScanInv, ScanTyped, UploadsAgree, UploadTypeOK, UploadRows, exists

LEMMA InitScan == UploadScanInit => ScanInv
<1> SUFFICES ASSUME UploadScanInit PROVE ScanInv
  OBVIOUS
<1>1. /\ upload = [c \in Contents |-> NoUpload] /\ objects = {} /\ artifacts = {} /\ issued = {}
      /\ worker = [w \in Workers |-> [pc |-> "idle"]]
      /\ request \in [Requests -> {[pc |-> "start", via |-> v, content |-> c, sens |-> s] :
                                     v \in {"base64", "stream"}, c \in Contents, s \in Sensitivities}]
  BY DEF UploadScanInit
<1>2. \A r \in Requests : request[r] \in RequestRows /\ request[r].pc = "start"
  BY <1>1 DEF RequestRows
<1>3. request \in [Requests -> RequestRows]
  BY <1>1, <1>2
<1>4. \A w \in Workers : ~busy(w)
  BY <1>1 DEF busy
<1>5. \A c \in Contents : ~exists(c)
  BY <1>1 DEF exists
<1>6. ScanTyped
  BY <1>1, <1>3 DEF ScanTyped, Idle
<1> QED BY <1>1, <1>2, <1>4, <1>5, <1>6
        DEF ScanInv, VersionsCount, RequestsHaveObjects, WorkersHaveRows, LiveLeaseIntact,
            RowsHaveObjects, AnswersAgree

----------------------------------------------------------------------------
\* A request moves on: the row it was answered with is not its doing.
LEMMA RequestMoves ==
  ASSUME ScanInv, NEW r \in Requests, NEW pc, GoTo(r, pc),
         pc \in {"put", "stored", "insert", "answered", "mismatch", "failed"},
         objects \subseteq objects', objects' \subseteq ObjectKeys,
         pc \in {"stored", "insert"} => quarantineKey(r) \in objects',
         pc = "answered" =>
           exists(request[r].content) /\ upload[request[r].content].sens = request[r].sens,
         UNCHANGED <<upload, artifacts, worker, issued>>
  PROVE  ScanInv'
<1>1. /\ request' \in [Requests -> RequestRows]
      /\ \A q \in Requests : /\ request'[q].pc = IF q = r THEN pc ELSE request[q].pc
                             /\ request'[q].content = request[q].content
                             /\ request'[q].sens = request[q].sens
  BY DEF ScanInv, ScanTyped, GoTo, RequestRows
<1>2. ScanTyped'
  BY <1>1 DEF ScanInv, ScanTyped
<1>3. VersionsCount' /\ WorkersHaveRows' /\ LiveLeaseIntact'
  BY DEF ScanInv, VersionsCount, WorkersHaveRows, LiveLeaseIntact, busy, exists
<1>4. RequestsHaveObjects' /\ RowsHaveObjects'
  BY <1>1 DEF ScanInv, RequestsHaveObjects, RowsHaveObjects, exists
<1>5. AnswersAgree'
  BY <1>1 DEF ScanInv, AnswersAgree, exists
<1> QED BY <1>2, <1>3, <1>4, <1>5 DEF ScanInv

LEMMA SameSensitivity ==
  ASSUME NEW r \in Requests, exists(request[r].content)
  PROVE  /\ assertSameSensitivity(r) \in {"answered", "mismatch"}
         /\ assertSameSensitivity(r) = "answered" =>
              upload[request[r].content].sens = request[r].sens
BY DEF assertSameSensitivity

LEMMA RequestStepsHold ==
  ASSUME ScanInv, NEW r \in Requests,
         \/ LookUpContent(r) \/ PutObject(r) \/ RequestFails(r)
         \/ InsertUpload(r) /\ exists(request[r].content)
  PROVE  ScanInv'
<1>1. objects \subseteq ObjectKeys /\ quarantineKey(r) \in ObjectKeys
  BY DEF ScanInv, ScanTyped, ObjectKeys
<1>2. CASE LookUpContent(r)
  <2> DEFINE pc == IF exists(request[r].content) THEN assertSameSensitivity(r) ELSE afterLookup(r)
  <2>1. GoTo(r, pc) /\ UNCHANGED <<upload, objects, artifacts, worker, issued>>
    BY <1>2 DEF LookUpContent, store
  <2>2. /\ pc \in {"put", "insert", "answered", "mismatch"}
        /\ pc = "answered" =>
             exists(request[r].content) /\ upload[request[r].content].sens = request[r].sens
    BY SameSensitivity DEF afterLookup
  <2>3. pc = "insert" => quarantineKey(r) \in objects
    <3>1. pc = "insert" => request[r].via # "base64"
      BY SameSensitivity DEF afterLookup
    <3> QED BY <1>2, <3>1 DEF LookUpContent, ScanInv, RequestsHaveObjects
  <2> HIDE DEF pc
  <2> QED BY <1>1, <2>1, <2>2, <2>3, RequestMoves
<1>3. CASE PutObject(r)
  <2>1. PICK pc \in {"insert", "stored"} : GoTo(r, pc)
    BY <1>3 DEF PutObject
  <2>2. /\ objects' = objects \cup {quarantineKey(r)}
        /\ UNCHANGED <<upload, artifacts, worker, issued>>
    BY <1>3 DEF PutObject
  <2> QED BY <1>1, <2>1, <2>2, RequestMoves
<1>4. CASE RequestFails(r)
  <2>1. GoTo(r, "failed") /\ UNCHANGED <<upload, objects, artifacts, worker, issued>>
    BY <1>4 DEF RequestFails, store
  <2> QED BY <1>1, <2>1, RequestMoves
<1>5. CASE InsertUpload(r) /\ exists(request[r].content)
  <2>1. /\ GoTo(r, assertSameSensitivity(r))
        /\ UNCHANGED <<upload, objects, artifacts, worker, issued>>
    BY <1>5 DEF InsertUpload
  <2> QED BY <1>1, <1>5, <2>1, SameSensitivity, RequestMoves
<1> QED BY <1>2, <1>3, <1>4, <1>5
----------------------------------------------------------------------------
\* The row of a file is rewritten: its key, sensitivity and rank stay.
LEMMA RowChanges ==
  ASSUME ScanInv, NEW c \in Contents, NEW row \in UploadRows, exists(c),
         upload' = [upload EXCEPT ![c] = row],
         row.key = upload[c].key, row.sens = upload[c].sens,
         row.version = VersionOf(row.state),
         worker' \in [Workers -> Busy \cup {Idle}],
         \A w \in Workers : worker'[w].pc # "idle" =>
           \/ worker'[w].content = c
           \/ worker[w].pc # "idle" /\ worker'[w].content = worker[w].content,
         LiveLeaseIntact',
         objects \subseteq objects', objects' \subseteq ObjectKeys,
         row.state = "promoted" => evidenceKey(c) \in objects',
         artifacts' = IF row.state = "promoted" THEN artifacts \cup {c} ELSE artifacts,
         upload[c].state = "promoted" => row.state = "promoted",
         UNCHANGED <<request, issued>>
  PROVE  ScanInv'
<1>1. row # NoUpload
  BY DEF UploadRows, UploadStates, NoUpload
<1>2. /\ upload' \in [Contents -> UploadRows \cup {NoUpload}]
      /\ \A d \in Contents : upload'[d] = IF d = c THEN row ELSE upload[d]
  BY DEF ScanInv, ScanTyped
<1>3. \A d \in Contents : upload'[d] # NoUpload <=> upload[d] # NoUpload
  BY <1>1, <1>2 DEF exists
<1>4. ScanTyped'
  BY <1>2 DEF ScanInv, ScanTyped
<1>5. VersionsCount'
  BY <1>2, <1>3 DEF ScanInv, VersionsCount, exists
<1>6. RequestsHaveObjects'
  BY DEF ScanInv, RequestsHaveObjects
<1>7. WorkersHaveRows'
  <2> SUFFICES ASSUME NEW w \in Workers, worker'[w].pc # "idle"
               PROVE  upload'[worker'[w].content] # NoUpload
    BY DEF WorkersHaveRows, busy, exists
  <2>1. CASE worker'[w].content = c
    BY <1>1, <1>2, <2>1
  <2>2. CASE worker[w].pc # "idle" /\ worker'[w].content = worker[w].content
    <3>1. worker[w].content \in Contents
      BY <2>2 DEF ScanInv, ScanTyped, Busy, Idle
    <3> QED BY <1>3, <2>2, <3>1 DEF ScanInv, WorkersHaveRows, busy, exists
  <2> QED BY <2>1, <2>2
<1>8. RowsHaveObjects'
  <2> SUFFICES ASSUME NEW d \in Contents
               PROVE  /\ upload'[d] # NoUpload => upload'[d].key \in objects'
                      /\ d \in artifacts' => evidenceKey(d) \in objects'
                      /\ (upload'[d] # NoUpload /\ upload'[d].state = "promoted")
                           <=> d \in artifacts'
    BY DEF RowsHaveObjects, exists, evidenceKey
  <2>1. /\ exists(d) => upload[d].key \in objects
        /\ d \in artifacts => evidenceKey(d) \in objects
        /\ (exists(d) /\ upload[d].state = "promoted") <=> d \in artifacts
    BY DEF ScanInv, RowsHaveObjects
  <2>2. CASE d = c
    BY <1>1, <1>2, <2>1, <2>2
  <2>3. CASE d # c
    BY <1>2, <2>1, <2>3 DEF exists
  <2> QED BY <2>2, <2>3
<1>9. AnswersAgree'
  <2>1. \A r \in Requests : request[r].content \in Contents
    BY DEF ScanInv, ScanTyped, RequestRows
  <2> QED BY <1>2, <1>3, <2>1 DEF ScanInv, AnswersAgree, exists
<1> QED BY <1>4, <1>5, <1>6, <1>7, <1>8, <1>9, ScanInv DEF ScanInv

LEMMA RowTypes ==
  ASSUME ScanInv, NEW c \in Contents, exists(c)
  PROVE  /\ upload[c] \in UploadRows
         /\ upload[c].version = VersionOf(upload[c].state)
         /\ upload[c].attempts \in 0..MaxAttempts
         /\ upload[c].lease \in Leases
BY DEF ScanInv, ScanTyped, VersionsCount, exists, UploadRows

LEMMA LeaseHolds ==
  ASSUME ScanInv, NEW w \in Workers, NEW c \in Contents, leaseOne(w, c)
  PROVE  ScanInv'
<1> DEFINE row == [upload[c] EXCEPT !.attempts = upload[c].attempts + 1,
                                    !.lease = [by |-> w, left |-> LeaseTicks]]
           job == [pc |-> "scan", content |-> c, version |-> upload[c].version,
                   attempts |-> upload[c].attempts + 1, left |-> LeaseTicks]
<1>1. /\ exists(c) /\ upload[c].state = "quarantined" /\ upload[c].attempts < MaxAttempts
      /\ upload[c].lease.left = 0
      /\ upload' = [upload EXCEPT ![c] = row]
      /\ worker' = [worker EXCEPT ![w] = job]
      /\ worker[w].pc = "idle"
      /\ UNCHANGED <<objects, artifacts, request, issued>>
  BY DEF leaseOne, Leasable, ScanInv, ScanTyped
<1>2. /\ upload[c] \in UploadRows /\ upload[c].version = 1
      /\ upload[c].attempts \in 0..MaxAttempts
  BY <1>1, RowTypes DEF VersionOf
<1>3. /\ MaxAttempts \in Nat \ {0} /\ LeaseTicks \in Nat \ {0}
  BY UploadScanAssumption
<1>4. /\ row \in UploadRows /\ row.key = upload[c].key /\ row.sens = upload[c].sens
      /\ row.state = "quarantined" /\ row.version = 1
      /\ row.lease = [by |-> w, left |-> LeaseTicks]
      /\ row.attempts = upload[c].attempts + 1
  <2>1. /\ upload[c].attempts + 1 \in 0..MaxAttempts
        /\ [by |-> w, left |-> LeaseTicks] \in Leases
    BY <1>1, <1>2, <1>3 DEF Leases
  <2>2. row = [upload[c] EXCEPT !.attempts = upload[c].attempts + 1,
                                !.lease = [by |-> w, left |-> LeaseTicks]]
    OBVIOUS
  <2> HIDE DEF row
  <2> QED BY <1>1, <1>2, <2>1, <2>2 DEF UploadRows
<1>5. /\ job \in Busy /\ job.content = c /\ job.attempts = upload[c].attempts + 1
      /\ job.left = LeaseTicks
  BY <1>1, <1>2, <1>3 DEF Busy
<1> HIDE DEF row, job
<1>6. /\ worker' \in [Workers -> Busy \cup {Idle}]
      /\ \A v \in Workers : worker'[v] = IF v = w THEN job ELSE worker[v]
      /\ \A d \in Contents : upload'[d] = IF d = c THEN row ELSE upload[d]
  BY <1>1, <1>5 DEF ScanInv, ScanTyped
<1>7. LiveLeaseIntact'
  <2> SUFFICES ASSUME NEW v \in Workers, worker'[v].pc # "idle", worker'[v].left > 0,
                      upload'[worker'[v].content].state = "quarantined"
               PROVE  /\ upload'[worker'[v].content].lease = [by |-> v, left |-> worker'[v].left]
                      /\ upload'[worker'[v].content].attempts = worker'[v].attempts
    BY DEF LiveLeaseIntact, busy
  <2>1. CASE v = w
    BY <1>4, <1>5, <1>6, <2>1
  <2>2. CASE v # w
    <3>1. worker'[v] = worker[v] /\ worker[v].content \in Contents /\ busy(v)
      BY <1>6, <2>2 DEF busy, ScanInv, ScanTyped, Busy, Idle
    <3>2. worker[v].content # c
      <4> SUFFICES ASSUME worker[v].content = c PROVE FALSE
        OBVIOUS
      <4>1. upload[c].lease = [by |-> v, left |-> worker[v].left]
        BY <1>1, <3>1 DEF ScanInv, LiveLeaseIntact
      <4> QED BY <1>1, <3>1, <4>1
    <3> QED BY <1>6, <3>1, <3>2 DEF ScanInv, LiveLeaseIntact
  <2> QED BY <2>1, <2>2
<1>8. \A v \in Workers : worker'[v].pc # "idle" =>
        \/ worker'[v].content = c
        \/ worker[v].pc # "idle" /\ worker'[v].content = worker[v].content
  BY <1>5, <1>6
<1>9. objects' = objects /\ objects \subseteq ObjectKeys /\ upload[c].state # "promoted"
  BY <1>1 DEF ScanInv, ScanTyped
<1> QED BY <1>1, <1>4, <1>6, <1>7, <1>8, <1>9, RowChanges DEF VersionOf
\* A worker goes on with its file, or puts it down; no row is touched.
LEMMA WorkerMoves ==
  ASSUME ScanInv, NEW w \in Workers, NEW step \in Busy \cup {Idle},
         worker' = [worker EXCEPT ![w] = step],
         step.pc # "idle" =>
           /\ worker[w].pc # "idle" /\ step.content = worker[w].content
           /\ step.left = worker[w].left /\ step.attempts = worker[w].attempts,
         UNCHANGED <<upload, objects, artifacts, request, issued>>
  PROVE  ScanInv'
<1>1. /\ worker' \in [Workers -> Busy \cup {Idle}]
      /\ \A v \in Workers : worker'[v] = IF v = w THEN step ELSE worker[v]
  BY DEF ScanInv, ScanTyped
<1>2. ScanTyped' /\ VersionsCount' /\ RequestsHaveObjects' /\ RowsHaveObjects' /\ AnswersAgree'
  BY <1>1 DEF ScanInv, ScanTyped, VersionsCount, RequestsHaveObjects, RowsHaveObjects,
              AnswersAgree, exists
<1>3. WorkersHaveRows'
  BY <1>1 DEF ScanInv, WorkersHaveRows, busy, exists
<1>4. LiveLeaseIntact'
  BY <1>1 DEF ScanInv, LiveLeaseIntact, busy
<1> QED BY <1>2, <1>3, <1>4 DEF ScanInv

LEMMA Working ==
  ASSUME ScanInv, NEW w \in Workers, worker[w].pc # "idle"
  PROVE  /\ worker[w] \in Busy /\ worker[w].content \in Contents
         /\ exists(worker[w].content)
         /\ worker[w].attempts \in 1..MaxAttempts /\ worker[w].version = 1
<1>1. worker[w] \in Busy
  BY DEF ScanInv, ScanTyped, Idle
<1> QED BY <1>1 DEF ScanInv, WorkersHaveRows, Busy, busy

LEMMA QuietWorkerSteps ==
  ASSUME ScanInv, NEW w \in Workers,
         \/ \E outcome \in {"clean", "infected", "error", "unavailable"} : scan(w, outcome)
         \/ ReportRefused(w)
         \/ WorkerCrash(w)
         \/ recordFailure(w) /\ ~HoldsLease(w)
  PROVE  ScanInv'
<1>1. worker[w] \in Busy /\ UNCHANGED <<upload, objects, artifacts, request, issued>>
  BY Working DEF scan, ReportRefused, WorkerCrash, recordFailure, busy, store
<1>2. \/ worker' = [worker EXCEPT ![w] = Idle]
      \/ \E pc \in {"clean", "infected", "error", "unavailable"} :
           worker' = [worker EXCEPT ![w].pc = pc]
  BY DEF scan, ReportRefused, WorkerCrash, recordFailure, Idle
<1>3. CASE worker' = [worker EXCEPT ![w] = Idle]
  <2>1. Idle \in Busy \cup {Idle} /\ Idle.pc = "idle"
    BY DEF Idle
  <2> QED BY <1>1, <1>3, <2>1, WorkerMoves
<1>4. ASSUME NEW pc \in {"clean", "infected", "error", "unavailable"},
             worker' = [worker EXCEPT ![w].pc = pc]
      PROVE  ScanInv'
  <2> DEFINE step == [worker[w] EXCEPT !.pc = pc]
  <2>1. worker' = [worker EXCEPT ![w] = step]
    BY <1>4
  <2>2. /\ step \in Busy /\ step.content = worker[w].content
        /\ step.left = worker[w].left /\ step.attempts = worker[w].attempts
    BY <1>1 DEF Busy
  <2>3. worker[w].pc # "idle"
    BY <1>1 DEF Busy
  <2> HIDE DEF step
  <2> QED BY <1>1, <2>1, <2>2, <2>3, WorkerMoves
<1> QED BY <1>2, <1>3, <1>4

LEMMA VerdictHolds ==
  ASSUME ScanInv, NEW w \in Workers, ReportAccepted(w)
  PROVE  ScanInv'
<1> DEFINE c == worker[w].content
           row == [upload[c] EXCEPT !.state = Verdict(w), !.version = worker[w].version + 1]
<1>1. /\ worker[w] \in Busy /\ c \in Contents /\ exists(c)
      /\ worker[w].attempts \in 1..MaxAttempts /\ worker[w].version = 1
  BY Working DEF ReportAccepted
<1>2. /\ upload[c] \in UploadRows /\ upload[c].state \in UploadStates
  BY <1>1, RowTypes DEF UploadRows
<1>3. Verdict(w) \in {"scanned_clean", "scanned_infected"} /\ upload[c].state = "quarantined"
  BY <1>2 DEF ReportAccepted, Accepted, Verdict, canTransitionUpload, UPLOAD_TRANSITIONS, UploadStates
<1>4. /\ upload' = [upload EXCEPT ![c] = row]
      /\ UNCHANGED <<objects, artifacts, request, issued>>
  BY <1>1 DEF ReportAccepted, ScanInv, ScanTyped
<1>5. /\ row \in UploadRows /\ row.key = upload[c].key /\ row.sens = upload[c].sens
      /\ row.state = Verdict(w) /\ row.version = 2
  <2>1. row = [upload[c] EXCEPT !.state = Verdict(w), !.version = 2]
    BY <1>1
  <2>2. Verdict(w) \in UploadStates /\ 2 \in 1..3
    BY <1>3 DEF UploadStates
  <2> HIDE DEF row
  <2> QED BY <1>2, <2>1, <2>2 DEF UploadRows
<1>6. PICK pc \in {"idle", "error"} :
        worker' = [worker EXCEPT ![w] = IF pc = "idle" THEN Idle ELSE [worker[w] EXCEPT !.pc = pc]]
  BY DEF ReportAccepted, Idle
<1> DEFINE step == IF pc = "idle" THEN Idle ELSE [worker[w] EXCEPT !.pc = pc]
<1>7. step \in Busy \cup {Idle} /\ (step.pc # "idle" => step.content = c)
  BY <1>1, <1>6 DEF Busy, Idle
<1>8. worker' = [worker EXCEPT ![w] = step]
  BY <1>6
<1> HIDE DEF row, c, step
<1>9. /\ worker' \in [Workers -> Busy \cup {Idle}]
      /\ \A v \in Workers : worker'[v] = IF v = w THEN step ELSE worker[v]
      /\ \A d \in Contents : upload'[d] = IF d = c THEN row ELSE upload[d]
  BY <1>4, <1>7, <1>8 DEF ScanInv, ScanTyped
<1>10. LiveLeaseIntact'
  <2> SUFFICES ASSUME NEW v \in Workers, worker'[v].pc # "idle", worker'[v].left > 0,
                      upload'[worker'[v].content].state = "quarantined"
               PROVE  /\ upload'[worker'[v].content].lease = [by |-> v, left |-> worker'[v].left]
                      /\ upload'[worker'[v].content].attempts = worker'[v].attempts
    BY DEF LiveLeaseIntact, busy
  <2>1. worker'[v].content # c
    BY <1>1, <1>3, <1>5, <1>9
  <2>2. worker'[v] = worker[v] /\ worker[v].content \in Contents /\ busy(v)
    BY <1>7, <1>9, <2>1 DEF busy, ScanInv, ScanTyped, Busy, Idle
  <2> QED BY <1>9, <2>1, <2>2 DEF ScanInv, LiveLeaseIntact
<1>11. \A v \in Workers : worker'[v].pc # "idle" =>
         \/ worker'[v].content = c
         \/ worker[v].pc # "idle" /\ worker'[v].content = worker[v].content
  BY <1>7, <1>9
<1>12. objects \subseteq objects' /\ objects' \subseteq ObjectKeys
  BY <1>4 DEF ScanInv, ScanTyped
<1> QED BY <1>1, <1>3, <1>4, <1>5, <1>9, <1>10, <1>11, <1>12, RowChanges DEF VersionOf

LEMMA ReleaseHolds ==
  ASSUME ScanInv, NEW w \in Workers, recordFailure(w), HoldsLease(w)
  PROVE  ScanInv'
<1> DEFINE c == worker[w].content
           refund == IF worker[w].pc = "unavailable" THEN 1 ELSE 0
           row == [upload[c] EXCEPT !.lease = NoLease, !.attempts = upload[c].attempts - refund]
<1>1. /\ worker[w] \in Busy /\ c \in Contents /\ exists(c)
      /\ worker[w].attempts \in 1..MaxAttempts
  BY Working DEF recordFailure
<1>2. /\ upload[c] \in UploadRows /\ upload[c].version = VersionOf(upload[c].state)
      /\ upload[c].attempts \in 0..MaxAttempts
  BY <1>1, RowTypes
<1>3. /\ upload[c].state = "quarantined" /\ upload[c].attempts = worker[w].attempts
      /\ upload[c].lease.by = w
  BY DEF HoldsLease
<1>4. /\ upload' = [upload EXCEPT ![c] = row] /\ worker' = [worker EXCEPT ![w] = Idle]
      /\ UNCHANGED <<objects, artifacts, request, issued>>
  BY <1>1 DEF recordFailure, ScanInv, ScanTyped, Idle
<1>5. /\ row \in UploadRows /\ row.key = upload[c].key /\ row.sens = upload[c].sens
      /\ row.state = "quarantined" /\ row.version = upload[c].version
  <2>1. upload[c].attempts - refund \in 0..MaxAttempts /\ NoLease \in Leases
    BY <1>1, <1>2, <1>3, UploadScanAssumption DEF NoLease, Leases
  <2> HIDE DEF refund
  <2> QED BY <1>2, <1>3, <2>1 DEF UploadRows
<1> HIDE DEF row, c
<1>6. /\ worker' \in [Workers -> Busy \cup {Idle}]
      /\ \A v \in Workers : worker'[v] = IF v = w THEN Idle ELSE worker[v]
      /\ \A d \in Contents : upload'[d] = IF d = c THEN row ELSE upload[d]
  BY <1>4 DEF ScanInv, ScanTyped
<1>7. LiveLeaseIntact'
  <2> SUFFICES ASSUME NEW v \in Workers, worker'[v].pc # "idle", worker'[v].left > 0,
                      upload'[worker'[v].content].state = "quarantined"
               PROVE  /\ upload'[worker'[v].content].lease = [by |-> v, left |-> worker'[v].left]
                      /\ upload'[worker'[v].content].attempts = worker'[v].attempts
    BY DEF LiveLeaseIntact, busy
  <2>1. v # w /\ worker'[v] = worker[v] /\ busy(v) /\ worker[v].content \in Contents
    BY <1>6 DEF busy, Idle, ScanInv, ScanTyped, Busy
  <2>2. worker[v].content # c
    <3> SUFFICES ASSUME worker[v].content = c PROVE FALSE
      OBVIOUS
    <3>1. upload[c].lease = [by |-> v, left |-> worker[v].left]
      BY <1>3, <2>1 DEF ScanInv, LiveLeaseIntact
    <3> QED BY <1>3, <2>1, <3>1
  <2> QED BY <1>6, <2>1, <2>2 DEF ScanInv, LiveLeaseIntact
<1>8. \A v \in Workers : worker'[v].pc # "idle" =>
         \/ worker'[v].content = c
         \/ worker[v].pc # "idle" /\ worker'[v].content = worker[v].content
  BY <1>6 DEF Idle
<1>9. objects \subseteq objects' /\ objects' \subseteq ObjectKeys
  BY <1>4 DEF ScanInv, ScanTyped
<1>10. /\ row.version = VersionOf(row.state) /\ row.state # "promoted"
       /\ upload[c].state # "promoted" /\ artifacts' = artifacts
       /\ upload' = [upload EXCEPT ![c] = row] /\ UNCHANGED <<request, issued>>
  BY <1>2, <1>3, <1>4, <1>5
<1>11. worker' \in [Workers -> Busy \cup {Idle}]
  BY <1>6
<1> QED BY <1>1, <1>5, <1>7, <1>8, <1>9, <1>10, <1>11, RowChanges
LEMMA PromotionHolds ==
  ASSUME ScanInv, NEW c \in Contents, NEW version \in 1..3, Promote(c, version)
  PROVE  ScanInv'
<1>1. /\ exists(c) /\ upload[c].version = version /\ upload[c].key \in objects
      /\ objects' = objects \cup {evidenceKey(c)}
      /\ UNCHANGED <<request, worker, issued>>
  BY DEF Promote, health
<1>2. /\ upload[c] \in UploadRows /\ upload[c].version = VersionOf(upload[c].state)
      /\ upload[c].state \in UploadStates
  BY <1>1, RowTypes DEF UploadRows
<1>3. upload[c].state = "scanned_clean" /\ version = 2
  BY <1>1, <1>2 DEF Promote, canTransitionUpload, UPLOAD_TRANSITIONS, UploadStates, VersionOf
<1>4. objects' \subseteq ObjectKeys
  BY <1>1 DEF ScanInv, ScanTyped, ObjectKeys
<1>5. CASE UNCHANGED <<artifacts, upload>>
  <2>1. ScanTyped' /\ VersionsCount' /\ WorkersHaveRows' /\ LiveLeaseIntact' /\ AnswersAgree'
    BY <1>1, <1>4, <1>5 DEF ScanInv, ScanTyped, VersionsCount, WorkersHaveRows,
                            LiveLeaseIntact, AnswersAgree, exists, busy
  <2>2. RequestsHaveObjects' /\ RowsHaveObjects'
    BY <1>1, <1>5 DEF ScanInv, RequestsHaveObjects, RowsHaveObjects, exists
  <2> QED BY <2>1, <2>2 DEF ScanInv
<1>6. CASE /\ artifacts' = artifacts \cup {c}
           /\ upload' = [upload EXCEPT ![c].state = "promoted", ![c].version = version + 1]
  <2> DEFINE row == [upload[c] EXCEPT !.state = "promoted", !.version = version + 1]
  <2>1. upload' = [upload EXCEPT ![c] = row]
    BY <1>6 DEF ScanInv, ScanTyped
  <2>2. /\ row \in UploadRows /\ row.key = upload[c].key /\ row.sens = upload[c].sens
        /\ row.state = "promoted" /\ row.version = 3 /\ row.lease = upload[c].lease
        /\ row.attempts = upload[c].attempts
    <3>1. row = [upload[c] EXCEPT !.state = "promoted", !.version = 3]
      BY <1>3
    <3>2. "promoted" \in UploadStates /\ 3 \in 1..3
      BY DEF UploadStates
    <3> HIDE DEF row
    <3> QED BY <1>2, <3>1, <3>2 DEF UploadRows
  <2> HIDE DEF row
  <2>3. \A d \in Contents : upload'[d] = IF d = c THEN row ELSE upload[d]
    BY <2>1 DEF ScanInv, ScanTyped
  <2>4. LiveLeaseIntact'
    <3> SUFFICES ASSUME NEW v \in Workers, worker[v].pc # "idle", worker[v].left > 0,
                        upload'[worker[v].content].state = "quarantined"
                 PROVE  /\ upload'[worker[v].content].lease = [by |-> v, left |-> worker[v].left]
                        /\ upload'[worker[v].content].attempts = worker[v].attempts
      BY <1>1 DEF LiveLeaseIntact, busy
    <3>1. worker[v].content \in Contents
      BY Working
    <3>2. worker[v].content # c
      BY <2>2, <2>3
    <3> QED BY <2>3, <3>1, <3>2 DEF ScanInv, LiveLeaseIntact, busy
  <2>5. /\ worker' \in [Workers -> Busy \cup {Idle}]
        /\ \A v \in Workers : worker'[v].pc # "idle" =>
             worker[v].pc # "idle" /\ worker'[v].content = worker[v].content
    BY <1>1 DEF ScanInv, ScanTyped
  <2>6. /\ objects \subseteq objects' /\ evidenceKey(c) \in objects'
        /\ VersionOf(row.state) = 3
    BY <1>1, <2>2 DEF VersionOf
  <2> QED BY <1>1, <1>4, <1>6, <2>1, <2>2, <2>4, <2>5, <2>6, RowChanges
<1> QED BY <1>5, <1>6 DEF Promote

LEMMA LinkHolds ==
  ASSUME ScanInv, NEW c \in Contents, IssueLink(c)
  PROVE  ScanInv'
BY DEF IssueLink, store, health, ScanInv, ScanTyped, VersionsCount, RequestsHaveObjects,
       WorkersHaveRows, LiveLeaseIntact, RowsHaveObjects, AnswersAgree, exists, busy

LEMMA StillHolds ==
  ASSUME ScanInv, UNCHANGED <<upload, objects, artifacts, request, worker, issued>>
  PROVE  ScanInv'
BY DEF ScanInv, ScanTyped, VersionsCount, RequestsHaveObjects,
       WorkersHaveRows, LiveLeaseIntact, RowsHaveObjects, AnswersAgree, exists, busy

LEMMA NewRowHolds ==
  ASSUME ScanInv, NEW r \in Requests, InsertUpload(r), ~exists(request[r].content)
  PROVE  ScanInv'
<1> DEFINE c == request[r].content
           known == {d \in Contents : exists(d)}
           row == [state |-> "quarantined", version |-> 1, key |-> quarantineKey(r),
                   sens |-> request[r].sens, attempts |-> 0, lease |-> NoLease,
                   rank |-> Cardinality(known)]
<1>1. /\ upload' = [upload EXCEPT ![c] = row] /\ GoTo(r, "answered")
      /\ request[r].pc = "insert"
      /\ UNCHANGED <<objects, artifacts, worker, issued>>
  BY DEF InsertUpload, health
<1>2. request[r] \in RequestRows /\ c \in Contents /\ request[r].sens \in Sensitivities
  BY DEF ScanInv, ScanTyped, RequestRows
<1>3. Cardinality(known) \in 0..Cardinality(Contents)
  <2>1. IsFiniteSet(Contents)
    BY UploadScanAssumption
  <2>2. known \subseteq Contents
    OBVIOUS
  <2> HIDE DEF known
  <2> QED BY <2>1, <2>2, FS_Subset, FS_CardinalityType
<1>4. row \in UploadRows /\ row.key \in objects /\ row # NoUpload
  <2>1. /\ NoLease \in Leases /\ 0 \in 0..MaxAttempts /\ 1 \in 1..3
        /\ quarantineKey(r) \in objects /\ objects \subseteq ObjectKeys
    BY <1>1, UploadScanAssumption
    DEF NoLease, Leases, ScanInv, RequestsHaveObjects, ScanTyped
  <2> HIDE DEF known
  <2> QED BY <1>2, <1>3, <2>1 DEF UploadRows, UploadStates, NoUpload
<1>5. row.state = "quarantined" /\ row.version = 1 /\ row.sens = request[r].sens
  OBVIOUS
<1> HIDE DEF row, known, c
<1>6. /\ upload' \in [Contents -> UploadRows \cup {NoUpload}]
      /\ \A d \in Contents : upload'[d] = IF d = c THEN row ELSE upload[d]
  BY <1>1, <1>2, <1>4 DEF ScanInv, ScanTyped
<1>7. /\ request' \in [Requests -> RequestRows]
      /\ \A q \in Requests : /\ request'[q].pc = IF q = r THEN "answered" ELSE request[q].pc
                             /\ request'[q].content = request[q].content
                             /\ request'[q].content \in Contents
                             /\ request'[q].sens = request[q].sens
  BY <1>1, <1>2 DEF ScanInv, ScanTyped, GoTo, RequestRows
<1>8. upload[c] = NoUpload
  BY DEF exists, c
<1>9. ScanTyped' /\ RequestsHaveObjects'
  BY <1>1, <1>6, <1>7 DEF ScanInv, ScanTyped, RequestsHaveObjects
<1>10. VersionsCount'
  BY <1>5, <1>6 DEF ScanInv, VersionsCount, VersionOf, exists
<1>11. \A v \in Workers : worker[v].pc # "idle" =>
         worker[v].content \in Contents /\ worker[v].content # c
  BY <1>8, Working DEF exists
<1>12. WorkersHaveRows' /\ LiveLeaseIntact'
  BY <1>1, <1>6, <1>11 DEF ScanInv, WorkersHaveRows, LiveLeaseIntact, busy, exists
<1>13. RowsHaveObjects'
  <2> SUFFICES ASSUME NEW d \in Contents
               PROVE  /\ upload'[d] # NoUpload => upload'[d].key \in objects
                      /\ d \in artifacts => evidenceKey(d) \in objects
                      /\ (upload'[d] # NoUpload /\ upload'[d].state = "promoted")
                           <=> d \in artifacts
    BY <1>1 DEF RowsHaveObjects, exists, evidenceKey
  <2>1. /\ exists(d) => upload[d].key \in objects
        /\ d \in artifacts => evidenceKey(d) \in objects
        /\ (exists(d) /\ upload[d].state = "promoted") <=> d \in artifacts
    BY DEF ScanInv, RowsHaveObjects
  <2> QED BY <1>4, <1>5, <1>6, <1>8, <2>1 DEF exists
<1>14. AnswersAgree'
  <2> SUFFICES ASSUME NEW q \in Requests, request'[q].pc = "answered"
               PROVE  /\ upload'[request'[q].content] # NoUpload
                      /\ upload'[request'[q].content].sens = request'[q].sens
    BY DEF AnswersAgree, exists
  <2>1. CASE q = r
    BY <1>4, <1>5, <1>6, <1>7, <2>1 DEF c
  <2>2. CASE q # r
    <3>1. exists(request[q].content) /\ upload[request[q].content].sens = request[q].sens
      BY <1>7, <2>2 DEF ScanInv, AnswersAgree
    <3> QED BY <1>6, <1>7, <1>8, <3>1 DEF exists
  <2> QED BY <2>1, <2>2
<1> QED BY <1>9, <1>10, <1>12, <1>13, <1>14 DEF ScanInv
LEMMA TickHolds ==
  ASSUME ScanInv, Tick
  PROVE  ScanInv'
<1>1. /\ upload' = [c \in Contents |->
           IF exists(c) THEN [upload[c] EXCEPT !.lease.left = less(upload[c].lease.left)]
           ELSE NoUpload]
      /\ worker' = [w \in Workers |->
           IF busy(w) THEN [worker[w] EXCEPT !.left = less(worker[w].left)] ELSE worker[w]]
      /\ UNCHANGED <<objects, artifacts, request, issued>>
  BY DEF Tick, health
<1>2. \A n \in 0..LeaseTicks : /\ less(n) \in 0..LeaseTicks
                               /\ less(n) > 0 => n > 0
  BY UploadScanAssumption DEF less
<1>3. ASSUME NEW c \in Contents, exists(c)
      PROVE  /\ upload'[c] \in UploadRows /\ upload'[c].state = upload[c].state
             /\ upload'[c].version = upload[c].version /\ upload'[c].key = upload[c].key
             /\ upload'[c].sens = upload[c].sens /\ upload'[c].attempts = upload[c].attempts
             /\ upload'[c].lease = [by |-> upload[c].lease.by,
                                    left |-> less(upload[c].lease.left)]
  <2>1. upload[c] \in UploadRows /\ upload[c].lease \in Leases
    BY <1>3, RowTypes
  <2>2. less(upload[c].lease.left) \in 0..LeaseTicks
    BY <1>2, <2>1 DEF Leases
  <2> DEFINE n == less(upload[c].lease.left)
             lease == [upload[c].lease EXCEPT !.left = n]
  <2>3. upload'[c] = [upload[c] EXCEPT !.lease = lease]
    BY <1>1, <1>3, <2>1 DEF UploadRows
  <2>4. lease \in Leases /\ lease = [by |-> upload[c].lease.by, left |-> n]
    BY <2>1, <2>2 DEF Leases
  <2> HIDE DEF lease, n
  <2> QED BY <2>1, <2>3, <2>4 DEF UploadRows, n
<1>4. ASSUME NEW c \in Contents, ~exists(c)
      PROVE  upload'[c] = NoUpload
  BY <1>1, <1>4
<1>5. ASSUME NEW c \in Contents
      PROVE  upload'[c] # NoUpload <=> exists(c)
  <2>1. \A row \in UploadRows : row # NoUpload
    BY DEF UploadRows, UploadStates, NoUpload
  <2> QED BY <1>3, <1>4, <2>1
<1>6. ASSUME NEW w \in Workers, worker[w].pc # "idle"
      PROVE  /\ worker'[w] \in Busy /\ worker'[w].pc = worker[w].pc
             /\ worker'[w].content = worker[w].content
             /\ worker'[w].attempts = worker[w].attempts
             /\ worker'[w].left = less(worker[w].left)
  <2>1. worker[w] \in Busy /\ less(worker[w].left) \in 0..LeaseTicks
    BY <1>2, <1>6, Working DEF Busy
  <2>2. worker'[w] = [worker[w] EXCEPT !.left = less(worker[w].left)]
    BY <1>1, <1>6 DEF busy
  <2> QED BY <2>1, <2>2 DEF Busy
<1>7. ASSUME NEW w \in Workers, worker[w].pc = "idle"
      PROVE  worker'[w] = Idle
  BY <1>1, <1>7 DEF busy, ScanInv, ScanTyped, Busy, Idle
<1>8. ScanTyped'
  <2>1. upload' \in [Contents -> UploadRows \cup {NoUpload}]
    <3>1. \A c \in Contents : upload'[c] \in UploadRows \cup {NoUpload}
      BY <1>3, <1>4
    <3>2. upload' = [c \in Contents |-> upload'[c]]
      BY <1>1
    <3> QED BY <3>1, <3>2
  <2>2. worker' \in [Workers -> Busy \cup {Idle}]
    <3>1. \A w \in Workers : worker'[w] \in Busy \cup {Idle}
      BY <1>6, <1>7
    <3>2. worker' = [w \in Workers |-> worker'[w]]
      BY <1>1
    <3> QED BY <3>1, <3>2
  <2> QED BY <1>1, <2>1, <2>2 DEF ScanInv, ScanTyped
<1>9. VersionsCount' /\ RequestsHaveObjects'
  BY <1>1, <1>3, <1>5 DEF ScanInv, VersionsCount, RequestsHaveObjects, exists
<1>10. WorkersHaveRows'
  BY <1>5, <1>6, <1>7, Working DEF ScanInv, WorkersHaveRows, busy, Idle, exists
<1>11. LiveLeaseIntact'
  <2> SUFFICES ASSUME NEW v \in Workers, worker'[v].pc # "idle", worker'[v].left > 0,
                      upload'[worker'[v].content].state = "quarantined"
               PROVE  /\ upload'[worker'[v].content].lease = [by |-> v, left |-> worker'[v].left]
                      /\ upload'[worker'[v].content].attempts = worker'[v].attempts
    BY DEF LiveLeaseIntact, busy
  <2>1. worker[v].pc # "idle"
    BY <1>7 DEF Idle
  <2>2. /\ worker[v].content \in Contents /\ exists(worker[v].content)
        /\ worker[v].left \in 0..LeaseTicks
    BY <2>1, Working DEF Busy
  <2>3. worker[v].left > 0
    BY <1>2, <1>6, <2>1, <2>2
  <2>4. upload[worker[v].content].state = "quarantined"
    BY <1>3, <1>6, <2>1, <2>2
  <2>5. /\ upload[worker[v].content].lease = [by |-> v, left |-> worker[v].left]
        /\ upload[worker[v].content].attempts = worker[v].attempts
    BY <2>1, <2>3, <2>4 DEF ScanInv, LiveLeaseIntact, busy
  <2> DEFINE c == worker[v].content
  <2>6. /\ upload'[c].lease = [by |-> v, left |-> less(worker[v].left)]
        /\ upload'[c].attempts = upload[c].attempts
    <3>1. /\ upload'[c].lease = [by |-> upload[c].lease.by, left |-> less(upload[c].lease.left)]
          /\ upload'[c].attempts = upload[c].attempts
      BY <1>3, <2>2
    <3> QED BY <2>5, <3>1
  <2>7. worker'[v].content = c /\ worker'[v].left = less(worker[v].left)
        /\ worker'[v].attempts = worker[v].attempts
    BY <1>6, <2>1
  <2> QED BY <2>5, <2>6, <2>7
<1>12. RowsHaveObjects'
  <2> SUFFICES ASSUME NEW d \in Contents
               PROVE  /\ upload'[d] # NoUpload => upload'[d].key \in objects
                      /\ d \in artifacts => evidenceKey(d) \in objects
                      /\ (upload'[d] # NoUpload /\ upload'[d].state = "promoted")
                           <=> d \in artifacts
    BY <1>1 DEF RowsHaveObjects, exists, evidenceKey
  <2>1. /\ exists(d) => upload[d].key \in objects
        /\ d \in artifacts => evidenceKey(d) \in objects
        /\ (exists(d) /\ upload[d].state = "promoted") <=> d \in artifacts
    BY DEF ScanInv, RowsHaveObjects
  <2>2. exists(d) => upload'[d].key = upload[d].key /\ upload'[d].state = upload[d].state
    BY <1>3
  <2> QED BY <1>5, <2>1, <2>2
<1>13. AnswersAgree'
  <2>1. \A r \in Requests : request[r].content \in Contents
    BY DEF ScanInv, ScanTyped, RequestRows
  <2> QED BY <1>1, <1>3, <1>5, <2>1 DEF ScanInv, AnswersAgree, exists
<1> QED BY <1>8, <1>9, <1>10, <1>11, <1>12, <1>13 DEF ScanInv

----------------------------------------------------------------------------
LEMMA ScanNextHolds ==
  ASSUME ScanInv, UploadScanNext
  PROVE  ScanInv'
<1>1. ASSUME NEW r \in Requests, RequestStep(r) \/ RequestFails(r) PROVE ScanInv'
  BY <1>1, RequestStepsHold, NewRowHolds DEF RequestStep, InsertUpload
<1>2. ASSUME NEW w \in Workers, WorkerStep(w) \/ WorkerCrash(w) PROVE ScanInv'
  BY <1>2, LeaseHolds, QuietWorkerSteps, VerdictHolds, ReleaseHolds DEF WorkerStep
<1>3. ASSUME NEW c \in Contents, IssueLink(c) \/ \E version \in 1..3 : Promote(c, version)
      PROVE  ScanInv'
  BY <1>3, LinkHolds, PromotionHolds
<1>4. CASE HealthChanges
  BY <1>4, StillHolds DEF HealthChanges, store
<1> QED BY <1>1, <1>2, <1>3, <1>4, TickHolds DEF UploadScanNext

\* Rows, leases, store and answers agree (uploads.ts, scan-worker.ts): a lease that has
\* not run out is left alone by requests, other workers, late workers and the clock.
THEOREM UploadsStayInStep == UploadScanSpec => []UploadsAgree
<1>1. ScanInv /\ [UploadScanNext]_uploadScanVars => ScanInv'
  <2> SUFFICES ASSUME ScanInv, UNCHANGED uploadScanVars PROVE ScanInv'
    BY ScanNextHolds
  <2> QED BY StillHolds DEF uploadScanVars
<1>2. UploadScanSpec => []ScanInv
  BY InitScan, <1>1, PTL DEF UploadScanSpec
<1> QED BY <1>2, ScanInvIsEnough, PTL
----------------------------------------------------------------------------
(* UploadScan implements QuarantineGate.                                   *)

Shut(row) == IF row = NoUpload THEN "absent"
             ELSE IF row.state = "quarantined" THEN "closed"
             ELSE IF row.state = "scanned_infected" THEN "infected" ELSE "clean"

LEMMA GateReads ==
  /\ gate = [c \in Contents |-> Shut(upload[c])]
  /\ gate' = [c \in Contents |-> Shut(upload'[c])]
BY DEF gate, Shut, exists

\* As long as rows keep their states, the gate does not move.
LEMMA GateKeeps ==
  ASSUME ScanInv,
         \A c \in Contents : exists(c) => upload'[c].state = upload[c].state,
         \A c \in Contents : ~exists(c) => upload'[c] = NoUpload
  PROVE  gate' = gate
<1> SUFFICES ASSUME NEW c \in Contents PROVE Shut(upload'[c]) = Shut(upload[c])
  BY GateReads, Zenon
<1>1. CASE exists(c)
  <2>1. upload[c].state \in UploadStates
    BY <1>1, RowTypes DEF UploadRows
  <2>2. upload'[c].state \in UploadStates /\ NoUpload.state \notin UploadStates
    BY <1>1, <2>1 DEF UploadStates, NoUpload
  <2> QED BY <1>1, <2>2 DEF Shut, exists
<1>2. CASE ~exists(c)
  BY <1>2 DEF exists
<1> QED BY <1>1, <1>2

\* One row gets a new state.
LEMMA GateMoves ==
  ASSUME ScanInv, NEW c \in Contents, NEW row,
         upload' = [upload EXCEPT ![c] = row]
  PROVE  gate' = [gate EXCEPT ![c] = Shut(row)]
<1>1. \A d \in Contents : upload'[d] = IF d = c THEN row ELSE upload[d]
  BY DEF ScanInv, ScanTyped
<1>2. \A d \in Contents : Shut(upload'[d]) = IF d = c THEN Shut(row) ELSE Shut(upload[d])
  BY <1>1
<1>3. /\ gate = [d \in Contents |-> Shut(upload[d])]
      /\ gate' = [d \in Contents |-> Shut(upload'[d])]
  BY GateReads
<1> QED BY <1>2, <1>3

LEMMA GateStarts == UploadScanInit => Gate!Init
<1> SUFFICES ASSUME UploadScanInit PROVE Gate!Init
  OBVIOUS
<1>1. /\ \A c \in Contents : upload[c] = NoUpload
      /\ issued = {} /\ artifacts = {}
  BY DEF UploadScanInit
<1>2. gate = [c \in Contents |-> "absent"]
  BY <1>1, GateReads DEF Shut
<1> QED BY <1>1, <1>2 DEF Gate!Init

LEMMA GateStep ==
  ASSUME ScanInv, UploadScanNext
  PROVE  Gate!Next \/ UNCHANGED <<gate, issued, artifacts>>
<1>1. ASSUME UNCHANGED <<upload, issued, artifacts>>
      PROVE  UNCHANGED <<gate, issued, artifacts>>
  BY <1>1, GateKeeps DEF exists
<1>2. ASSUME NEW r \in Requests, InsertUpload(r), ~exists(request[r].content)
      PROVE  Gate!Next
  <2> DEFINE c == request[r].content
             row == [state |-> "quarantined", version |-> 1, key |-> quarantineKey(r),
                     sens |-> request[r].sens, attempts |-> 0, lease |-> NoLease,
                     rank |-> Cardinality({d \in Contents : exists(d)})]
  <2>1. upload' = [upload EXCEPT ![c] = row] /\ UNCHANGED <<artifacts, issued>>
    BY <1>2 DEF InsertUpload, health
  <2>2. c \in Contents
    BY DEF ScanInv, ScanTyped, RequestRows
  <2>3. Shut(row) = "closed" /\ gate[c] = "absent"
    BY <1>2, <2>2, GateReads DEF Shut, NoUpload, exists
  <2> HIDE DEF c, row
  <2>4. gate' = [gate EXCEPT ![c] = "closed"]
    BY <2>1, <2>2, <2>3, GateMoves
  <2> QED BY <2>1, <2>2, <2>3, <2>4 DEF Gate!Next, Gate!Arrive
<1>3. ASSUME NEW r \in Requests, RequestStep(r) \/ RequestFails(r)
      PROVE  Gate!Next \/ UNCHANGED <<gate, issued, artifacts>>
  <2>1. CASE InsertUpload(r) /\ ~exists(request[r].content)
    BY <1>2, <2>1
  <2>2. CASE ~(InsertUpload(r) /\ ~exists(request[r].content))
    BY <1>1, <1>3, <2>2
    DEF RequestStep, LookUpContent, PutObject, InsertUpload, RequestFails, store, health
  <2> QED BY <2>1, <2>2
<1>4. ASSUME NEW w \in Workers, ReportAccepted(w)
      PROVE  Gate!Next
  <2> DEFINE c == worker[w].content
             row == [upload[c] EXCEPT !.state = Verdict(w), !.version = worker[w].version + 1]
  <2>1. /\ c \in Contents /\ exists(c)
    BY <1>4, Working DEF ReportAccepted
  <2>2. /\ upload[c] \in UploadRows /\ upload[c].state \in UploadStates
    BY <2>1, RowTypes DEF UploadRows
  <2>3. Verdict(w) \in {"scanned_clean", "scanned_infected"} /\ upload[c].state = "quarantined"
    BY <1>4, <2>2
    DEF ReportAccepted, Accepted, Verdict, canTransitionUpload, UPLOAD_TRANSITIONS, UploadStates
  <2>4. upload' = [upload EXCEPT ![c] = row] /\ UNCHANGED <<artifacts, issued>>
    BY <1>4, <2>1 DEF ReportAccepted, ScanInv, ScanTyped
  <2>5. row.state = Verdict(w)
    BY <2>2 DEF UploadRows
  <2>6. Shut(row) \in {"clean", "infected"} /\ gate[c] = "closed"
    BY <2>1, <2>3, <2>5, GateReads DEF Shut, NoUpload, exists
  <2> HIDE DEF c, row
  <2>7. gate' = [gate EXCEPT ![c] = Shut(row)]
    BY <2>1, <2>4, GateMoves
  <2> QED BY <2>1, <2>4, <2>6, <2>7 DEF Gate!Next, Gate!Judge
<1>5. ASSUME NEW w \in Workers, NEW c \in Contents, leaseOne(w, c)
      PROVE  UNCHANGED <<gate, issued, artifacts>>
  <2>1. exists(c) /\ upload[c] \in UploadRows
    BY <1>5, RowTypes DEF leaseOne, Leasable
  <2>2. \A d \in Contents : upload'[d].state = upload[d].state /\ (d # c => upload'[d] = upload[d])
    BY <1>5, <2>1 DEF leaseOne, ScanInv, ScanTyped, UploadRows
  <2> QED BY <1>5, <2>1, <2>2, GateKeeps DEF leaseOne, health, exists
<1>6. ASSUME NEW w \in Workers, recordFailure(w)
      PROVE  UNCHANGED <<gate, issued, artifacts>>
  <2> DEFINE c == worker[w].content
  <2>1. c \in Contents /\ exists(c) /\ upload[c] \in UploadRows
    BY <1>6, Working, RowTypes DEF recordFailure
  <2>2. \A d \in Contents : upload'[d].state = upload[d].state /\ (d # c => upload'[d] = upload[d])
    BY <1>6, <2>1 DEF recordFailure, ScanInv, ScanTyped, UploadRows
  <2> QED BY <1>6, <2>1, <2>2, GateKeeps DEF recordFailure, health, exists
<1>7. ASSUME NEW w \in Workers, WorkerStep(w) \/ WorkerCrash(w)
      PROVE  Gate!Next \/ UNCHANGED <<gate, issued, artifacts>>
  <2>1. CASE ReportAccepted(w)
    BY <1>4, <2>1
  <2>2. CASE recordFailure(w)
    BY <1>6, <2>2
  <2>3. CASE \E c \in Contents : leaseOne(w, c)
    BY <1>5, <2>3
  <2>4. CASE \/ \E outcome \in {"clean", "infected", "error", "unavailable"} : scan(w, outcome)
             \/ ReportRefused(w) \/ WorkerCrash(w)
    BY <1>1, <2>4 DEF scan, ReportRefused, WorkerCrash, store, health
  <2> QED BY <1>7, <2>1, <2>2, <2>3, <2>4 DEF WorkerStep
<1>8. ASSUME NEW c \in Contents, IssueLink(c)
      PROVE  Gate!Next
  <2>1. gate[c] = "clean"
    BY <1>8, GateReads DEF IssueLink, DOWNLOADABLE_STATES, Shut, exists
  <2>2. issued' = issued \cup {c} /\ UNCHANGED <<upload, artifacts>>
    BY <1>8 DEF IssueLink, store
  <2>3. gate' = gate
    BY <2>2, GateKeeps DEF exists
  <2> QED BY <2>1, <2>2, <2>3 DEF Gate!Next, Gate!Open
<1>9. ASSUME NEW c \in Contents, NEW version \in 1..3, Promote(c, version)
      PROVE  Gate!Next \/ UNCHANGED <<gate, issued, artifacts>>
  <2>1. /\ exists(c) /\ upload[c] \in UploadRows /\ upload[c].state \in UploadStates
    BY <1>9, RowTypes DEF Promote, UploadRows
  <2>2. upload[c].state = "scanned_clean" /\ issued' = issued
    BY <1>9, <2>1 DEF Promote, canTransitionUpload, UPLOAD_TRANSITIONS, UploadStates
  <2>3. gate[c] = "clean"
    BY <2>1, <2>2, GateReads DEF Shut, exists
  <2>4. CASE /\ artifacts' = artifacts \cup {c}
             /\ upload' = [upload EXCEPT ![c].state = "promoted", ![c].version = version + 1]
    <3> DEFINE row == [upload[c] EXCEPT !.state = "promoted", !.version = version + 1]
    <3>1. upload' = [upload EXCEPT ![c] = row]
      BY <2>4 DEF ScanInv, ScanTyped
    <3>2. row.state = "promoted"
      BY <2>1 DEF UploadRows
    <3>3. Shut(row) = "clean"
      BY <3>2 DEF Shut, NoUpload
    <3> HIDE DEF row
    <3>4. gate' = [gate EXCEPT ![c] = "clean"]
      BY <3>1, <3>3, GateMoves
    <3>5. gate' = gate
      BY <2>3, <3>4, GateReads
    <3> QED BY <2>2, <2>3, <2>4, <3>5 DEF Gate!Next, Gate!Open
  <2>5. CASE UNCHANGED <<artifacts, upload>>
    BY <1>1, <2>2, <2>5
  <2> QED BY <1>9, <2>4, <2>5 DEF Promote
<1>10. CASE Tick
  <2>1. \A c \in Contents : IF exists(c)
          THEN upload'[c] = [upload[c] EXCEPT !.lease.left = less(upload[c].lease.left)]
          ELSE upload'[c] = NoUpload
    BY <1>10 DEF Tick
  <2>2. \A c \in Contents : exists(c) => upload[c] \in UploadRows
    BY RowTypes
  <2>3. \A c \in Contents : exists(c) => upload'[c].state = upload[c].state
    BY <2>1, <2>2 DEF UploadRows
  <2> QED BY <1>10, <2>1, <2>3, GateKeeps DEF Tick, health
<1>11. CASE HealthChanges
  BY <1>1, <1>11 DEF HealthChanges, store
<1> QED BY <1>3, <1>7, <1>8, <1>9, <1>10, <1>11 DEF UploadScanNext

\* The quarantine keeps its promise (uploads.ts, state-machines): a file is judged once,
\* the judgement stands, and only a clean file gets a download link or becomes evidence.
THEOREM ScanImplementsGate == UploadScanSpec => GateSpec
<1>1. ScanInv /\ [UploadScanNext]_uploadScanVars => ScanInv'
  <2> SUFFICES ASSUME ScanInv, UNCHANGED uploadScanVars PROVE ScanInv'
    BY ScanNextHolds
  <2> QED BY StillHolds DEF uploadScanVars
<1>2. ScanInv /\ [UploadScanNext]_uploadScanVars
        => [Gate!Next]_<<gate, issued, artifacts>>
  <2> SUFFICES ASSUME ScanInv, UNCHANGED uploadScanVars
               PROVE  UNCHANGED <<gate, issued, artifacts>>
    BY GateStep
  <2>1. UNCHANGED <<upload, issued, artifacts>>
    BY DEF uploadScanVars
  <2> QED BY <2>1, GateKeeps DEF exists
<1> QED BY InitScan, GateStarts, <1>1, <1>2, PTL DEF UploadScanSpec, GateSpec, Gate!Spec

-----------------------------------------------------------------------------
(* Judgements of impacts, in DocumentGraph: whatever a step opens is new on *)
(* record, step by step.                                                    *)
LEMMA RecordingKeeps ==
  ASSUME NEW impacts, Record(impacts)
  PROVE  open' \ open \subseteq recorded' \ recorded
BY DEF Record

LEMMA CommitKeeps ==
  ASSUME NEW t, SupersedeCommit(t)
  PROVE  open' \ open \subseteq recorded' \ recorded
<1>1. PICK d \in Docs :
        LET expired == IF doc[d].state = "promoted" THEN checkExpiryAround(links, d)' ELSE {}
            new == (tx[t].effect.walked \cup expired) \ recorded
        IN /\ recorded' = recorded \cup new
           /\ open' = (open \ tx[t].effect.revised) \cup new
  BY Zenon DEF SupersedeCommit
<1> DEFINE expired == IF doc[d].state = "promoted" THEN checkExpiryAround(links, d)' ELSE {}
           new == (tx[t].effect.walked \cup expired) \ recorded
<1>2. new \cap recorded = {}
  OBVIOUS
<1>3. recorded' = recorded \cup new /\ open' = (open \ tx[t].effect.revised) \cup new
  BY <1>1
<1> HIDE DEF new
<1> QED BY <1>2, <1>3

LEMMA BeginningsKeep ==
  ASSUME NEW t, RequestBegins(t)
  PROVE  open' \ open \subseteq recorded' \ recorded
<1>1. ASSUME NEW r, CreateLinkCheck(t, r.up, r.down, r.kind)
      PROVE  open' \ open \subseteq recorded' \ recorded
  BY <1>1 DEF CreateLinkCheck
<1>2. ASSUME NEW l, RemoveLink(t, l)
      PROVE  open' \ open \subseteq recorded' \ recorded
  BY <1>2 DEF RemoveLink
<1>3. CASE CreateRuleCheck(t) \/ RetireRule(t) \/ SweepRead(t)
  BY <1>3 DEF CreateRuleCheck, RetireRule, SweepRead
<1>4. ASSUME NEW d, PromoteDocument(t, d)
      PROVE  open' \ open \subseteq recorded' \ recorded
  BY <1>4 DEF PromoteDocument
<1>5. ASSUME NEW d, RevokeDocument(t, d)
      PROVE  open' \ open \subseteq recorded' \ recorded
  BY <1>5, RecordingKeeps DEF RevokeDocument
<1>6. ASSUME NEW d, NEW target, SetSupersedes(t, d, target)
      PROVE  open' \ open \subseteq recorded' \ recorded
  BY <1>6, RecordingKeeps DEF SetSupersedes
<1>7. ASSUME NEW d, NEW type, SetType(t, d, type)
      PROVE  open' \ open \subseteq recorded' \ recorded
  BY <1>7, RecordingKeeps DEF SetType
<1>8. ASSUME NEW d, NEW day, SetValidUntil(t, d, day)
      PROVE  open' \ open \subseteq recorded' \ recorded
  BY <1>8, RecordingKeeps DEF SetValidUntil
<1>9. ASSUME NEW i, NEW r, ResolveImpacts(t, i, r)
      PROVE  open' \ open \subseteq recorded' \ recorded
  BY <1>9 DEF ResolveImpacts
<1> QED BY <1>1, <1>2, <1>3, <1>4, <1>5, <1>6, <1>7, <1>8, <1>9 DEF RequestBegins

LEMMA ContinuationsKeep ==
  ASSUME NEW t, RequestGoesOn(t)
  PROVE  open' \ open \subseteq recorded' \ recorded
<1>1. CASE CreateLinkInsert(t)
  BY <1>1, RecordingKeeps DEF CreateLinkInsert
<1>2. CASE CreateRuleInsert(t)
  BY <1>2, RecordingKeeps DEF CreateRuleInsert
<1>3. CASE SupersedeCarry(t) \/ Abort(t)
  BY <1>3 DEF SupersedeCarry, Abort
<1>4. CASE SweepCommit(t)
  BY <1>4, RecordingKeeps DEF SweepCommit
<1> QED BY <1>1, <1>2, <1>3, <1>4, CommitKeeps DEF RequestGoesOn

\* An impact that was judged, or answered by a new version, is never raised again
\* (0045, ON CONFLICT DO NOTHING): whatever opens was not on record.
THEOREM JudgedStaysJudged == DocumentSpec => JudgementsStand
<1>1. [DocumentNext]_documentVars
        => [open' \ open \subseteq recorded' \ recorded]_documentVars
  <2>1. NextDay => open' \ open \subseteq recorded' \ recorded
    BY DEF NextDay
  <2> QED BY <2>1, BeginningsKeep, ContinuationsKeep DEF DocumentNext
<1> QED BY <1>1, PTL DEF DocumentSpec, JudgementsStand
-----------------------------------------------------------------------------
(* The graph of documents: what holds between the steps of requests.       *)

LinkRows ==
  [up : Docs, down : Docs, kind : Kinds, origin : {"user", "rule", "carried_over"}]
Rows == [Docs -> DocumentRows]

\* Rows of documents that are not those of now: the same notions, of any rows D.
UsableIn(D, d)   == D[d].state \notin UNUSABLE_STATES
ReplacedIn(D, d) == \E s \in Docs : D[s].supersedes = d /\ D[s].state = "promoted"
Ends(D, l)       == l \in LinkRows /\ UsableIn(D, l.up) /\ UsableIn(D, l.down)
Lines(D) == \A d \in Docs : Cardinality(LiveSuccessors(D, d)) <= 1 /\ d \notin LaterIn(D, d)

\* What d may be made to replace, once it has been checked.
Replaceable(D, d, target) ==
  /\ target \in Docs /\ target # d
  /\ \A s \in Docs \ {d} : D[s].supersedes = target => ~UsableIn(D, s)
  /\ target \notin LaterIn(D, d)

\* The row a request will leave: of a document that is promoted, or is told what it replaces.
NextFits(D, d, next) ==
  \/ /\ D[d].state = "scanned_clean" /\ D[d].supersedes # None
     /\ next = [D[d] EXCEPT !.state = "promoted"]
  \/ /\ D[d].state = "promoted" /\ D[d].supersedes = None
     /\ next = [D[d] EXCEPT !.supersedes = next.supersedes]
     /\ Replaceable(D, d, next.supersedes)

Replacing == {"walked", "carried"}

\* A request under way still finds what it read of the rows it holds.
LinkFits(D, x) ==
  /\ Ends(D, x.link) /\ x.link.origin = "user" /\ x.share = {x.link.up, x.link.down}
  /\ ~D[x.link.up].revoked /\ ~D[x.link.down].revoked
RuleFits(D, x) == \A p \in x.pairs : p \in Docs \X Docs /\ UsableIn(D, p[1]) /\ UsableIn(D, p[2])
VersionFits(D, x) ==
  /\ x.self \in Docs /\ x.self \in x.update /\ NextFits(D, x.self, x.next)
  /\ \A i \in x.effect.walked : i.cause = "superseded"
Fits(D, x) ==
  /\ x.op \in {"idle", "link", "rule", "walked", "carried", "sweep"}
  /\ x.update \subseteq Docs /\ x.share \subseteq Docs
  /\ x.op = "idle" => x.update = {} /\ x.share = {}
  /\ x.op = "link" => LinkFits(D, x)
  /\ x.op = "rule" => RuleFits(D, x)
  /\ x.op \in Replacing => VersionFits(D, x)
  /\ x.op = "carried" => \A l \in x.moved : Ends(D, l) /\ l.origin = "carried_over"

Apart(x, y) == x.update \cap (y.update \cup y.share) = {}
OneSetsVersion(D, x, y) ==
  x.op \in Replacing /\ y.op \in Replacing
    => D[x.self].supersedes # None \/ D[y.self].supersedes # None
RequestsFit ==
  /\ tx = [t \in Txs |-> tx[t]]
  /\ \A t \in Txs : Fits(doc, tx[t])
  /\ \A s, t \in Txs : s # t => Apart(tx[s], tx[t]) /\ OneSetsVersion(doc, tx[s], tx[t])

\* The links a request will carry over close no loop: it holds the links' lock.
CarriedInOrder ==
  \A t \in Txs : tx[t].op = "carried" /\ tx[t].moved # {}
    => advisory = t /\ ~HasLoop(links \cup tx[t].moved)

\* An impact of an expiry is of a day that is over.
Dated(D, impacts, day) ==
  \A i \in impacts : i.cause = "expired" =>
    i.origin \in Docs /\ UsableIn(D, i.origin) /\ i.date \in Nat \ {0} /\ i.date < day

\* Whoever is told of an expiry, so is everything that rests on the document.
Complete(D, ls, impacts) ==
  \A o \in Docs : Impact(o, o, "expired", D[o].validUntil) \in impacts =>
    \A d \in document_impact_targets(ls, o) : UsableIn(D, d) /\ ~D[d].revoked =>
      Impact(d, o, "expired", D[o].validUntil) \in impacts

Plain(ls) == {l \in ls : l.origin # "carried_over"}
ExpiryTold(D, ls, impacts) ==
  \A o \in Docs : \A d \in document_impact_targets(Plain(ls), o) :
    /\ Impact(o, o, "expired", D[o].validUntil) \in impacts
    /\ ~D[o].revoked /\ ~ReplacedIn(D, o) /\ ~D[d].revoked
    => Impact(d, o, "expired", D[o].validUntil) \in impacts
RevocationTold(D, ls, impacts) ==
  \A l \in ls : l.origin = "user" /\ D[l.up].revoked /\ ~D[l.down].revoked
    => Impact(l.down, l.up, "revoked", 0) \in impacts

RowsFit ==
  /\ doc \in Rows /\ Lines(doc) /\ today \in Nat
  /\ \A l \in links : Ends(doc, l)
  /\ ~HasLoop(links)
  /\ open \subseteq recorded
  /\ advisory # None => advisory \in Txs /\ running(advisory)
ImpactsFit ==
  /\ RevocationTold(doc, links, recorded)
  /\ ~overlapped => ExpiryTold(doc, links, recorded)
  /\ Dated(doc, recorded, today)
SweepsFit ==
  /\ \A t \in Txs : tx[t].op = "sweep" => Dated(doc, tx[t].found, today)
  /\ ~overlapped => /\ \A s, t \in Txs : running(s) /\ running(t) => s = t
                    /\ \A t \in Txs : tx[t].op = "sweep" => Complete(doc, links, tx[t].found)

GraphInv == RowsFit /\ RequestsFit /\ CarriedInOrder /\ ImpactsFit /\ SweepsFit
-----------------------------------------------------------------------------
(* What is reached along pairs: the recursive query gives the least set    *)
(* that holds its start and is closed.                                     *)

Grows(g, R, ds, n) ==
  g = [k \in 0 .. n |-> IF k = 0 THEN ds ELSE g[k - 1] \cup Step(R, g[k - 1])]

\* The least member of a set of numbers.
LEMMA Least ==
  ASSUME NEW S, S \subseteq Nat, S # {}
  PROVE  \E m \in S : \A k \in S : m <= k
<1>1. PICK m \in S : \A k \in S : <<k, m>> \notin OpToRel(<, Nat)
  BY NatLessThanWellFounded, WFMin
<1>2. ASSUME NEW k \in S PROVE m <= k
  <2>1. ~ (<<k, m>>[1] < <<k, m>>[2])
    BY <1>1 DEF OpToRel
  <2> QED BY <2>1
<1> QED BY <1>2

LEMMA GrowsExists ==
  ASSUME NEW R, NEW ds, NEW n \in Nat
  PROVE  \E g : Grows(g, R, ds, n)
<1> DEFINE T == {k \in Nat : ~ \E g : Grows(g, R, ds, k)}
<1> SUFFICES ASSUME T # {} PROVE FALSE
  OBVIOUS
<1>1. PICK m \in T : \A k \in T : m <= k
  <2>1. T \subseteq Nat
    OBVIOUS
  <2> HIDE DEF T
  <2> QED BY <2>1, Least
<1>2. CASE m = 0
  <2> DEFINE g == [k \in 0 .. 0 |-> ds]
  <2>1. Grows(g, R, ds, 0)
    <3>1. g = [k \in 0 .. 0 |-> IF k = 0 THEN ds ELSE g[k - 1] \cup Step(R, g[k - 1])]
      OBVIOUS
    <3> QED BY <3>1 DEF Grows
  <2> QED BY <2>1, <1>1, <1>2
<1>3. CASE m # 0
  <2>1. m - 1 \in Nat /\ m \in Nat /\ m - 1 \notin T
    BY <1>1, <1>3
  <2>2. PICK g : Grows(g, R, ds, m - 1)
    BY <2>1
  <2> DEFINE h == [k \in 0 .. m |-> IF k = m THEN g[m - 1] \cup Step(R, g[m - 1]) ELSE g[k]]
  <2>3. ASSUME NEW k \in 0 .. m
        PROVE h[k] = IF k = 0 THEN ds ELSE h[k - 1] \cup Step(R, h[k - 1])
    <3>1. CASE k = m
      <4>1. h[k - 1] = g[m - 1]
        BY <3>1, <1>3, <2>1
      <4> QED BY <3>1, <4>1, <1>3
    <3>2. CASE k # m
      <4>1. k \in 0 .. (m - 1) /\ h[k] = g[k]
        BY <3>2, <2>1
      <4>2. k # 0 => h[k - 1] = g[k - 1]
        BY <4>1, <2>1
      <4>3. g[k] = IF k = 0 THEN ds ELSE g[k - 1] \cup Step(R, g[k - 1])
        BY <4>1, <2>2 DEF Grows
      <4> QED BY <4>1, <4>2, <4>3
    <3> QED BY <3>1, <3>2
  <2>4. h = [k \in 0 .. m |-> IF k = 0 THEN ds ELSE h[k - 1] \cup Step(R, h[k - 1])]
    <3>1. h = [k \in 0 .. m |-> h[k]]
      OBVIOUS
    <3> HIDE DEF h
    <3> QED BY <2>3, <3>1
  <2>5. Grows(h, R, ds, m)
    <3> HIDE DEF h
    <3> QED BY <2>4 DEF Grows
  <2> QED BY <2>5, <1>1
<1> QED BY <1>2, <1>3

LEMMA ReachGrows ==
  ASSUME NEW R, NEW ds, IsFiniteSet(Docs)
  PROVE  \E g : /\ Grows(g, R, ds, Cardinality(Docs))
                /\ Reach(R, ds) = g[Cardinality(Docs)]
<1>1. Cardinality(Docs) \in Nat
  BY FS_CardinalityType
<1>2. \E g : Grows(g, R, ds, Cardinality(Docs))
  BY <1>1, GrowsExists
<1> QED BY <1>2 DEF Grows, Reach

\* Induction along an interval, over a set of numbers.
LEMMA Along ==
  ASSUME NEW n \in Nat, NEW S, 0 \in S, \A k \in 0 .. (n - 1) : k \in S => k + 1 \in S
  PROVE  \A k \in 0 .. n : k \in S
<1> DEFINE T == {k \in 0 .. n : k \notin S}
<1> SUFFICES ASSUME T # {} PROVE FALSE
  OBVIOUS
<1>1. PICK m \in T : \A k \in T : m <= k
  <2>1. T \subseteq Nat
    OBVIOUS
  <2> HIDE DEF T
  <2> QED BY <2>1, Least
<1>2. m # 0 /\ m \in 0 .. n
  BY <1>1
<1>3. m - 1 \in 0 .. (n - 1) /\ m - 1 \in 0 .. n /\ (m - 1) + 1 = m /\ ~ (m <= m - 1)
  BY <1>2
<1>4. m - 1 \in S
  BY <1>1, <1>3
<1> QED BY <1>1, <1>3, <1>4

Closed(R, X) == \A e \in R : e[1] \in X => e[2] \in X

LEMMA GrowsStep ==
  ASSUME NEW R, NEW ds, NEW n \in Nat, NEW g, Grows(g, R, ds, n), NEW k \in 1 .. n
  PROVE  g[k] = g[k - 1] \cup Step(R, g[k - 1])
<1>1. k \in 0 .. n /\ k # 0
  OBVIOUS
<1>2. g[k] = IF k = 0 THEN ds ELSE g[k - 1] \cup Step(R, g[k - 1])
  BY <1>1, Zenon DEF Grows
<1> QED BY <1>1, <1>2

LEMMA GrowsWithin ==
  ASSUME NEW R, NEW ds, NEW n \in Nat, NEW g, Grows(g, R, ds, n), NEW X, ds \subseteq X, Closed(R, X)
  PROVE  \A k \in 0 .. n : g[k] \subseteq X
<1> DEFINE S == {k \in 0 .. n : g[k] \subseteq X}
<1>1. 0 \in S
  BY DEF Grows
<1>2. ASSUME NEW k \in 0 .. (n - 1), k \in S PROVE k + 1 \in S
  <2>1. k + 1 \in 0 .. n /\ k + 1 # 0 /\ (k + 1) - 1 = k
    OBVIOUS
  <2>2. g[k + 1] = g[k] \cup Step(R, g[k])
    BY <2>1 DEF Grows
  <2> QED BY <1>2, <2>1, <2>2 DEF Step, Closed
<1>3. \A k \in 0 .. n : k \in S
  <2> HIDE DEF S
  <2> QED BY <1>1, <1>2, Along
<1> QED BY <1>3

LEMMA GrowsOn ==
  ASSUME NEW R, NEW ds, NEW n \in Nat, NEW g, Grows(g, R, ds, n)
  PROVE  \A k \in 0 .. n : g[k] \subseteq g[n] /\ ds \subseteq g[k]
<1> DEFINE S == {k \in 0 .. n : g[n - k] \subseteq g[n]}
<1> DEFINE D == {k \in 0 .. n : ds \subseteq g[k]}
<1>0. ASSUME NEW k \in 1 .. n PROVE g[k] = g[k - 1] \cup Step(R, g[k - 1])
  BY GrowsStep
<1>1. 0 \in S
  OBVIOUS
<1>2. ASSUME NEW k \in 0 .. (n - 1), k \in S PROVE k + 1 \in S
  <2>1. n - k \in 1 .. n /\ (n - k) - 1 = n - (k + 1)
    OBVIOUS
  <2>2. g[n - (k + 1)] \subseteq g[n - k]
    BY <1>0, <2>1
  <2> QED BY <1>2, <2>2
<1>3. \A k \in 0 .. n : k \in S
  <2> HIDE DEF S
  <2> QED BY <1>1, <1>2, Along
<1>4. 0 \in D
  BY DEF Grows
<1>5. ASSUME NEW k \in 0 .. (n - 1), k \in D PROVE k + 1 \in D
  <2>1. k + 1 \in 1 .. n /\ (k + 1) - 1 = k
    OBVIOUS
  <2>2. g[k] \subseteq g[k + 1]
    BY <1>0, <2>1
  <2> QED BY <1>5, <2>2
<1>6. \A k \in 0 .. n : k \in D
  <2> HIDE DEF D
  <2> QED BY <1>4, <1>5, Along
<1>7. ASSUME NEW k \in 0 .. n PROVE g[k] \subseteq g[n]
  <2>1. n - k \in 0 .. n /\ n - (n - k) = k
    OBVIOUS
  <2>2. n - k \in S
    BY <1>3, <2>1
  <2> QED BY <2>1, <2>2
<1> QED BY <1>6, <1>7

\* As many rounds as there are documents are enough.
LEMMA GrowsEnough ==
  ASSUME NEW R \in SUBSET (Docs \X Docs), NEW ds \in SUBSET Docs, IsFiniteSet(Docs),
         NEW N \in Nat, N = Cardinality(Docs), NEW g, Grows(g, R, ds, N)
  PROVE  Closed(R, g[N])
<1>1. \A k \in 0 .. N : g[k] \subseteq Docs
  <2>1. Closed(R, Docs)
    BY DEF Closed
  <2> QED BY <2>1, GrowsWithin
<1>2. ASSUME NEW k \in 1 .. N PROVE g[k] = g[k - 1] \cup Step(R, g[k - 1])
  <2>1. k \in 0 .. N /\ k # 0
    OBVIOUS
  <2>2. g[k] = IF k = 0 THEN ds ELSE g[k - 1] \cup Step(R, g[k - 1])
    BY <2>1, Zenon DEF Grows
  <2> QED BY <2>1, <2>2
<1>3. ASSUME NEW k \in 0 .. N, Closed(R, g[k]) PROVE Closed(R, g[N])
  <2> DEFINE S == {j \in 0 .. (N - k) : g[k + j] = g[k]}
  <2>1. 0 \in S
    OBVIOUS
  <2>2. ASSUME NEW j \in 0 .. ((N - k) - 1), j \in S PROVE j + 1 \in S
    <3>1. k + (j + 1) \in 1 .. N /\ (k + (j + 1)) - 1 = k + j /\ j + 1 \in 0 .. (N - k)
      OBVIOUS
    <3>2. g[k + (j + 1)] = g[k] \cup Step(R, g[k])
      BY <1>2, <2>2, <3>1
    <3>3. Step(R, g[k]) \subseteq g[k]
      BY <1>3 DEF Closed, Step
    <3> QED BY <3>1, <3>2, <3>3
  <2>3. N - k \in Nat
    OBVIOUS
  <2>4. \A j \in 0 .. (N - k) : j \in S
    <3> HIDE DEF S
    <3> QED BY <2>1, <2>2, <2>3, Along
  <2>5. k + (N - k) = N /\ N - k \in 0 .. (N - k)
    OBVIOUS
  <2>6. g[N] = g[k]
    <3>1. N - k \in S
      BY <2>4, <2>5
    <3> QED BY <2>5, <3>1
  <2> QED BY <1>3, <2>6
<1>4. SUFFICES ASSUME \A k \in 0 .. N : ~Closed(R, g[k]) PROVE FALSE
  BY <1>3
<1>5. \A k \in 0 .. N : IsFiniteSet(g[k]) /\ Cardinality(g[k]) \in Nat
  BY <1>1, FS_Subset, FS_CardinalityType
<1> DEFINE S == {k \in 0 .. N : Cardinality(g[k]) >= k}
<1>6. 0 \in S
  BY <1>5
<1>7. ASSUME NEW k \in 0 .. (N - 1), k \in S PROVE k + 1 \in S
  <2>1. k \in 0 .. N /\ k + 1 \in 1 .. N /\ k + 1 \in 0 .. N /\ (k + 1) - 1 = k
    OBVIOUS
  <2>2. PICK e \in R : e[1] \in g[k] /\ e[2] \notin g[k]
    BY <1>4, <2>1 DEF Closed
  <2>3. g[k + 1] = g[k] \cup Step(R, g[k])
    BY <1>2, <2>1
  <2>4. g[k] \cup {e[2]} \subseteq g[k + 1]
    BY <2>2, <2>3 DEF Step
  <2>5. IsFiniteSet(g[k] \cup {e[2]}) /\ Cardinality(g[k] \cup {e[2]}) = Cardinality(g[k]) + 1
    <3>1. IsFiniteSet(g[k]) /\ Cardinality(g[k]) \in Nat
      BY <1>5, <2>1
    <3>2. PICK x : x = e[2]
      OBVIOUS
    <3>3. x \notin g[k]
      BY <2>2, <3>2
    <3>4. IsFiniteSet(g[k] \cup {x}) /\ Cardinality(g[k] \cup {x}) = Cardinality(g[k]) + 1
      BY <3>1, <3>3, FS_AddElement
    <3> QED BY <3>2, <3>4
  <2>6. Cardinality(g[k] \cup {e[2]}) <= Cardinality(g[k + 1])
    BY <1>5, <2>1, <2>4, FS_Subset
  <2> QED BY <1>5, <1>7, <2>1, <2>5, <2>6
<1>8. \A k \in 0 .. N : k \in S
  <2> HIDE DEF S
  <2> QED BY <1>6, <1>7, Along
<1>9. N \in 0 .. N
  OBVIOUS
<1>10. Cardinality(g[N]) >= N /\ g[N] \subseteq Docs
  BY <1>1, <1>8, <1>9
<1>11. g[N] = Docs
  BY <1>5, <1>9, <1>10, FS_Subset
<1>12. Closed(R, g[N])
  BY <1>11 DEF Closed
<1> QED BY <1>4, <1>9, <1>12

\* What is reached is the least set that holds the start and is closed.
LEMMA ReachIsLeast ==
  ASSUME NEW R \in SUBSET (Docs \X Docs), NEW ds \in SUBSET Docs
  PROVE  /\ ds \subseteq Reach(R, ds) /\ Reach(R, ds) \subseteq Docs
         /\ Closed(R, Reach(R, ds))
         /\ \A X : ds \subseteq X /\ Closed(R, X) => Reach(R, ds) \subseteq X
<1> DEFINE N == Cardinality(Docs)
<1>0. N \in Nat /\ N \in 0 .. N /\ IsFiniteSet(Docs)
  BY DocumentsAssumption, FS_CardinalityType
<1>1. PICK g : Grows(g, R, ds, N) /\ Reach(R, ds) = g[N]
  BY <1>0, ReachGrows
<1>2. Closed(R, g[N])
  BY <1>0, <1>1, GrowsEnough
<1>3. ds \subseteq g[N]
  <2> HIDE DEF N
  <2> QED BY <1>0, <1>1, GrowsOn
<1>4. ASSUME NEW X, ds \subseteq X, Closed(R, X) PROVE g[N] \subseteq X
  <2> HIDE DEF N
  <2> QED BY <1>0, <1>1, <1>4, GrowsWithin
<1>5. g[N] \subseteq Docs
  <2>1. Closed(R, Docs)
    BY DEF Closed
  <2> QED BY <1>4, <2>1
<1> HIDE DEF N
<1> QED BY <1>1, <1>2, <1>3, <1>4, <1>5

\* From here on the rounds of the query are forgotten.
Pairs == SUBSET (Docs \X Docs)

LEMMA ReachGrowsWith ==
  ASSUME NEW R \in Pairs, NEW S \in Pairs, NEW ds \in SUBSET Docs, NEW es \in SUBSET Docs,
         R \subseteq S, ds \subseteq es
  PROVE  Reach(R, ds) \subseteq Reach(S, es)
<1>1. es \subseteq Reach(S, es) /\ Closed(S, Reach(S, es))
  BY ReachIsLeast DEF Pairs
<1>2. Closed(R, Reach(S, es)) /\ ds \subseteq Reach(S, es)
  BY <1>1 DEF Closed
<1> QED BY <1>2, ReachIsLeast DEF Pairs

LEMMA ReachOn ==
  ASSUME NEW R \in Pairs, NEW ds \in SUBSET Docs, NEW es \in SUBSET Docs, ds \subseteq Reach(R, es)
  PROVE  Reach(R, ds) \subseteq Reach(R, es)
<1>1. Closed(R, Reach(R, es))
  BY ReachIsLeast DEF Pairs
<1> QED BY <1>1, ReachIsLeast DEF Pairs

\* What is reached is reached from some member of the start.
LEMMA ReachEach ==
  ASSUME NEW R \in Pairs, NEW ds \in SUBSET Docs, NEW x \in Reach(R, ds)
  PROVE  \E d \in ds : x \in Reach(R, {d})
<1> DEFINE X == UNION {Reach(R, {d}) : d \in ds}
<1>1. \A d \in ds : d \in Reach(R, {d}) /\ Closed(R, Reach(R, {d}))
  BY ReachIsLeast DEF Pairs
<1>2. ds \subseteq X
  BY <1>1
<1>3. Closed(R, X)
  BY <1>1 DEF Closed
<1>4. Reach(R, ds) \subseteq X
  <2> HIDE DEF X
  <2> QED BY <1>2, <1>3, ReachIsLeast DEF Pairs
<1> QED BY <1>4

\* Backwards along the pairs, one comes back.
LEMMA ReachBack ==
  ASSUME NEW R \in Pairs, NEW S \in Pairs, \A p \in R : <<p[2], p[1]>> \in S,
         NEW x \in Docs, NEW y \in Reach(R, {x})
  PROVE  x \in Reach(S, {y})
<1> DEFINE X == {z \in Docs : x \in Reach(S, {z})}
<1>1. {x} \subseteq X
  BY ReachIsLeast DEF Pairs
<1>2. ASSUME NEW p \in R, p[1] \in X PROVE p[2] \in X
  <2>1. p[1] \in Docs /\ p[2] \in Docs /\ <<p[2], p[1]>> \in S
    BY DEF Pairs
  <2>2. p[2] \in Reach(S, {p[2]}) /\ Closed(S, Reach(S, {p[2]}))
    BY <2>1, ReachIsLeast DEF Pairs
  <2>3. p[1] \in Reach(S, {p[2]})
    <3>1. PICK q \in S : q = <<p[2], p[1]>>
      BY <2>1
    <3> QED BY <2>2, <3>1 DEF Closed
  <2>4. Reach(S, {p[1]}) \subseteq Reach(S, {p[2]})
    BY <2>1, <2>3, ReachOn
  <2> QED BY <1>2, <2>1, <2>4
<1>3. Closed(R, X)
  BY <1>2 DEF Closed
<1>4. Reach(R, {x}) \subseteq X
  <2> HIDE DEF X
  <2> QED BY <1>1, <1>3, ReachIsLeast DEF Pairs
<1> QED BY <1>4

\* No pair leads back to where it comes from.
Acyclic(R) == \A p \in R : p[1] \notin Reach(R, {p[2]})

LEMMA FewerPairs ==
  ASSUME NEW R \in Pairs, NEW S \in Pairs, R \subseteq S, Acyclic(S)
  PROVE  Acyclic(R)
<1>1. ASSUME NEW p \in R, p[1] \in Reach(R, {p[2]}) PROVE FALSE
  <2>1. p[1] \in Docs /\ p[2] \in Docs
    BY DEF Pairs
  <2>2. Reach(R, {p[2]}) \subseteq Reach(S, {p[2]})
    BY <2>1, ReachGrowsWith
  <2> QED BY <1>1, <2>2 DEF Acyclic
<1> QED BY <1>1 DEF Acyclic

\* A pair whose end does not reach its start closes no loop.
LEMMA OnePairMore ==
  ASSUME NEW R \in Pairs, Acyclic(R), NEW u \in Docs, NEW v \in Docs, u \notin Reach(R, {v}),
         NEW S, S = R \cup {<<u, v>>}
  PROVE  Acyclic(S)
<1>0. S \in Pairs
  BY DEF Pairs
<1>1. SUFFICES ASSUME NEW p \in S, p[1] \in Reach(S, {p[2]}) PROVE FALSE
  BY DEF Acyclic
<1>2. PICK a \in Docs, b \in Docs : p = <<a, b>> /\ p[1] = a /\ p[2] = b
  BY <1>0 DEF Pairs
<1>3. /\ b \in Reach(R, {b}) /\ Closed(R, Reach(R, {b})) /\ Reach(R, {b}) \subseteq Docs
      /\ v \in Reach(R, {v}) /\ Closed(R, Reach(R, {v})) /\ Reach(R, {v}) \subseteq Docs
  BY ReachIsLeast DEF Pairs
<1>4. CASE u \notin Reach(R, {b})
  <2>1. Closed(S, Reach(R, {b}))
    BY <1>3, <1>4 DEF Closed
  <2>2. Reach(S, {b}) \subseteq Reach(R, {b})
    BY <1>0, <1>3, <2>1, ReachIsLeast DEF Pairs
  <2>3. a \in Reach(R, {b})
    BY <1>1, <1>2, <2>2
  <2>4. p \in R
    BY <1>2, <1>4, <2>3
  <2> QED BY <1>2, <2>3, <2>4 DEF Acyclic
<1>5. CASE u \in Reach(R, {b})
  <2> DEFINE X == Reach(R, {b}) \cup Reach(R, {v})
  <2>1. Closed(S, X)
    <3>1. Closed(R, X)
      BY <1>3 DEF Closed
    <3>2. \A e \in S : e \in R \/ (e[1] = u /\ e[2] = v)
      OBVIOUS
    <3>3. v \in X
      BY <1>3
    <3> HIDE DEF X
    <3> QED BY <3>1, <3>2, <3>3 DEF Closed
  <2>2. Reach(S, {b}) \subseteq X
    <3>1. {b} \subseteq X
      BY <1>3
    <3> HIDE DEF X
    <3> QED BY <1>0, <2>1, <3>1, ReachIsLeast DEF Pairs
  <2>3. a \in Reach(R, {b}) \/ a \in Reach(R, {v})
    BY <1>1, <1>2, <2>2
  <2>4. CASE p = <<u, v>>
    <3>1. b = v
      BY <1>2, <2>4
    <3> QED BY <1>5, <3>1
  <2>5. CASE p \in R
    <3>1. a \notin Reach(R, {b})
      BY <1>2, <2>5 DEF Acyclic
    <3>2. a \in Reach(R, {v})
      BY <2>3, <3>1
    <3>3. b \in Reach(R, {v})
      BY <1>2, <1>3, <2>5, <3>2 DEF Closed
    <3>4. Reach(R, {b}) \subseteq Reach(R, {v})
      BY <3>3, ReachOn
    <3> QED BY <1>5, <3>4
  <2> QED BY <2>4, <2>5
<1> QED BY <1>4, <1>5
-----------------------------------------------------------------------------
(* Links and versions as pairs.                                            *)

LEMMA LinksArePairs ==
  ASSUME NEW ls \in SUBSET LinkRows
  PROVE  /\ Downward(ls) \in Pairs /\ Upward(ls) \in Pairs
         /\ Carrying(ls) \subseteq ls /\ Carrying(ls) \in SUBSET LinkRows
         /\ Downward(Carrying(ls)) \in Pairs
<1>1. Carrying(ls) \subseteq ls
  BY DEF Carrying
<1>2. ASSUME NEW ms \in SUBSET LinkRows PROVE Downward(ms) \in Pairs /\ Upward(ms) \in Pairs
  BY DEF Downward, Upward, Pairs, LinkRows
<1> QED BY <1>1, <1>2

LEMMA LoopIsCycle ==
  ASSUME NEW ls \in SUBSET LinkRows
  PROVE  HasLoop(ls) <=> ~Acyclic(Downward(Carrying(ls)))
<1>1. ASSUME NEW l \in Carrying(ls), document_link_would_cycle(ls, l.up, l.down)
      PROVE  ~Acyclic(Downward(Carrying(ls)))
  <2>1. PICK p \in Downward(Carrying(ls)) : p = <<l.up, l.down>>
    BY DEF Downward
  <2> QED BY <1>1, <2>1 DEF Acyclic, document_link_would_cycle
<1>2. ASSUME NEW p \in Downward(Carrying(ls)), p[1] \in Reach(Downward(Carrying(ls)), {p[2]})
      PROVE  HasLoop(ls)
  <2>1. PICK l \in Carrying(ls) : p = <<l.up, l.down>>
    BY DEF Downward
  <2> QED BY <1>2, <2>1 DEF HasLoop, document_link_would_cycle
<1> QED BY <1>1, <1>2 DEF HasLoop, Acyclic

LEMMA FewerLinks ==
  ASSUME NEW ls \in SUBSET LinkRows, NEW ms \in SUBSET LinkRows, ls \subseteq ms, ~HasLoop(ms)
  PROVE  ~HasLoop(ls)
<1>1. Downward(Carrying(ls)) \subseteq Downward(Carrying(ms))
  BY DEF Downward, Carrying
<1> QED BY <1>1, LinksArePairs, LoopIsCycle, FewerPairs

LEMMA OneLinkMore ==
  ASSUME NEW ls \in SUBSET LinkRows, NEW l \in LinkRows, ~HasLoop(ls), Insertable(ls, l)
  PROVE  ~HasLoop(ls \cup {l})
<1> DEFINE ms == ls \cup {l}
           R  == Downward(Carrying(ls))
           S  == Downward(Carrying(ms))
<1>0. ms \in SUBSET LinkRows /\ R \in Pairs /\ S \in Pairs /\ l.up \in Docs /\ l.down \in Docs
  BY LinksArePairs DEF LinkRows
<1>1. Acyclic(R)
  BY LoopIsCycle
<1>2. CASE l.kind = "depends_on"
  <2>1. Carrying(ms) = Carrying(ls) \cup {l}
    BY <1>2 DEF Carrying
  <2>2. S = R \cup {<<l.up, l.down>>}
    BY <2>1 DEF Downward
  <2>3. l.up \notin Reach(R, {l.down})
    BY <1>2 DEF Insertable, document_link_would_cycle
  <2> HIDE DEF R, S
  <2>4. Acyclic(S)
    BY <1>0, <1>1, <2>2, <2>3, OnePairMore
  <2> QED BY <1>0, <2>4, LoopIsCycle DEF S
<1>3. CASE l.kind # "depends_on"
  <2>1. Carrying(ms) = Carrying(ls)
    BY <1>3 DEF Carrying
  <2> QED BY <1>0, <1>1, <2>1, LoopIsCycle
<1> QED BY <1>2, <1>3

\* Who replaces whom, as pairs.
Versions(D) == {<<D[s].supersedes, s>> : s \in Docs \ Successors(D, None)}

LEMMA VersionsArePairs ==
  ASSUME NEW D \in Rows
  PROVE  /\ Versions(D) \in Pairs
         /\ \A d : Successors(D, d) \in SUBSET Docs
         /\ \A d \in Docs : \A s \in Successors(D, d) : <<d, s>> \in Versions(D)
         /\ \A d : LaterIn(D, d) = Reach(Versions(D), Successors(D, d))
<1>1. \A s \in Docs \ Successors(D, None) : D[s].supersedes \in Docs
  BY DEF Rows, DocumentRows, Successors
<1>2. None \notin Docs
  BY DocumentsAssumption
<1>3. Versions(D) \in Pairs
  BY <1>1 DEF Versions, Pairs
<1>4. \A d \in Docs : \A s \in Successors(D, d) : <<d, s>> \in Versions(D)
  BY <1>2 DEF Successors, Versions
<1>5. \A d : Successors(D, d) \in SUBSET Docs
  BY DEF Successors
<1> QED BY <1>3, <1>4, <1>5 DEF LaterIn, Versions

LEMMA LinesAreAcyclic ==
  ASSUME NEW D \in Rows
  PROVE  (\A d \in Docs : d \notin LaterIn(D, d)) <=> Acyclic(Versions(D))
<1>1. ASSUME NEW d \in Docs, d \in LaterIn(D, d) PROVE ~Acyclic(Versions(D))
  <2>1. /\ d \in Reach(Versions(D), Successors(D, d)) /\ Versions(D) \in Pairs
        /\ Successors(D, d) \in SUBSET Docs
    BY <1>1, VersionsArePairs
  <2>2. PICK s \in Successors(D, d) : d \in Reach(Versions(D), {s})
    BY <2>1, ReachEach
  <2>3. PICK p \in Versions(D) : p = <<d, s>>
    BY VersionsArePairs
  <2> QED BY <2>2, <2>3 DEF Acyclic
<1>2. ASSUME NEW p \in Versions(D), p[1] \in Reach(Versions(D), {p[2]})
      PROVE  \E d \in Docs : d \in LaterIn(D, d)
  <2>1. Versions(D) \in Pairs
    BY VersionsArePairs
  <2>2. PICK s \in Docs \ Successors(D, None) : p = <<D[s].supersedes, s>>
    BY DEF Versions
  <2>3. p[1] \in Docs /\ p[2] = s /\ s \in Successors(D, p[1])
    BY <2>1, <2>2 DEF Pairs, Successors
  <2>4. /\ Successors(D, p[1]) \in SUBSET Docs /\ {p[2]} \in SUBSET Docs
        /\ {p[2]} \subseteq Successors(D, p[1])
    BY <2>3, VersionsArePairs
  <2>5. Reach(Versions(D), {p[2]}) \subseteq Reach(Versions(D), Successors(D, p[1]))
    BY <2>1, <2>4, ReachGrowsWith
  <2> QED BY <1>2, <2>3, <2>5, VersionsArePairs
<1> QED BY <1>1, <1>2 DEF Acyclic

\* What a document replaces, and whether it is usable, is all that versions depend on.
LEMMA LinesStay ==
  ASSUME NEW D \in Rows, NEW E \in Rows,
         \A s \in Docs : E[s].supersedes = D[s].supersedes /\ (UsableIn(E, s) <=> UsableIn(D, s))
  PROVE  /\ \A d : LaterIn(E, d) = LaterIn(D, d)
         /\ Lines(D) => Lines(E)
<1>1. ASSUME NEW d
      PROVE  Successors(E, d) = Successors(D, d) /\ LiveSuccessors(E, d) = LiveSuccessors(D, d)
  BY DEF Successors, LiveSuccessors, UsableIn
<1>2. Versions(E) = Versions(D)
  BY <1>1 DEF Versions, Successors
<1>3. ASSUME NEW d PROVE LaterIn(E, d) = LaterIn(D, d)
  <2>1. /\ LaterIn(E, d) = Reach(Versions(E), Successors(E, d))
        /\ LaterIn(D, d) = Reach(Versions(D), Successors(D, d))
    BY VersionsArePairs
  <2> QED BY <1>1, <1>2, <2>1
<1> QED BY <1>1, <1>3 DEF Lines

\* A document that replaces one without a live successor, and not a later
\* version of itself, continues its line.
LEMMA LineGoesOn ==
  ASSUME NEW D \in Rows, NEW E \in Rows, Lines(D), NEW d \in Docs, NEW target,
         Replaceable(D, d, target), D[d].supersedes = None, E[d].supersedes = target,
         \A s \in Docs : UsableIn(E, s) <=> UsableIn(D, s),
         \A s \in Docs \ {d} : E[s].supersedes = D[s].supersedes
  PROVE  Lines(E)
<1>0. None \notin Docs /\ IsFiniteSet(Docs) /\ target \in Docs
  BY DocumentsAssumption DEF Replaceable
<1>1. Versions(E) = Versions(D) \cup {<<target, d>>}
  BY <1>0 DEF Versions, Successors
<1>2. target \notin Reach(Versions(D), {d})
  <2> DEFINE X == {d} \cup LaterIn(D, d)
  <2>1. /\ Versions(D) \in Pairs /\ Successors(D, d) \in SUBSET Docs
        /\ LaterIn(D, d) = Reach(Versions(D), Successors(D, d))
    BY VersionsArePairs
  <2>2. Successors(D, d) \subseteq LaterIn(D, d) /\ Closed(Versions(D), LaterIn(D, d))
    BY <2>1, ReachIsLeast DEF Pairs
  <2>3. ASSUME NEW p \in Versions(D), p[1] = d PROVE p[2] \in Successors(D, d)
    BY <2>3 DEF Versions, Successors
  <2>4. Closed(Versions(D), X) /\ {d} \subseteq X
    BY <2>2, <2>3 DEF Closed
  <2>5. Reach(Versions(D), {d}) \subseteq X
    <3> HIDE DEF X
    <3> QED BY <2>1, <2>4, ReachIsLeast DEF Pairs
  <2> QED BY <2>5 DEF Replaceable
<1>3. Acyclic(Versions(E))
  <2>1. Versions(D) \in Pairs /\ Acyclic(Versions(D))
    BY VersionsArePairs, LinesAreAcyclic DEF Lines
  <2> QED BY <1>0, <1>1, <1>2, <2>1, OnePairMore
<1>4. ASSUME NEW x \in Docs PROVE Cardinality(LiveSuccessors(E, x)) <= 1
  <2>1. CASE x # target
    <3>1. LiveSuccessors(E, x) = LiveSuccessors(D, x)
      BY <1>0, <2>1 DEF LiveSuccessors, Successors, UsableIn
    <3> QED BY <3>1 DEF Lines
  <2>2. CASE x = target
    <3>1. LiveSuccessors(E, x) \subseteq {d}
      BY <2>2 DEF LiveSuccessors, Successors, UsableIn, Replaceable
    <3>2. IsFiniteSet({d}) /\ Cardinality({d}) = 1
      BY FS_Singleton
    <3> QED BY <3>1, <3>2, FS_Subset
  <2> QED BY <2>1, <2>2
<1> QED BY <1>3, <1>4, LinesAreAcyclic DEF Lines
-----------------------------------------------------------------------------
(* What rests on a document, and who is told of an expiry.                 *)

Onward(ls, o) == Downward({l \in Carrying(ls) : l.down # o})

LEMMA TargetsAreEnds ==
  ASSUME NEW ls \in SUBSET LinkRows, NEW o \in Docs
  PROVE  /\ Onward(ls, o) \in Pairs /\ Onward(ls, o) \subseteq Downward(ls)
         /\ \A d : d \in document_impact_targets(ls, o)
              <=> d # o /\ \E l \in ls : l.down = d /\ l.up \in Reach(Onward(ls, o), {o})
<1>1. /\ {l \in Carrying(ls) : l.down # o} \in SUBSET LinkRows
      /\ {l \in Carrying(ls) : l.down # o} \subseteq ls
  BY DEF Carrying
<1>2. Onward(ls, o) \in Pairs /\ Onward(ls, o) \subseteq Downward(ls)
  BY <1>1, LinksArePairs DEF Onward, Downward
<1>3. ASSUME NEW d, NEW X PROVE d \in Step(Downward(ls), X) <=> \E l \in ls : l.down = d /\ l.up \in X
  <2>1. d \in Step(Downward(ls), X) <=> \E p \in Downward(ls) : p[1] \in X /\ d = p[2]
    BY DEF Step
  <2>2. ASSUME NEW p \in Downward(ls) PROVE \E l \in ls : p[1] = l.up /\ p[2] = l.down
    BY DEF Downward
  <2>3. ASSUME NEW l \in ls PROVE \E p \in Downward(ls) : p[1] = l.up /\ p[2] = l.down
    <3>1. <<l.up, l.down>> \in Downward(ls)
      BY DEF Downward
    <3> QED BY <3>1
  <2> QED BY <2>1, <2>2, <2>3
<1>4. ASSUME NEW d
      PROVE  d \in document_impact_targets(ls, o)
               <=> d # o /\ \E l \in ls : l.down = d /\ l.up \in Reach(Onward(ls, o), {o})
  <2>1. document_impact_targets(ls, o) = Step(Downward(ls), Reach(Onward(ls, o), {o})) \ {o}
    BY DEF document_impact_targets, Onward
  <2> QED BY <1>3, <2>1
<1> QED BY <1>2, <1>4

LEMMA TargetsGrow ==
  ASSUME NEW ls \in SUBSET LinkRows, NEW ms \in SUBSET LinkRows, ls \subseteq ms, NEW o \in Docs
  PROVE  document_impact_targets(ls, o) \subseteq document_impact_targets(ms, o)
<1>1. Onward(ls, o) \subseteq Onward(ms, o)
  BY DEF Onward, Downward, Carrying
<1>2. Reach(Onward(ls, o), {o}) \subseteq Reach(Onward(ms, o), {o})
  BY <1>1, TargetsAreEnds, ReachGrowsWith
<1>3. ASSUME NEW d \in document_impact_targets(ls, o) PROVE d \in document_impact_targets(ms, o)
  <2>1. d # o /\ \E l \in ls : l.down = d /\ l.up \in Reach(Onward(ls, o), {o})
    BY TargetsAreEnds
  <2>2. \E l \in ms : l.down = d /\ l.up \in Reach(Onward(ms, o), {o})
    BY <1>2, <2>1
  <2> QED BY <2>1, <2>2, TargetsAreEnds
<1> QED BY <1>3

\* What comes to rest on a document does so through a new link, and the
\* document is above that link.
LEMMA NewTarget ==
  ASSUME NEW ls \in SUBSET LinkRows, NEW ms \in SUBSET LinkRows, ls \subseteq ms, NEW o \in Docs,
         NEW d \in document_impact_targets(ms, o), d \notin document_impact_targets(ls, o)
  PROVE  \E l \in ms \ ls : o \in Above(ms, l.up)
<1> DEFINE X == Reach(Onward(ms, o), {o})
           Y == Reach(Onward(ls, o), {o})
<1>1. /\ Onward(ms, o) \in Pairs /\ Onward(ls, o) \in Pairs /\ Onward(ms, o) \subseteq Downward(ms)
      /\ o \in X /\ o \in Y /\ Closed(Onward(ms, o), X) /\ Closed(Onward(ls, o), Y)
  <2>1. Onward(ms, o) \in Pairs /\ Onward(ls, o) \in Pairs /\ Onward(ms, o) \subseteq Downward(ms)
    BY TargetsAreEnds
  <2>2. o \in X /\ Closed(Onward(ms, o), X)
    BY <2>1, ReachIsLeast DEF Pairs
  <2>3. o \in Y /\ Closed(Onward(ls, o), Y)
    BY <2>1, ReachIsLeast DEF Pairs
  <2> QED BY <2>1, <2>2, <2>3
<1>2. ASSUME NEW l \in ms, l.up \in X PROVE o \in Above(ms, l.up)
  <2>1. \A p \in Onward(ms, o) : <<p[2], p[1]>> \in Upward(ms)
    <3>1. ASSUME NEW p \in Downward(ms) PROVE <<p[2], p[1]>> \in Upward(ms)
      BY DEF Downward, Upward
    <3> QED BY <1>1, <3>1
  <2>2. Upward(ms) \in Pairs /\ l.up \in Docs
    BY LinksArePairs DEF LinkRows
  <2> QED BY <1>1, <1>2, <2>1, <2>2, ReachBack DEF Above
<1>3. SUFFICES ASSUME \A l \in ms \ ls : l.up \notin X PROVE FALSE
  BY <1>2
<1>4. ASSUME NEW e \in Onward(ms, o), e[1] \in X \cap Y PROVE e[2] \in X \cap Y
  <2>1. PICK l \in Carrying(ms) : l.down # o /\ e = <<l.up, l.down>>
    BY DEF Onward, Downward
  <2>2. l \in Carrying(ls)
    BY <1>3, <1>4, <2>1 DEF Carrying
  <2>3. e \in Onward(ls, o)
    BY <2>1, <2>2 DEF Onward, Downward
  <2> HIDE DEF X, Y
  <2> QED BY <1>1, <1>4, <2>3 DEF Closed
<1>5. X \subseteq X \cap Y
  <2>1. Closed(Onward(ms, o), X \cap Y) /\ {o} \subseteq X \cap Y
    <3> HIDE DEF X, Y
    <3> QED BY <1>1, <1>4 DEF Closed
  <2> QED BY <1>1, <2>1, ReachIsLeast DEF Pairs
<1>6. PICK l \in ms : l.down = d /\ l.up \in X /\ d # o
  BY TargetsAreEnds
<1>7. l \in ls /\ l.up \in Y
  BY <1>3, <1>5, <1>6
<1> QED BY <1>6, <1>7, TargetsAreEnds

Due(D, day, o) ==
  /\ D[o].validUntil # 0 /\ D[o].validUntil < day
  /\ UsableIn(D, o) /\ ~D[o].revoked /\ ~ReplacedIn(D, o)

\* What a check of the documents in ds finds and raises.
Found(D, day, ls, ds, new) ==
  /\ \A i \in new : /\ i.cause = "expired" /\ i.origin \in ds /\ Due(D, day, i.origin)
                    /\ i.date = D[i.origin].validUntil
  /\ \A o \in ds : Due(D, day, o) =>
       /\ Impact(o, o, "expired", D[o].validUntil) \in new
       /\ \A t \in document_impact_targets(ls, o) :
            UsableIn(D, t) /\ ~D[t].revoked => Impact(t, o, "expired", D[o].validUntil) \in new

LEMMA ImpactFields ==
  \A d, o, c, v : /\ Impact(d, o, c, v).doc = d /\ Impact(d, o, c, v).origin = o
                  /\ Impact(d, o, c, v).cause = c /\ Impact(d, o, c, v).date = v
BY DEF Impact

LEMMA ReplacedReads == \A d : replaced(d) <=> ReplacedIn(doc, d)
BY DEF replaced, document_successor, replaces, ReplacedIn

Telling(D, ls, o) ==
  {Impact(d, o, "expired", D[o].validUntil) :
     d \in {o} \cup {t \in document_impact_targets(ls, o) : UsableIn(D, t) /\ ~D[t].revoked}}
Check(D, day, ls, ds) == UNION {Telling(D, ls, o) : o \in {e \in ds : Due(D, day, e)}}

LEMMA CheckFinds ==
  ASSUME NEW D, NEW day, NEW ls, NEW ds
  PROVE  Found(D, day, ls, ds, Check(D, day, ls, ds))
<1> DEFINE due == {e \in ds : Due(D, day, e)}
<1>1. ASSUME NEW i \in Check(D, day, ls, ds)
      PROVE  /\ i.cause = "expired" /\ i.origin \in ds /\ Due(D, day, i.origin)
             /\ i.date = D[i.origin].validUntil
  <2>1. PICK o \in due : i \in Telling(D, ls, o)
    BY DEF Check
  <2>2. i.cause = "expired" /\ i.origin = o /\ i.date = D[o].validUntil
    BY <2>1, ImpactFields DEF Telling
  <2> QED BY <2>1, <2>2
<1>2. ASSUME NEW o \in ds, Due(D, day, o)
      PROVE  /\ Impact(o, o, "expired", D[o].validUntil) \in Check(D, day, ls, ds)
             /\ \A t \in document_impact_targets(ls, o) :
                  UsableIn(D, t) /\ ~D[t].revoked
                    => Impact(t, o, "expired", D[o].validUntil) \in Check(D, day, ls, ds)
  <2>1. Telling(D, ls, o) \subseteq Check(D, day, ls, ds)
    BY <1>2 DEF Check
  <2> QED BY <2>1 DEF Telling
<1> QED BY <1>1, <1>2 DEF Found

LEMMA CheckReads ==
  ASSUME NEW ls, NEW ds
  PROVE  detect_document_expiry(ls, ds) = Check(doc, today, ls, ds)
<1>1. ASSUME NEW o PROVE record_document_impacts(ls, o, "expired") = Telling(doc, ls, o)
  BY DEF record_document_impacts, Telling, usable, UsableIn
<1>2. ASSUME NEW e
      PROVE  Expired(e) /\ usable(e) /\ ~doc[e].revoked /\ ~replaced(e) <=> Due(doc, today, e)
  BY DEF Expired, usable, UsableIn, replaced, document_successor, replaces, ReplacedIn, Due
<1> QED BY <1>1, <1>2 DEF detect_document_expiry, Check

\* A check at the end of a step sees the request's own writes.
LEMMA CheckReadsThen ==
  ASSUME NEW d
  PROVE  checkExpiryAround(links, d)' = Check(doc', today', links', Above(links', d))
<1>1. ASSUME NEW o PROVE record_document_impacts(links, o, "expired")' = Telling(doc', links', o)
  BY DEF record_document_impacts, Telling, usable, UsableIn
<1>2. ASSUME NEW e
      PROVE  (Expired(e) /\ usable(e) /\ ~doc[e].revoked /\ ~replaced(e))' <=> Due(doc', today', e)
  BY DEF Expired, usable, UsableIn, replaced, document_successor, replaces, ReplacedIn, Due
<1> QED BY <1>1, <1>2 DEF checkExpiryAround, detect_document_expiry, Check, Above
LEMMA TargetHasLink ==
  ASSUME NEW ls \in SUBSET LinkRows, NEW o \in Docs, NEW d \in document_impact_targets(ls, o)
  PROVE  d \in Docs /\ \E l \in ls : l.down = d
<1>1. \A x : x \in document_impact_targets(ls, o)
         <=> x # o /\ \E l \in ls : l.down = x /\ l.up \in Reach(Onward(ls, o), {o})
  BY TargetsAreEnds
<1>2. \E l \in ls : l.down = d
  BY <1>1
<1> QED BY <1>2 DEF LinkRows

LEMMA NothingFound ==
  ASSUME NEW D, NEW day, NEW ls
  PROVE  Found(D, day, ls, {}, {})
BY DEF Found

\* Everyone who rests on an expired document stays told of it: the check of a
\* step covers each document that is above a new link or has a new date.
LEMMA ExpiryStaysTold ==
  ASSUME links \in SUBSET LinkRows, links' \in SUBSET LinkRows,
         \A l \in links' : UsableIn(doc', l.down),
         NEW quiet, NEW found, NEW ds,
         recorded' = recorded \cup quiet \cup found, \A i \in quiet : i.cause # "expired",
         Found(doc', today, links', ds, found), Dated(doc', recorded, today),
         ExpiryTold(doc, links, recorded),
         \A s \in Docs : /\ doc[s].revoked => doc'[s].revoked
                         /\ ReplacedIn(doc, s) => ReplacedIn(doc', s)
                         /\ doc'[s].validUntil # doc[s].validUntil => s \in ds,
         \A l \in Plain(links') \ links : Above(links', l.up) \subseteq ds
  PROVE  ExpiryTold(doc', links', recorded')
<1> DEFINE Self(o) == Impact(o, o, "expired", doc'[o].validUntil)
<1> SUFFICES ASSUME NEW o \in Docs, NEW d \in document_impact_targets(Plain(links'), o),
                    Self(o) \in recorded', ~doc'[o].revoked, ~ReplacedIn(doc', o), ~doc'[d].revoked
             PROVE  Impact(d, o, "expired", doc'[o].validUntil) \in recorded'
  BY DEF ExpiryTold
<1>1. /\ Plain(links') \in SUBSET LinkRows /\ Plain(links) \in SUBSET LinkRows
      /\ Plain(links') \subseteq links'
      /\ Plain(links) \cap Plain(links') \in SUBSET LinkRows
  BY DEF Plain
<1>2. d \in document_impact_targets(links', o) /\ UsableIn(doc', d) /\ d \in Docs
  <2>1. d \in document_impact_targets(links', o)
    BY <1>1, TargetsGrow
  <2>2. d \in Docs /\ \E l \in links' : l.down = d
    BY <2>1, TargetHasLink
  <2> QED BY <2>1, <2>2
<1>3. CASE o \in ds /\ Due(doc', today, o)
  BY <1>2, <1>3 DEF Found
<1>4. CASE ~ (o \in ds /\ Due(doc', today, o))
  <2>1. Self(o) \notin found /\ Self(o) \notin quiet
    BY <1>4, ImpactFields DEF Found
  <2>2. Self(o) \in recorded
    BY <2>1
  <2>3. Due(doc', today, o)
    BY <2>2, ImpactFields DEF Dated, Due
  <2>4. o \notin ds /\ doc'[o].validUntil = doc[o].validUntil
    BY <1>4, <2>3
  <2>5. d \in document_impact_targets(Plain(links) \cap Plain(links'), o)
    <3>1. ASSUME NEW l \in Plain(links') \ (Plain(links) \cap Plain(links')),
                 o \in Above(Plain(links'), l.up)
          PROVE  FALSE
      <4>1. l \in Plain(links') /\ l \notin links
        BY <3>1 DEF Plain
      <4>2. Upward(Plain(links')) \subseteq Upward(links')
        BY DEF Upward, Plain
      <4>3. l.up \in Docs
        BY <1>1, <4>1 DEF LinkRows
      <4>4. Above(Plain(links'), l.up) \subseteq Above(links', l.up)
        BY <1>1, <4>2, <4>3, LinksArePairs, ReachGrowsWith DEF Above
      <4> QED BY <2>4, <3>1, <4>1, <4>4
    <3> QED BY <1>1, <3>1, NewTarget
  <2>6. d \in document_impact_targets(Plain(links), o)
    BY <1>1, <2>5, TargetsGrow
  <2>7. Impact(d, o, "expired", doc[o].validUntil) \in recorded
    BY <1>2, <2>2, <2>4, <2>6 DEF ExpiryTold
  <2> QED BY <2>4, <2>7
<1> QED BY <1>3, <1>4

LEMMA DatedStays ==
  ASSUME NEW D, NEW E \in Rows, NEW impacts, NEW quiet, NEW found, NEW ds \in SUBSET Docs,
         NEW day, NEW ls, Dated(D, impacts, day), \A i \in quiet : i.cause # "expired",
         Found(E, day, ls, ds, found), \A s \in Docs : UsableIn(D, s) => UsableIn(E, s)
  PROVE  Dated(E, impacts, day) /\ Dated(E, impacts \cup quiet \cup found, day)
<1>1. \A s \in Docs : E[s].validUntil \in Nat
  BY DocumentsAssumption DEF Rows, DocumentRows
<1>2. \A i \in found : /\ i.origin \in Docs /\ UsableIn(E, i.origin)
                       /\ i.date \in Nat \ {0} /\ i.date < day
  BY <1>1 DEF Found, Due
<1> QED BY <1>2 DEF Dated

\* What a step leaves of the impacts, when nothing is revoked in it.
LEMMA ImpactsStay ==
  ASSUME RowsFit, ImpactsFit, doc' \in Rows, \A l \in links' : Ends(doc', l), today' = today,
         \A s \in Docs : /\ UsableIn(doc, s) => UsableIn(doc', s)
                         /\ doc'[s].revoked = doc[s].revoked
                         /\ ReplacedIn(doc, s) => ReplacedIn(doc', s),
         NEW quiet, \A i \in quiet : i.cause # "expired",
         NEW ds \in SUBSET Docs, NEW found, Found(doc', today, links', ds, found),
         recorded' = recorded \cup quiet \cup found, overlapped => overlapped',
         \A s \in Docs : doc'[s].validUntil # doc[s].validUntil => s \in ds,
         \A l \in Plain(links') \ links : Above(links', l.up) \subseteq ds,
         \A l \in links' \ links : l.origin = "user" => ~doc'[l.up].revoked
  PROVE  ImpactsFit'
<1>1. Dated(doc', recorded, today) /\ Dated(doc', recorded', today)
  <2>1. Dated(doc, recorded, today)
    BY DEF ImpactsFit
  <2> QED BY <2>1, DatedStays
<1>2. ASSUME ~overlapped' PROVE ExpiryTold(doc', links', recorded')
  <2>1. ExpiryTold(doc, links, recorded)
    BY <1>2 DEF ImpactsFit
  <2>2. /\ links \in SUBSET LinkRows /\ links' \in SUBSET LinkRows
        /\ \A l \in links' : UsableIn(doc', l.down)
    BY DEF RowsFit, Ends
  <2>3. \A s \in Docs : /\ doc[s].revoked => doc'[s].revoked
                        /\ ReplacedIn(doc, s) => ReplacedIn(doc', s)
                        /\ doc'[s].validUntil # doc[s].validUntil => s \in ds
    OBVIOUS
  <2>4. Dated(doc', recorded, today) /\ recorded' = recorded \cup quiet \cup found
    BY <1>1
  <2>5. Found(doc', today, links', ds, found) /\ \A i \in quiet : i.cause # "expired"
    OBVIOUS
  <2>6. \A l \in Plain(links') \ links : Above(links', l.up) \subseteq ds
    OBVIOUS
  <2> QED BY <2>1, <2>2, <2>3, <2>4, <2>5, <2>6, ExpiryStaysTold
<1>3. RevocationTold(doc', links', recorded')
  <2>1. ASSUME NEW l \in links', l.origin = "user", doc'[l.up].revoked, ~doc'[l.down].revoked
        PROVE  Impact(l.down, l.up, "revoked", 0) \in recorded
    <3>1. l \in links /\ l.up \in Docs /\ l.down \in Docs
      BY <2>1 DEF Ends, LinkRows
    <3> QED BY <2>1, <3>1 DEF ImpactsFit, RevocationTold
  <2> QED BY <2>1 DEF RevocationTold
<1> QED BY <1>1, <1>2, <1>3 DEF ImpactsFit

-----------------------------------------------------------------------------
(* What other requests read of the rows they hold.                         *)

Kept(D, E, x) ==
  /\ \A s \in Docs : UsableIn(E, s) <=> UsableIn(D, s)
  /\ \A s \in x.update \cup x.share : E[s] = D[s]
  /\ \/ \A s \in Docs : E[s].supersedes = D[s].supersedes
     \/ x.op \in Replacing => D[x.self].supersedes # None

LEMMA FitsStays ==
  ASSUME NEW D \in Rows, NEW E \in Rows, NEW x, Fits(D, x), Kept(D, E, x)
  PROVE  Fits(E, x)
<1>0. \A l : Ends(D, l) => Ends(E, l)
  BY DEF Ends, Kept, LinkRows
<1>1. x.op = "link" => LinkFits(E, x)
  BY <1>0 DEF Fits, LinkFits, Kept
<1>2. x.op = "rule" => RuleFits(E, x)
  <2>1. ASSUME x.op = "rule", NEW p \in x.pairs
        PROVE  p \in Docs \X Docs /\ UsableIn(E, p[1]) /\ UsableIn(E, p[2])
    <3>1. p \in Docs \X Docs /\ UsableIn(D, p[1]) /\ UsableIn(D, p[2])
      BY <2>1 DEF Fits, RuleFits
    <3> QED BY <3>1 DEF Kept
  <2> QED BY <2>1 DEF RuleFits
<1>3. ASSUME x.op \in Replacing PROVE VersionFits(E, x)
  <2>1. x.self \in Docs /\ x.self \in x.update /\ NextFits(D, x.self, x.next)
    BY <1>3 DEF Fits, VersionFits
  <2>2. E[x.self] = D[x.self]
    BY <2>1 DEF Kept
  <2>3. NextFits(E, x.self, x.next)
    <3>1. CASE D[x.self].supersedes # None
      BY <2>1, <2>2, <3>1 DEF NextFits
    <3>2. CASE D[x.self].supersedes = None
      <4>1. \A s \in Docs : E[s].supersedes = D[s].supersedes /\ (UsableIn(E, s) <=> UsableIn(D, s))
        BY <1>3, <3>2 DEF Kept
      <4>2. \A d : LaterIn(E, d) = LaterIn(D, d)
        BY <4>1, LinesStay
      <4>3. Replaceable(D, x.self, x.next.supersedes) => Replaceable(E, x.self, x.next.supersedes)
        BY <4>1, <4>2 DEF Replaceable
      <4> QED BY <2>1, <2>2, <3>2, <4>3 DEF NextFits
    <3> QED BY <3>1, <3>2
  <2> QED BY <1>3, <2>1, <2>3 DEF Fits, VersionFits
<1>4. x.op = "carried" => \A l \in x.moved : Ends(E, l) /\ l.origin = "carried_over"
  BY <1>0 DEF Fits
<1> QED BY <1>1, <1>2, <1>3, <1>4 DEF Fits

\* One request moves to y, the others find what they read.
LEMMA RequestsStay ==
  ASSUME RowsFit, RequestsFit, doc' \in Rows, NEW t \in Txs, NEW y, tx' = [tx EXCEPT ![t] = y],
         Fits(doc', y),
         \A s \in Txs \ {t} : /\ Kept(doc, doc', tx[s]) /\ Apart(tx[s], y) /\ Apart(y, tx[s])
                              /\ OneSetsVersion(doc', tx[s], y)
  PROVE  RequestsFit'
<1>1. tx' = [s \in Txs |-> IF s = t THEN y ELSE tx[s]]
  BY DEF RequestsFit
<1>2. tx' = [s \in Txs |-> tx'[s]]
  BY <1>1
<1>3. \A s \in Txs : Fits(doc', tx'[s])
  <2>1. \A s \in Txs \ {t} : Fits(doc', tx[s])
    BY FitsStays DEF RowsFit, RequestsFit
  <2> QED BY <1>1, <2>1
<1>4. ASSUME NEW s \in Txs \ {t}, tx[s].op \in Replacing
      PROVE  doc'[tx[s].self] = doc[tx[s].self]
  <2>1. tx[s].self \in tx[s].update
    BY <1>4 DEF RequestsFit, Fits, VersionFits
  <2> QED BY <2>1 DEF Kept
<1>5. ASSUME NEW s \in Txs, NEW r \in Txs, s # r
      PROVE  Apart(tx'[s], tx'[r]) /\ OneSetsVersion(doc', tx'[s], tx'[r])
  <2>1. CASE s # t /\ r # t
    <3>1. Apart(tx[s], tx[r]) /\ OneSetsVersion(doc, tx[s], tx[r])
      BY <1>5 DEF RequestsFit
    <3> QED BY <1>1, <1>4, <2>1, <3>1 DEF OneSetsVersion
  <2>2. CASE s # t /\ r = t
    BY <1>1, <2>2
  <2>3. CASE s = t
    BY <1>1, <1>5, <2>3 DEF OneSetsVersion
  <2> QED BY <2>1, <2>2, <2>3
<1> QED BY <1>2, <1>3, <1>5 DEF RequestsFit

LEMMA SweepsStay ==
  ASSUME RequestsFit, SweepsFit, NEW t \in Txs, NEW y, tx' = [tx EXCEPT ![t] = y], today' = today,
         \A s \in Docs : UsableIn(doc, s) => UsableIn(doc', s),
         y.op = "sweep" => Dated(doc', y.found, today) /\ Complete(doc', links', y.found),
         \/ overlapped' = (overlapped \/ Others(t) # {})
         \/ overlapped' = overlapped /\ running(t)
  PROVE  SweepsFit'
<1>1. tx' = [s \in Txs |-> IF s = t THEN y ELSE tx[s]]
  BY DEF RequestsFit
<1>2. ASSUME NEW s \in Txs, tx'[s].op = "sweep" PROVE Dated(doc', tx'[s].found, today')
  <2>1. CASE s = t
    BY <1>1, <1>2, <2>1
  <2>2. CASE s # t
    <3>1. Dated(doc, tx[s].found, today)
      BY <1>1, <1>2, <2>2 DEF SweepsFit
    <3> QED BY <1>1, <2>2, <3>1 DEF Dated
  <2> QED BY <2>1, <2>2
<1>3. ASSUME ~overlapped', NEW s \in Txs, tx'[s].op # "idle" PROVE s = t
  <2>1. s # t => tx[s].op # "idle"
    BY <1>1, <1>3
  <2>2. CASE overlapped' = (overlapped \/ Others(t) # {})
    BY <1>3, <2>1, <2>2 DEF Others, running
  <2>3. CASE overlapped' = overlapped /\ running(t)
    BY <1>3, <2>1, <2>3 DEF SweepsFit, running
  <2> QED BY <2>2, <2>3
<1>4. ASSUME ~overlapped', NEW s \in Txs, tx'[s].op = "sweep"
      PROVE  Complete(doc', links', tx'[s].found)
  <2>1. s = t
    BY <1>3, <1>4
  <2> QED BY <1>1, <1>4, <2>1
<1>5. ASSUME ~overlapped', NEW s \in Txs, NEW r \in Txs, tx'[s].op # "idle", tx'[r].op # "idle"
      PROVE  s = r
  <2>1. s = t
    BY <1>3, <1>5
  <2>2. r = t
    BY <1>3, <1>5
  <2> QED BY <2>1, <2>2
<1> QED BY <1>2, <1>4, <1>5 DEF SweepsFit, running

LEMMA CarriedStays ==
  ASSUME RowsFit, RequestsFit, CarriedInOrder, NEW t \in Txs, NEW y, tx' = [tx EXCEPT ![t] = y],
         y.op = "carried" /\ y.moved # {} => advisory' = t /\ ~HasLoop(links' \cup y.moved),
         advisory \in {None, t} \/ (advisory' = advisory /\ links' \subseteq links)
  PROVE  CarriedInOrder'
<1>1. tx' = [s \in Txs |-> IF s = t THEN y ELSE tx[s]]
  BY DEF RequestsFit
<1>2. ASSUME NEW s \in Txs, s # t, tx[s].op = "carried", tx[s].moved # {}
      PROVE  advisory' = s /\ ~HasLoop(links' \cup tx[s].moved)
  <2>1. advisory = s /\ ~HasLoop(links \cup tx[s].moved) /\ s # None
    BY <1>2, DocumentsAssumption DEF CarriedInOrder
  <2>2. advisory' = advisory /\ links' \subseteq links
    BY <1>2, <2>1
  <2>3. links \cup tx[s].moved \in SUBSET LinkRows
    BY <1>2 DEF RowsFit, RequestsFit, Fits, Ends
  <2>4. /\ links' \cup tx[s].moved \in SUBSET LinkRows
        /\ links' \cup tx[s].moved \subseteq links \cup tx[s].moved
    BY <2>2, <2>3
  <2> QED BY <2>1, <2>2, <2>3, <2>4, FewerLinks
<1>3. ASSUME NEW s \in Txs, tx'[s].op = "carried", tx'[s].moved # {}
      PROVE  advisory' = s /\ ~HasLoop(links' \cup tx'[s].moved)
  <2>1. CASE s = t
    BY <1>1, <1>3, <2>1
  <2>2. CASE s # t
    BY <1>1, <1>2, <1>3, <2>2
  <2> QED BY <2>1, <2>2
<1> QED BY <1>3 DEF CarriedInOrder
-----------------------------------------------------------------------------
(* The steps of requests.                                                  *)

LEMMA FoundFits ==
  ASSUME NEW D \in Rows, NEW day, NEW ls, NEW ds \in SUBSET Docs, NEW found,
         Found(D, day, ls, ds, found)
  PROVE  Dated(D, found, day) /\ Complete(D, ls, found)
<1>1. \A s \in Docs : D[s].validUntil \in Nat
  BY DocumentsAssumption DEF Rows, DocumentRows
<1>2. Dated(D, found, day)
  BY <1>1 DEF Found, Due, Dated
<1>3. ASSUME NEW o \in Docs, Impact(o, o, "expired", D[o].validUntil) \in found
      PROVE  o \in ds /\ Due(D, day, o)
  BY <1>3, ImpactFields DEF Found
<1> QED BY <1>2, <1>3 DEF Found, Complete

\* Only a request under way holds rows.
LEMMA IdleHoldsNothing ==
  ASSUME RequestsFit, NEW s \in Txs, ~running(s)
  PROVE  tx[s].update = {} /\ tx[s].share = {} /\ tx[s].op = "idle"
BY DEF RequestsFit, Fits, running

\* A request begins and has written nothing yet.
LEMMA RequestBeginsQuietly ==
  ASSUME GraphInv, NEW t \in Txs, NEW y, Begin(t), tx' = [tx EXCEPT ![t] = y],
         UNCHANGED <<doc, links, recorded, open, advisory>>,
         Fits(doc, y), y.op \in {"link", "rule", "walked", "sweep"},
         \A s \in Txs \ {t} : Apart(tx[s], y) /\ Apart(y, tx[s]) /\ OneSetsVersion(doc, tx[s], y),
         y.op = "sweep" => Dated(doc, y.found, today) /\ Complete(doc, links, y.found)
  PROVE  GraphInv'
<1>0. /\ RowsFit /\ RequestsFit /\ CarriedInOrder /\ ImpactsFit /\ SweepsFit /\ doc' = doc
      /\ links' = links /\ recorded' = recorded /\ open' = open /\ advisory' = advisory
      /\ today' = today /\ overlapped' = (overlapped \/ Others(t) # {})
  BY DEF GraphInv, Begin
<1>1. tx' = [s \in Txs |-> IF s = t THEN y ELSE tx[s]]
  BY <1>0 DEF RequestsFit
<1>2. RowsFit'
  BY <1>0, <1>1 DEF RowsFit, running
<1>3. RequestsFit'
  <2>1. \A s \in Txs \ {t} : Kept(doc, doc', tx[s])
    BY <1>0 DEF Kept
  <2> QED BY <1>0, <2>1, RequestsStay DEF RowsFit
<1>4. CarriedInOrder'
  BY <1>0, CarriedStays
<1>5. ImpactsFit'
  BY <1>0 DEF ImpactsFit
<1>6. SweepsFit'
  BY <1>0, SweepsStay
<1> QED BY <1>2, <1>3, <1>4, <1>5, <1>6 DEF GraphInv

\* A request that changes one row, or none, and ends at once.
LEMMA OthersFindTheirRows ==
  ASSUME GraphInv, NEW t \in Txs, AtOnce(t), doc' \in Rows, NEW d,
         \A s \in Docs \ {d} : doc'[s] = doc[s],
         doc'[d] = doc[d] \/ MayUpdate(t, {d}),
         UsableIn(doc', d) <=> UsableIn(doc, d),
         doc'[d].supersedes = doc[d].supersedes \/ MaySetVersion(t),
         links' \subseteq links \/ MayInsertLinks(t)
  PROVE  RequestsFit' /\ CarriedInOrder' /\ SweepsFit'
<1>0. /\ RowsFit /\ RequestsFit /\ CarriedInOrder /\ SweepsFit /\ today' = today /\ ~running(t)
      /\ overlapped' = (overlapped \/ Others(t) # {}) /\ tx' = tx /\ advisory' = advisory
  BY DEF GraphInv, AtOnce, Begin
<1>1. tx' = [tx EXCEPT ![t] = tx[t]]
  BY <1>0 DEF RequestsFit
<1>2. tx[t].op = "idle" /\ tx[t].update = {} /\ tx[t].share = {}
  BY <1>0, IdleHoldsNothing
<1>3. \A s \in Docs : UsableIn(doc', s) <=> UsableIn(doc, s)
  BY DEF UsableIn
<1>4. ASSUME NEW s \in Txs \ {t} PROVE Kept(doc, doc', tx[s])
  <2>1. ASSUME NEW e \in tx[s].update \cup tx[s].share PROVE doc'[e] = doc[e]
    <3>1. s \in Others(t)
      BY <2>1, <1>0, IdleHoldsNothing DEF Others
    <3>2. e \in Docs
      BY <1>0, <2>1 DEF RequestsFit, Fits
    <3>3. MayUpdate(t, {d}) => e # d
      BY <2>1, <3>1 DEF MayUpdate
    <3> QED BY <3>2, <3>3
  <2>2. \/ \A e \in Docs : doc'[e].supersedes = doc[e].supersedes
        \/ tx[s].op \in Replacing => doc[tx[s].self].supersedes # None
    <3>1. MaySetVersion(t) => (tx[s].op \in Replacing => doc[tx[s].self].supersedes # None)
      BY DEF MaySetVersion, Others, running, Replacing, replaces
    <3> QED BY <3>1
  <2> QED BY <1>3, <2>1, <2>2 DEF Kept
<1>5. Fits(doc', tx[t])
  BY <1>0, <1>2 DEF RequestsFit, Fits, Replacing
<1>6. \A s \in Txs \ {t} : /\ Apart(tx[s], tx[t]) /\ Apart(tx[t], tx[s])
                           /\ OneSetsVersion(doc', tx[s], tx[t])
  BY <1>2 DEF Apart, OneSetsVersion, Replacing
<1>7. RequestsFit'
  BY <1>0, <1>1, <1>4, <1>5, <1>6, RequestsStay
<1>8. CarriedInOrder'
  BY <1>0, <1>1, <1>2, CarriedStays DEF MayInsertLinks
<1>9. SweepsFit'
  BY <1>0, <1>1, <1>2, <1>3, SweepsStay
<1> QED BY <1>7, <1>8, <1>9

\* A request under way ends.
LEMMA OthersGoOn ==
  ASSUME GraphInv, NEW t \in Txs, Proceed(t), End(t), doc' \in Rows,
         \A s \in Docs : UsableIn(doc', s) <=> UsableIn(doc, s),
         \A s \in Txs \ {t} : Kept(doc, doc', tx[s]),
         links' \subseteq links \/ advisory \in {None, t}
  PROVE  /\ RequestsFit' /\ CarriedInOrder' /\ SweepsFit'
         /\ advisory' # None => advisory' \in Txs /\ running(advisory)'
<1>0. /\ RowsFit /\ RequestsFit /\ CarriedInOrder /\ SweepsFit /\ today' = today /\ running(t)
      /\ overlapped' = overlapped /\ tx' = [tx EXCEPT ![t] = idle]
      /\ advisory' = IF advisory = t THEN None ELSE advisory
  BY DEF GraphInv, Proceed, End
<1>1. idle.op = "idle" /\ idle.update = {} /\ idle.share = {}
  BY DEF idle
<1>2. Fits(doc', idle)
  BY <1>1 DEF Fits, Replacing
<1>3. \A s \in Txs \ {t} : /\ Apart(tx[s], idle) /\ Apart(idle, tx[s])
                           /\ OneSetsVersion(doc', tx[s], idle)
  BY <1>1 DEF Apart, OneSetsVersion, Replacing
<1>4. RequestsFit'
  BY <1>0, <1>2, <1>3, RequestsStay
<1>5. CarriedInOrder'
  BY <1>0, <1>1, CarriedStays
<1>6. SweepsFit'
  BY <1>0, <1>1, SweepsStay
<1>7. advisory' # None => advisory' \in Txs /\ running(advisory)'
  <2>1. tx' = [s \in Txs |-> IF s = t THEN idle ELSE tx[s]]
    BY <1>0 DEF RequestsFit
  <2> QED BY <1>0, <2>1 DEF RowsFit, running
<1> QED BY <1>4, <1>5, <1>6, <1>7
LEMMA CreateLinkCheckFits ==
  ASSUME GraphInv, NEW t \in Txs, NEW r \in LinkRequests, CreateLinkCheck(t, r.up, r.down, r.kind)
  PROVE  GraphInv'
<1> DEFINE l == [up |-> r.up, down |-> r.down, kind |-> r.kind, origin |-> "user"]
           y == [op |-> "link", update |-> {}, share |-> {r.up, r.down}, link |-> l]
<1>1. r.up \in Docs /\ r.down \in Docs /\ r.kind \in Kinds
  BY RequestsAssumption
<1>2. /\ Begin(t) /\ tx' = [tx EXCEPT ![t] = y] /\ UNCHANGED <<doc, links, recorded, open, advisory>>
      /\ MayShare(t, {r.up, r.down}) /\ Linkable(r.up) /\ Linkable(r.down)
  BY DEF CreateLinkCheck
<1>3. /\ y.op = "link" /\ y.update = {} /\ y.share = {r.up, r.down} /\ y.link = l
      /\ l.up = r.up /\ l.down = r.down /\ l.origin = "user" /\ l \in LinkRows
  BY <1>1 DEF LinkRows
<1> HIDE DEF l, y
<1>4. Fits(doc, y)
  BY <1>1, <1>2, <1>3 DEF Fits, LinkFits, Ends, Linkable, usable, UsableIn, Replacing
<1>5. ASSUME NEW s \in Txs \ {t}
      PROVE  Apart(tx[s], y) /\ Apart(y, tx[s]) /\ OneSetsVersion(doc, tx[s], y)
  <2>1. tx[s].update \cap {r.up, r.down} = {}
    <3>1. running(s) => s \in Others(t)
      BY DEF Others
    <3>2. ~running(s) => tx[s].update = {}
      BY IdleHoldsNothing DEF GraphInv
    <3> QED BY <1>2, <3>1, <3>2 DEF MayShare
  <2> QED BY <1>3, <2>1 DEF Apart, OneSetsVersion, Replacing
<1> QED BY <1>2, <1>3, <1>4, <1>5, RequestBeginsQuietly

LEMMA RulePairsFit ==
  ASSUME NEW ds, NEW p \in RulePairs(ds)
  PROVE  p \in Docs \X Docs /\ UsableIn(doc, p[1]) /\ UsableIn(doc, p[2])
BY DEF RulePairs, Linkable, usable, UsableIn

LEMMA CreateRuleCheckFits ==
  ASSUME GraphInv, NEW t \in Txs, CreateRuleCheck(t)
  PROVE  GraphInv'
<1> DEFINE y == [op |-> "rule", update |-> {}, share |-> {}, pairs |-> RulePairs(Docs)]
<1>1. Begin(t) /\ tx' = [tx EXCEPT ![t] = y] /\ UNCHANGED <<doc, links, recorded, open, advisory>>
  BY DEF CreateRuleCheck
<1>2. y.op = "rule" /\ y.update = {} /\ y.share = {} /\ y.pairs = RulePairs(Docs)
  OBVIOUS
<1> HIDE DEF y
<1>3. Fits(doc, y)
  BY <1>2, RulePairsFit DEF Fits, RuleFits, Replacing
<1>4. \A s \in Txs \ {t} : Apart(tx[s], y) /\ Apart(y, tx[s]) /\ OneSetsVersion(doc, tx[s], y)
  BY <1>2 DEF Apart, OneSetsVersion, Replacing
<1> QED BY <1>1, <1>2, <1>3, <1>4, RequestBeginsQuietly

LEMMA SweepReadFits ==
  ASSUME GraphInv, NEW t \in Txs, SweepRead(t)
  PROVE  GraphInv'
<1> DEFINE y == [op |-> "sweep", update |-> {}, share |-> {},
                 found |-> detect_document_expiry(links, Docs)]
<1>1. Begin(t) /\ tx' = [tx EXCEPT ![t] = y] /\ UNCHANGED <<doc, links, recorded, open, advisory>>
  BY DEF SweepRead
<1>2. y.op = "sweep" /\ y.update = {} /\ y.share = {} /\ y.found = detect_document_expiry(links, Docs)
  OBVIOUS
<1> HIDE DEF y
<1>3. Fits(doc, y)
  BY <1>2 DEF Fits, Replacing
<1>4. \A s \in Txs \ {t} : Apart(tx[s], y) /\ Apart(y, tx[s]) /\ OneSetsVersion(doc, tx[s], y)
  BY <1>2 DEF Apart, OneSetsVersion, Replacing
<1>5. Dated(doc, y.found, today) /\ Complete(doc, links, y.found)
  <2>1. doc \in Rows
    BY DEF GraphInv, RowsFit
  <2>2. Found(doc, today, links, Docs, y.found)
    BY <1>2, CheckFinds, CheckReads
  <2> QED BY <2>1, <2>2, FoundFits
<1> QED BY <1>1, <1>2, <1>3, <1>4, <1>5, RequestBeginsQuietly

\* A new version begins to take effect: the row of d is held, and nobody else
\* sets what a document replaces unless d had it set.
LEMMA VersionBegins ==
  ASSUME GraphInv, NEW t \in Txs, NEW d \in Docs, NEW next, NEW p, NEW held \in SUBSET Docs,
         Begin(t), MayUpdate(t, held), d \in held, NextFits(doc, d, next),
         doc[d].supersedes # None \/ MaySetVersion(t),
         tx' = [tx EXCEPT ![t] = [op |-> "walked", update |-> held, share |-> {}, self |-> d,
                                  next |-> next, effect |-> SupersedeWalk(p)]],
         UNCHANGED <<doc, links, recorded, open, advisory>>
  PROVE  GraphInv'
<1> DEFINE y == [op |-> "walked", update |-> held, share |-> {}, self |-> d,
                 next |-> next, effect |-> SupersedeWalk(p)]
<1>1. tx' = [tx EXCEPT ![t] = y]
  OBVIOUS
<1>2. /\ y.op = "walked" /\ y.update = held /\ y.share = {} /\ y.self = d /\ y.next = next
      /\ y.effect = SupersedeWalk(p)
  OBVIOUS
<1> HIDE DEF y
<1>3. \A i \in y.effect.walked : i.cause = "superseded"
  <2>1. y.effect.walked = record_document_impacts(links, p, "superseded")
    BY <1>2 DEF SupersedeWalk
  <2> QED BY <2>1, ImpactFields DEF record_document_impacts
<1>4. Fits(doc, y)
  BY <1>2, <1>3 DEF Fits, VersionFits, Replacing
<1>5. ASSUME NEW s \in Txs \ {t}
      PROVE  Apart(tx[s], y) /\ Apart(y, tx[s]) /\ OneSetsVersion(doc, tx[s], y)
  <2>1. running(s) => s \in Others(t)
    BY DEF Others
  <2>2. ~running(s) => tx[s].update = {} /\ tx[s].share = {} /\ tx[s].op = "idle"
    BY IdleHoldsNothing DEF GraphInv
  <2>3. (tx[s].update \cup tx[s].share) \cap held = {}
    BY <2>1, <2>2 DEF MayUpdate
  <2>4. MaySetVersion(t) /\ tx[s].op \in Replacing => doc[tx[s].self].supersedes # None
    BY <2>1, <2>2 DEF MaySetVersion, Replacing, replaces
  <2> QED BY <1>2, <2>3, <2>4 DEF Apart, OneSetsVersion
<1> QED BY <1>1, <1>2, <1>4, <1>5, RequestBeginsQuietly

\* Nothing is raised and no link comes: nobody has less to know.
LEMMA ImpactsAsTheyWere ==
  ASSUME RowsFit, ImpactsFit, doc' \in Rows, links' \subseteq links, recorded' = recorded,
         today' = today, overlapped => overlapped', \A l \in links' : Ends(doc', l),
         \A s \in Docs : /\ UsableIn(doc, s) => UsableIn(doc', s)
                         /\ doc'[s].revoked = doc[s].revoked
                         /\ doc'[s].validUntil = doc[s].validUntil
                         /\ ReplacedIn(doc, s) => ReplacedIn(doc', s)
  PROVE  ImpactsFit'
<1> DEFINE no == {}
<1>1. Found(doc', today, links', no, no) /\ no \in SUBSET Docs /\ \A i \in no : i.cause # "expired"
  BY NothingFound
<1>2. /\ recorded' = recorded \cup no \cup no
      /\ \A l \in Plain(links') \ links : Above(links', l.up) \subseteq no
  BY DEF Plain
<1>3. \A l \in links' \ links : l.origin = "user" => ~doc'[l.up].revoked
  OBVIOUS
<1>4. \A s \in Docs : doc'[s].validUntil # doc[s].validUntil => s \in no
  OBVIOUS
<1> HIDE DEF no
<1> QED BY <1>1, <1>2, <1>3, <1>4, ImpactsStay
LEMMA AboveHolds ==
  ASSUME NEW ls \in SUBSET LinkRows, NEW d \in Docs
  PROVE  /\ Above(ls, d) \in SUBSET Docs /\ d \in Above(ls, d)
         /\ \A l \in ls : l.down = d => Above(ls, l.up) \subseteq Above(ls, d)
<1>1. Upward(ls) \in Pairs
  BY LinksArePairs
<1>2. /\ Above(ls, d) \in SUBSET Docs /\ d \in Above(ls, d)
      /\ Closed(Upward(ls), Above(ls, d))
  BY <1>1, ReachIsLeast DEF Above, Pairs
<1>3. ASSUME NEW l \in ls, l.down = d PROVE Above(ls, l.up) \subseteq Above(ls, d)
  <2>1. PICK p \in Upward(ls) : p[1] = l.down /\ p[2] = l.up
    <3>1. <<l.down, l.up>> \in Upward(ls)
      BY DEF Upward
    <3> QED BY <3>1
  <2>2. l.up \in Docs /\ l.up \in Above(ls, d)
    BY <1>2, <1>3, <2>1 DEF Closed, LinkRows
  <2> QED BY <1>1, <2>2, ReachOn DEF Above
<1> QED BY <1>2, <1>3

\* Steps that leave the documents as they are.
LEMMA QuietSteps ==
  ASSUME GraphInv, NEW t \in Txs, AtOnce(t), doc' = doc, links' \subseteq links,
         recorded' = recorded, open' \subseteq open
  PROVE  GraphInv'
<1>0. /\ RowsFit /\ ImpactsFit /\ today' = today /\ (overlapped => overlapped')
      /\ tx' = tx /\ advisory' = advisory
  BY DEF GraphInv, AtOnce, Begin
<1>1. links \in SUBSET LinkRows /\ links' \in SUBSET LinkRows
  BY <1>0 DEF RowsFit, Ends
<1>2. ~HasLoop(links')
  BY <1>0, <1>1, FewerLinks DEF RowsFit
<1>3. RowsFit'
  BY <1>0, <1>2 DEF RowsFit, running
<1>4. RequestsFit' /\ CarriedInOrder' /\ SweepsFit'
  BY <1>0, OthersFindTheirRows DEF RowsFit
<1>5. ImpactsFit'
  BY <1>0, ImpactsAsTheyWere DEF RowsFit
<1> QED BY <1>3, <1>4, <1>5 DEF GraphInv

LEMMA RevokeFits ==
  ASSUME GraphInv, NEW t \in Txs, NEW d \in Docs, RevokeDocument(t, d)
  PROVE  GraphInv'
<1> DEFINE told == record_document_impacts(links, d, "revoked")
<1>0. /\ RowsFit /\ ImpactsFit /\ AtOnce(t) /\ MayUpdate(t, {d}) /\ today' = today
      /\ (overlapped => overlapped') /\ tx' = tx /\ advisory' = advisory /\ links' = links
      /\ recorded' = recorded \cup told /\ open' = open \cup (told \ recorded)
      /\ doc \in Rows /\ doc' = [doc EXCEPT ![d].revoked = TRUE]
  BY DEF GraphInv, AtOnce, Begin, RevokeDocument, Record, RowsFit
<1>1. /\ doc' \in Rows
      /\ \A s \in Docs \ {d} : doc'[s] = doc[s]
      /\ doc'[d].revoked /\ doc'[d].state = doc[d].state
      /\ doc'[d].supersedes = doc[d].supersedes /\ doc'[d].validUntil = doc[d].validUntil
  BY <1>0 DEF Rows, DocumentRows
<1>2. \A s \in Docs : /\ UsableIn(doc', s) <=> UsableIn(doc, s)
                      /\ doc'[s].supersedes = doc[s].supersedes
                      /\ doc'[s].validUntil = doc[s].validUntil
                      /\ doc[s].revoked => doc'[s].revoked
                      /\ ReplacedIn(doc', s) <=> ReplacedIn(doc, s)
  BY <1>1 DEF UsableIn, ReplacedIn
<1>3. \A l : Ends(doc, l) => Ends(doc', l)
  BY <1>2 DEF Ends, LinkRows
<1>4. RowsFit'
  <2>1. Lines(doc')
    <3>1. \A s \in Docs : /\ doc'[s].supersedes = doc[s].supersedes
                          /\ UsableIn(doc', s) <=> UsableIn(doc, s)
      BY <1>2
    <3>2. Lines(doc)
      BY <1>0 DEF RowsFit
    <3>3. doc \in Rows /\ doc' \in Rows
      BY <1>0, <1>1
    <3> QED BY <3>1, <3>2, <3>3, LinesStay
  <2> QED BY <1>0, <1>1, <1>3, <2>1 DEF RowsFit, running
<1>5. RequestsFit' /\ CarriedInOrder' /\ SweepsFit'
  BY <1>0, <1>1, <1>2, OthersFindTheirRows
<1>6. told = {Impact(e, d, "revoked", 0) :
                e \in {s \in document_impact_targets(links, d) : UsableIn(doc, s) /\ ~doc[s].revoked}}
  BY DEF record_document_impacts, usable, UsableIn
<1>7. \A i \in told : i.cause = "revoked"
  BY <1>6, ImpactFields
<1>8. RevocationTold(doc', links, recorded')
  <2> SUFFICES ASSUME NEW l \in links, l.origin = "user", doc'[l.up].revoked, ~doc'[l.down].revoked
               PROVE  Impact(l.down, l.up, "revoked", 0) \in recorded'
    BY DEF RevocationTold
  <2>1. l.up \in Docs /\ l.down \in Docs /\ UsableIn(doc, l.down) /\ l.down # d /\ ~doc[l.down].revoked
    BY <1>0, <1>1, <1>2 DEF RowsFit, Ends, LinkRows
  <2>2. CASE l.up # d
    BY <1>0, <1>1, <2>1, <2>2 DEF ImpactsFit, RevocationTold
  <2>3. CASE l.up = d
    <3>1. links \in SUBSET LinkRows
      BY <1>0 DEF RowsFit, Ends
    <3>2. Onward(links, d) \in Pairs
          /\ \A e : e \in document_impact_targets(links, d)
               <=> e # d /\ \E k \in links : k.down = e /\ k.up \in Reach(Onward(links, d), {d})
      BY <3>1, TargetsAreEnds
    <3>3. d \in Reach(Onward(links, d), {d})
      BY <3>2, ReachIsLeast DEF Pairs
    <3>4. l.down \in document_impact_targets(links, d)
      BY <2>1, <2>3, <3>2, <3>3
    <3> QED BY <1>0, <1>6, <2>1, <2>3, <3>4
  <2> QED BY <2>2, <2>3
<1>9. ~overlapped' => ExpiryTold(doc', links, recorded')
  <2> DEFINE no == {}
  <2>1. /\ links \in SUBSET LinkRows /\ Found(doc', today, links, no, no)
        /\ \A l \in Plain(links) \ links : Above(links, l.up) \subseteq no
        /\ \A l \in links : UsableIn(doc', l.down)
    BY <1>0, <1>3, NothingFound DEF Plain, RowsFit, Ends
  <2>2. Dated(doc', recorded, today)
    BY <1>0, <1>2 DEF ImpactsFit, Dated
  <2>3. recorded' = recorded \cup told \cup no /\ \A i \in told : i.cause # "expired"
    BY <1>0, <1>7
  <2>4. \A s \in Docs : /\ doc[s].revoked => doc'[s].revoked
                        /\ ReplacedIn(doc, s) => ReplacedIn(doc', s)
                        /\ doc'[s].validUntil # doc[s].validUntil => s \in no
    BY <1>2
  <2>5. ~overlapped' => ExpiryTold(doc, links, recorded)
    BY <1>0 DEF ImpactsFit
  <2> HIDE DEF no, told
  <2> QED BY <1>0, <2>1, <2>2, <2>3, <2>4, <2>5, ExpiryStaysTold
<1>10. Dated(doc', recorded', today')
  BY <1>0, <1>2, <1>7 DEF ImpactsFit, Dated
<1> QED BY <1>0, <1>4, <1>5, <1>8, <1>9, <1>10 DEF GraphInv, ImpactsFit
\* A request changes the profile of one document, and checks what is around it.
LEMMA ProfileChanges ==
  ASSUME GraphInv, NEW t \in Txs, AtOnce(t), NEW d \in Docs, MayUpdate(t, {d}),
         doc' \in Rows, \A s \in Docs \ {d} : doc'[s] = doc[s],
         doc'[d].state = doc[d].state, doc'[d].revoked = doc[d].revoked,
         doc'[d].supersedes = doc[d].supersedes \/ (doc[d].supersedes = None /\ MaySetVersion(t)),
         Lines(doc'), Record(checkExpiryAround(links, d)'),
         links \subseteq links', links' = links \/ MayInsertLinks(t),
         \A l \in links' : Ends(doc', l), ~HasLoop(links'),
         \A l \in links' \ links : l.origin # "user" /\ (l.up = d \/ l.down = d)
  PROVE  GraphInv'
<1> DEFINE found == checkExpiryAround(links, d)'
           ds == Above(links', d)
<1>0. /\ RowsFit /\ ImpactsFit /\ today' = today /\ (overlapped => overlapped')
      /\ tx' = tx /\ advisory' = advisory
  BY DEF GraphInv, AtOnce, Begin
<1>1. \A s \in Docs : /\ UsableIn(doc', s) <=> UsableIn(doc, s)
                      /\ doc'[s].revoked = doc[s].revoked
                      /\ ReplacedIn(doc, s) => ReplacedIn(doc', s)
  BY DocumentsAssumption DEF UsableIn, ReplacedIn
<1>2. recorded' = recorded \cup found /\ open' = open \cup (found \ recorded)
  BY DEF Record
<1>3. RowsFit'
  BY <1>0, <1>2 DEF RowsFit, running
<1>4. RequestsFit' /\ CarriedInOrder' /\ SweepsFit'
  BY <1>1, OthersFindTheirRows
<1>5. Found(doc', today, links', ds, found)
  BY <1>0, CheckFinds, CheckReadsThen
<1>6. links' \in SUBSET LinkRows
  BY DEF Ends
<1>7. ds \in SUBSET Docs /\ d \in ds /\ \A l \in links' : l.down = d => Above(links', l.up) \subseteq ds
  BY <1>6, AboveHolds
<1>8. \A l \in Plain(links') \ links : Above(links', l.up) \subseteq ds
  BY <1>7 DEF Plain
<1>9. ImpactsFit'
  <2> DEFINE no == {}
  <2>1. recorded' = recorded \cup no \cup found /\ \A i \in no : i.cause # "expired"
    BY <1>2
  <2>2. \A s \in Docs : doc'[s].validUntil # doc[s].validUntil => s \in ds
    BY <1>7
  <2>3. \A l \in links' \ links : l.origin = "user" => ~doc'[l.up].revoked
    OBVIOUS
  <2> HIDE DEF no, found, ds
  <2> QED BY <1>0, <1>1, <1>5, <1>7, <1>8, <2>1, <2>2, <2>3, ImpactsStay
<1> QED BY <1>3, <1>4, <1>9 DEF GraphInv

LEMMA RowChanged ==
  ASSUME doc \in Rows, NEW d \in Docs, NEW row \in DocumentRows, doc' = [doc EXCEPT ![d] = row]
  PROVE  doc' \in Rows /\ doc'[d] = row /\ \A s \in Docs \ {d} : doc'[s] = doc[s]
BY DEF Rows

LEMMA SetValidUntilFits ==
  ASSUME GraphInv, NEW t \in Txs, NEW r \in DateRequests, SetValidUntil(t, r.doc, r.day)
  PROVE  GraphInv'
<1> DEFINE d == r.doc
           row == [doc[d] EXCEPT !.validUntil = r.day]
<1>0. d \in Docs /\ r.day \in 0..MaxDay /\ RowsFit /\ doc \in Rows
  BY RequestsAssumption DEF GraphInv, RowsFit
<1>1. /\ AtOnce(t) /\ MayUpdate(t, {d}) /\ links' = links /\ Record(checkExpiryAround(links, d)')
      /\ doc' = [doc EXCEPT ![d] = row]
  BY <1>0 DEF SetValidUntil, Editable
<1>2. /\ row \in DocumentRows /\ row.state = doc[d].state /\ row.revoked = doc[d].revoked
      /\ row.supersedes = doc[d].supersedes
  BY <1>0 DEF Rows, DocumentRows
<1> HIDE DEF row, d
<1>3. doc' \in Rows /\ doc'[d] = row /\ \A s \in Docs \ {d} : doc'[s] = doc[s]
  BY <1>0, <1>1, <1>2, RowChanged
<1>4. \A s \in Docs : doc'[s].supersedes = doc[s].supersedes /\ (UsableIn(doc', s) <=> UsableIn(doc, s))
  BY <1>2, <1>3 DEF UsableIn
<1>5. Lines(doc')
  BY <1>0, <1>3, <1>4, LinesStay DEF RowsFit
<1>6. (\A l \in links' : Ends(doc', l)) /\ ~HasLoop(links')
  BY <1>0, <1>1, <1>4 DEF RowsFit, Ends, LinkRows
<1> QED BY <1>0, <1>1, <1>2, <1>3, <1>5, <1>6, ProfileChanges

LEMMA RuleLinksFit ==
  ASSUME NEW D, NEW pairs,
         \A p \in pairs : p \in Docs \X Docs /\ UsableIn(D, p[1]) /\ UsableIn(D, p[2]),
         NEW l \in RuleLinks(pairs)
  PROVE  /\ Ends(D, l) /\ l.origin = "rule"
         /\ \E p \in pairs : l.up = p[1] /\ l.down = p[2]
<1>1. PICK p \in pairs : l = [up |-> p[1], down |-> p[2], kind |-> "depends_on", origin |-> "rule"]
  BY DEF RuleLinks
<1>2. p[1] \in Docs /\ p[2] \in Docs
  OBVIOUS
<1> QED BY <1>1, <1>2 DEF Ends, LinkRows, Kinds

LEMMA SetTypeFits ==
  ASSUME GraphInv, NEW t \in Txs, NEW r \in TypeRequests, SetType(t, r.doc, r.type)
  PROVE  GraphInv'
<1> DEFINE d == r.doc
           row == [doc[d] EXCEPT !.type = r.type]
<1>0. d \in Docs /\ r.type \in Types /\ RowsFit /\ doc \in Rows
  BY RequestsAssumption DEF GraphInv, RowsFit
<1>1. /\ AtOnce(t) /\ MayUpdate(t, {d}) /\ Record(checkExpiryAround(links, d)')
      /\ doc' = [doc EXCEPT ![d] = row] /\ (rule = "active" => MayInsertLinks(t))
  BY <1>0 DEF SetType, Editable
<1>2. /\ row \in DocumentRows /\ row.state = doc[d].state /\ row.revoked = doc[d].revoked
      /\ row.supersedes = doc[d].supersedes
  BY <1>0 DEF Rows, DocumentRows
<1>a. PICK made \in SUBSET IF rule = "active" THEN RuleLinks(RulePairs({d})') ELSE {} :
        /\ rule = "active" => apply_document_link_rule(links, links \cup made, RulePairs({d})')
        /\ links' = links \cup made
  BY DEF SetType
<1> HIDE DEF row
<1>3. doc' \in Rows /\ doc'[d] = row /\ \A s \in Docs \ {d} : doc'[s] = doc[s]
  BY <1>0, <1>1, <1>2, RowChanged
<1>4. \A s \in Docs : doc'[s].supersedes = doc[s].supersedes /\ (UsableIn(doc', s) <=> UsableIn(doc, s))
  BY <1>2, <1>3 DEF UsableIn
<1>5. Lines(doc')
  BY <1>0, <1>3, <1>4, LinesStay DEF RowsFit
<1>6. ASSUME NEW l \in made PROVE Ends(doc', l) /\ l.origin = "rule" /\ (l.up = d \/ l.down = d)
  <2>1. l \in RuleLinks(RulePairs({d})')
    OBVIOUS
  <2>2. \A p \in RulePairs({d})' : /\ p \in Docs \X Docs /\ UsableIn(doc', p[1]) /\ UsableIn(doc', p[2])
                                   /\ p[1] = d \/ p[2] = d
    BY DEF RulePairs, Linkable, usable, UsableIn
  <2> HIDE DEF d
  <2>3. PICK pairs : pairs = RulePairs({d})'
    OBVIOUS
  <2>4. Ends(doc', l) /\ l.origin = "rule" /\ \E p \in pairs : l.up = p[1] /\ l.down = p[2]
    BY <2>1, <2>2, <2>3, RuleLinksFit
  <2> QED BY <2>2, <2>3, <2>4
<1> HIDE DEF d
<1>7. \A l \in links' : Ends(doc', l)
  <2>1. \A l \in links : Ends(doc', l)
    BY <1>0, <1>4 DEF RowsFit, Ends, LinkRows
  <2> QED BY <1>a, <1>6, <2>1
<1>8. ~HasLoop(links') /\ (links' = links \/ MayInsertLinks(t))
  <2>1. CASE rule = "active"
    BY <1>1, <1>a, <2>1 DEF apply_document_link_rule
  <2>2. CASE rule # "active"
    <3>1. links' = links
      BY <1>a, <2>2
    <3> QED BY <1>0, <3>1 DEF RowsFit
  <2> QED BY <2>1, <2>2
<1>9. links \subseteq links' /\ \A l \in links' \ links : l.origin # "user" /\ (l.up = d \/ l.down = d)
  BY <1>a, <1>6
<1> QED BY <1>0, <1>1, <1>2, <1>3, <1>5, <1>7, <1>8, <1>9, ProfileChanges
LEMMA SetSupersedesFits ==
  ASSUME GraphInv, NEW t \in Txs, NEW r \in ReplaceRequests, SetSupersedes(t, r.doc, r.target)
  PROVE  GraphInv'
<1> DEFINE d == r.doc
           target == r.target
           next == [doc[d] EXCEPT !.supersedes = target]
<1>0. /\ d \in Docs /\ target \in Docs /\ RowsFit /\ doc \in Rows /\ None \notin Docs
      /\ Lines(doc)
  BY RequestsAssumption, DocumentsAssumption DEF GraphInv, RowsFit
<1>1. /\ Begin(t) /\ MayUpdate(t, {d}) /\ MayUpdate(t, {target}) /\ MaySetVersion(t)
      /\ doc[d].supersedes = None /\ links' = links /\ advisory' = advisory
      /\ target # d /\ target \notin LaterIn(doc, d)
      /\ ~\E s \in Docs \ {d} : doc[s].supersedes = target /\ UsableIn(doc, s)
  BY DEF SetSupersedes, Editable, assertReplaceable, LaterVersions, replaces, usable, UsableIn
<1>2. Replaceable(doc, d, target)
  BY <1>0, <1>1 DEF Replaceable
<1>3. /\ next \in DocumentRows /\ next.state = doc[d].state /\ next.revoked = doc[d].revoked
      /\ next.supersedes = target
  BY <1>0 DEF Rows, DocumentRows
<1>4. CASE TakesEffect(doc[d], next)
  <2>1. /\ tx' = [tx EXCEPT ![t] =
                    [op |-> "walked", update |-> {d, target}, share |-> {}, self |-> d,
                     next |-> next, effect |-> SupersedeWalk(target)]]
        /\ doc' = doc /\ recorded' = recorded /\ open' = open
    BY <1>4 DEF SetSupersedes
  <2>2. doc[d].state = "promoted"
    BY <1>3, <1>4 DEF TakesEffect
  <2>3. NextFits(doc, d, next)
    BY <1>1, <1>2, <1>3, <2>2 DEF NextFits
  <2>4. MayUpdate(t, {d, target})
    BY <1>1 DEF MayUpdate
  <2> HIDE DEF next
  <2> QED BY <1>0, <1>1, <2>1, <2>3, <2>4, VersionBegins
<1>5. CASE ~TakesEffect(doc[d], next)
  <2>1. doc' = [doc EXCEPT ![d] = next] /\ tx' = tx
    BY <1>5 DEF SetSupersedes
  <2> HIDE DEF next
  <2>2. doc' \in Rows /\ doc'[d] = next /\ \A s \in Docs \ {d} : doc'[s] = doc[s]
    BY <1>0, <1>3, <2>1, RowChanged
  <2>3. Record(checkExpiryAround(links, d)')
    <3>1. doc' # doc
      BY <1>0, <1>1, <1>3, <2>2
    <3> QED BY <3>1 DEF SetSupersedes
  <2>4. Lines(doc')
    <3>1. \A s \in Docs : UsableIn(doc', s) <=> UsableIn(doc, s)
      BY <1>3, <2>2 DEF UsableIn
    <3>2. doc'[d].supersedes = target /\ \A s \in Docs \ {d} : doc'[s].supersedes = doc[s].supersedes
      BY <1>3, <2>2
    <3> QED BY <1>0, <1>1, <1>2, <2>2, <3>1, <3>2, LineGoesOn
  <2>5. (\A l \in links' : Ends(doc', l)) /\ ~HasLoop(links')
    BY <1>0, <1>1, <1>3, <2>2 DEF RowsFit, Ends, LinkRows, UsableIn
  <2>6. AtOnce(t)
    BY <1>1, <2>1 DEF AtOnce
  <2> QED BY <1>0, <1>1, <1>3, <2>2, <2>3, <2>4, <2>5, <2>6, ProfileChanges
<1> QED BY <1>4, <1>5

LEMMA PromoteFits ==
  ASSUME GraphInv, NEW t \in Txs, NEW d \in Docs, PromoteDocument(t, d)
  PROVE  GraphInv'
<1> DEFINE next == [doc[d] EXCEPT !.state = "promoted"]
<1>0. RowsFit /\ ImpactsFit /\ doc \in Rows /\ Lines(doc)
  BY DEF GraphInv, RowsFit
<1>1. /\ Begin(t) /\ MayUpdate(t, {d}) /\ doc[d].state = "scanned_clean"
      /\ links' = links /\ recorded' = recorded /\ open' = open /\ advisory' = advisory
  BY DEF PromoteDocument
<1>2. /\ next \in DocumentRows /\ next.state = "promoted" /\ next.revoked = doc[d].revoked
      /\ next.supersedes = doc[d].supersedes /\ next.validUntil = doc[d].validUntil
  BY <1>0 DEF Rows, DocumentRows
<1>3. CASE TakesEffect(doc[d], next)
  <2>1. /\ tx' = [tx EXCEPT ![t] =
                    [op |-> "walked", update |-> {d}, share |-> {}, self |-> d,
                     next |-> next, effect |-> SupersedeWalk(next.supersedes)]]
        /\ doc' = doc
    BY <1>3 DEF PromoteDocument
  <2>2. doc[d].supersedes # None
    BY <1>2, <1>3 DEF TakesEffect
  <2>3. NextFits(doc, d, next)
    BY <1>1, <2>2 DEF NextFits
  <2> HIDE DEF next
  <2> QED BY <1>0, <1>1, <2>1, <2>2, <2>3, VersionBegins
<1>4. CASE ~TakesEffect(doc[d], next)
  <2>1. doc' = [doc EXCEPT ![d] = next] /\ tx' = tx
    BY <1>4 DEF PromoteDocument
  <2> HIDE DEF next
  <2>2. doc' \in Rows /\ doc'[d] = next /\ \A s \in Docs \ {d} : doc'[s] = doc[s]
    BY <1>0, <1>2, <2>1, RowChanged
  <2>3. \A s \in Docs : /\ UsableIn(doc', s) <=> UsableIn(doc, s)
                        /\ doc'[s].supersedes = doc[s].supersedes
                        /\ doc'[s].revoked = doc[s].revoked
                        /\ doc'[s].validUntil = doc[s].validUntil
                        /\ ReplacedIn(doc, s) => ReplacedIn(doc', s)
    BY <1>1, <1>2, <2>2 DEF UsableIn, ReplacedIn, UNUSABLE_STATES
  <2>4. Lines(doc')
    <3>1. \A s \in Docs : /\ doc'[s].supersedes = doc[s].supersedes
                          /\ UsableIn(doc', s) <=> UsableIn(doc, s)
      BY <2>3
    <3> QED BY <1>0, <2>2, <3>1, LinesStay
  <2>5. AtOnce(t) /\ today' = today /\ (overlapped => overlapped')
    BY <1>1, <2>1 DEF AtOnce, Begin
  <2>6. \A l \in links' : Ends(doc', l)
    BY <1>0, <1>1, <2>3 DEF RowsFit, Ends, LinkRows
  <2>7. RowsFit'
    BY <1>0, <1>1, <2>1, <2>2, <2>4, <2>5, <2>6 DEF RowsFit, running
  <2>8. RequestsFit' /\ CarriedInOrder' /\ SweepsFit'
    BY <1>1, <2>2, <2>3, <2>5, OthersFindTheirRows
  <2>9. ImpactsFit'
    BY <1>0, <1>1, <2>2, <2>3, <2>5, <2>6, ImpactsAsTheyWere
  <2> QED BY <2>7, <2>8, <2>9 DEF GraphInv
<1> QED BY <1>3, <1>4

\* A request under way ends, and the documents are as they were.
LEMMA RequestEnds ==
  ASSUME GraphInv, NEW t \in Txs, Proceed(t), End(t), doc' = doc,
         links \subseteq links', links' = links \/ MayInsertLinks(t),
         \A l \in links' : Ends(doc, l), ~HasLoop(links'), open' \subseteq recorded',
         ImpactsFit'
  PROVE  GraphInv'
<1>0. RowsFit /\ doc \in Rows /\ today' = today
  BY DEF GraphInv, RowsFit, Proceed
<1>1. \A s \in Txs \ {t} : Kept(doc, doc', tx[s])
  BY DEF Kept
<1>2. /\ RequestsFit' /\ CarriedInOrder' /\ SweepsFit'
      /\ advisory' # None => advisory' \in Txs /\ running(advisory)'
  BY <1>0, <1>1, OthersGoOn DEF MayInsertLinks
<1>3. RowsFit'
  BY <1>0, <1>2 DEF RowsFit
<1> QED BY <1>2, <1>3 DEF GraphInv

LEMMA AbortFits ==
  ASSUME GraphInv, NEW t \in Txs, Abort(t)
  PROVE  GraphInv'
<1>1. /\ Proceed(t) /\ End(t) /\ doc' = doc /\ links' = links /\ recorded' = recorded /\ open' = open
      /\ today' = today /\ overlapped' = overlapped
  BY DEF Abort, Proceed
<1>2. ImpactsFit'
  BY <1>1 DEF GraphInv, ImpactsFit
<1>3. (\A l \in links' : Ends(doc, l)) /\ ~HasLoop(links') /\ open' \subseteq recorded'
  BY <1>1 DEF GraphInv, RowsFit
<1> QED BY <1>1, <1>2, <1>3, RequestEnds

LEMMA SweepCommitFits ==
  ASSUME GraphInv, NEW t \in Txs, SweepCommit(t)
  PROVE  GraphInv'
<1> DEFINE found == tx[t].found
<1>1. /\ Proceed(t) /\ End(t) /\ doc' = doc /\ links' = links /\ tx[t].op = "sweep"
      /\ recorded' = recorded \cup found /\ open' = open \cup (found \ recorded)
      /\ today' = today /\ overlapped' = overlapped
  BY DEF SweepCommit, Proceed, Record
<1>2. RowsFit /\ ImpactsFit /\ Dated(doc, found, today) /\ (~overlapped => Complete(doc, links, found))
  BY <1>1 DEF GraphInv, SweepsFit
<1> HIDE DEF found
<1>3. Dated(doc, recorded', today) /\ RevocationTold(doc, links, recorded')
  BY <1>1, <1>2 DEF ImpactsFit, Dated, RevocationTold
<1>4. ASSUME ~overlapped PROVE ExpiryTold(doc, links, recorded')
  <2> SUFFICES ASSUME NEW o \in Docs, NEW d \in document_impact_targets(Plain(links), o),
                      Impact(o, o, "expired", doc[o].validUntil) \in recorded',
                      ~doc[o].revoked, ~ReplacedIn(doc, o), ~doc[d].revoked
               PROVE  Impact(d, o, "expired", doc[o].validUntil) \in recorded'
    BY DEF ExpiryTold
  <2>1. CASE Impact(o, o, "expired", doc[o].validUntil) \in recorded
    BY <1>1, <1>2, <1>4, <2>1 DEF ImpactsFit, ExpiryTold
  <2>2. CASE Impact(o, o, "expired", doc[o].validUntil) \in found
    <3>1. links \in SUBSET LinkRows /\ Plain(links) \in SUBSET LinkRows /\ Plain(links) \subseteq links
      BY <1>2 DEF RowsFit, Ends, Plain
    <3>2. d \in document_impact_targets(links, o)
      BY <3>1, TargetsGrow
    <3>3. \E l \in links : l.down = d
      BY <3>1, <3>2, TargetHasLink
    <3>4. UsableIn(doc, d)
      BY <1>2, <3>3 DEF RowsFit, Ends
    <3> QED BY <1>1, <1>2, <1>4, <2>2, <3>2, <3>4 DEF Complete
  <2> QED BY <1>1, <2>1, <2>2
<1>5. ImpactsFit'
  BY <1>1, <1>3, <1>4 DEF ImpactsFit
<1>6. (\A l \in links' : Ends(doc, l)) /\ ~HasLoop(links') /\ open' \subseteq recorded'
  BY <1>1, <1>2 DEF RowsFit
<1> QED BY <1>1, <1>5, <1>6, RequestEnds
LEMMA CreateLinkInsertFits ==
  ASSUME GraphInv, NEW t \in Txs, CreateLinkInsert(t)
  PROVE  GraphInv'
<1> DEFINE l == tx[t].link
           ds == Above(links', l.down)
           found == detect_document_expiry(links', ds)
           no == {}
<1>0. RowsFit /\ ImpactsFit /\ links \in SUBSET LinkRows
  BY DEF GraphInv, RowsFit, Ends
<1>1. /\ Proceed(t) /\ End(t) /\ doc' = doc /\ links' = links \cup {l} /\ tx[t].op = "link"
      /\ MayInsertLinks(t) /\ Insertable(links, l)
      /\ recorded' = recorded \cup found /\ open' = open \cup (found \ recorded)
      /\ today' = today /\ overlapped' = overlapped
  BY DEF CreateLinkInsert, Proceed, Record, checkExpiryAround
<1>2. /\ Ends(doc, l) /\ l \in LinkRows /\ l.down \in Docs
      /\ ~doc[l.up].revoked /\ ~doc[l.down].revoked
  BY <1>1 DEF GraphInv, RequestsFit, Fits, LinkFits, Ends, LinkRows
<1> HIDE DEF l
<1>3. ~HasLoop(links')
  BY <1>0, <1>1, <1>2, OneLinkMore DEF RowsFit
<1>4. Found(doc', today, links', ds, found)
  BY <1>1, CheckFinds, CheckReads
<1>5. links' \in SUBSET LinkRows /\ \A k \in links' : Ends(doc, k)
  BY <1>0, <1>1, <1>2 DEF RowsFit
<1>6. ds \in SUBSET Docs /\ \A k \in links' : k.down = l.down => Above(links', k.up) \subseteq ds
  BY <1>2, <1>5, AboveHolds
<1>7. /\ recorded' = recorded \cup no \cup found /\ \A i \in no : i.cause # "expired"
      /\ open' \subseteq recorded'
  BY <1>0, <1>1 DEF RowsFit
<1>8. \A k \in Plain(links') \ links : Above(links', k.up) \subseteq ds
  BY <1>1, <1>6 DEF Plain
<1>9. ImpactsFit'
  <2>1. /\ doc' \in Rows /\ \A k \in links' : Ends(doc', k)
        /\ \A s \in Docs : /\ UsableIn(doc, s) => UsableIn(doc', s)
                           /\ doc'[s].revoked = doc[s].revoked
                           /\ ReplacedIn(doc, s) => ReplacedIn(doc', s)
        /\ \A s \in Docs : doc'[s].validUntil # doc[s].validUntil => s \in ds
    BY <1>0, <1>1, <1>5 DEF RowsFit
  <2>2. \A k \in links' \ links : k.origin = "user" => ~doc'[k.up].revoked
    BY <1>1, <1>2
  <2> HIDE DEF no, found, ds
  <2> QED BY <1>0, <1>1, <1>4, <1>6, <1>7, <1>8, <2>1, <2>2, ImpactsStay
<1> HIDE DEF found, ds
<1> QED BY <1>1, <1>3, <1>5, <1>7, <1>9, RequestEnds

LEMMA CreateRuleInsertFits ==
  ASSUME GraphInv, NEW t \in Txs, CreateRuleInsert(t)
  PROVE  GraphInv'
<1> DEFINE pairs == tx[t].pairs
           no == {}
<1>0. RowsFit /\ ImpactsFit /\ links \in SUBSET LinkRows
  BY DEF GraphInv, RowsFit, Ends
<1>1. /\ Proceed(t) /\ End(t) /\ doc' = doc /\ tx[t].op = "rule" /\ MayInsertLinks(t)
      /\ today' = today /\ overlapped' = overlapped
  BY DEF CreateRuleInsert, Proceed
<1>a. PICK made \in SUBSET RuleLinks(pairs) :
        /\ apply_document_link_rule(links, links \cup made, pairs)
        /\ links' = links \cup made
        /\ Record(UNION {detect_document_expiry(links', Above(links', l.up)) : l \in made})
  BY DEF CreateRuleInsert
<1> DEFINE found == UNION {detect_document_expiry(links', Above(links', l.up)) : l \in made}
           ds == UNION {Above(links', l.up) : l \in made}
<1>2. \A p \in pairs : p \in Docs \X Docs /\ UsableIn(doc, p[1]) /\ UsableIn(doc, p[2])
  BY <1>1 DEF GraphInv, RequestsFit, Fits, RuleFits
<1> HIDE DEF pairs
<1>3. \A l \in made : Ends(doc, l) /\ l.origin = "rule"
  BY <1>2, RuleLinksFit
<1>4. links' \in SUBSET LinkRows /\ \A k \in links' : Ends(doc, k)
  BY <1>0, <1>a, <1>3 DEF RowsFit, Ends
<1>5. ~HasLoop(links')
  BY <1>a DEF apply_document_link_rule
<1>6. \A l \in made :
        Found(doc', today, links', Above(links', l.up), detect_document_expiry(links', Above(links', l.up)))
  BY <1>1, CheckFinds, CheckReads
<1>7. Found(doc', today, links', ds, found)
  <2>1. ASSUME NEW i \in found
        PROVE  /\ i.cause = "expired" /\ i.origin \in ds /\ Due(doc', today, i.origin)
               /\ i.date = doc'[i.origin].validUntil
    <3>1. PICK l \in made : i \in detect_document_expiry(links', Above(links', l.up))
      OBVIOUS
    <3> QED BY <1>6, <3>1 DEF Found
  <2>2. ASSUME NEW o \in ds, Due(doc', today, o)
        PROVE  /\ Impact(o, o, "expired", doc'[o].validUntil) \in found
               /\ \A s \in document_impact_targets(links', o) :
                    UsableIn(doc', s) /\ ~doc'[s].revoked
                      => Impact(s, o, "expired", doc'[o].validUntil) \in found
    <3>1. PICK l \in made : o \in Above(links', l.up)
      OBVIOUS
    <3>2. detect_document_expiry(links', Above(links', l.up)) \subseteq found
      OBVIOUS
    <3> HIDE DEF found
    <3> QED BY <1>6, <2>2, <3>1, <3>2 DEF Found
  <2> HIDE DEF found, ds
  <2> QED BY <2>1, <2>2 DEF Found
<1>8. ds \in SUBSET Docs
  <2>1. \A l \in made : l.up \in Docs /\ Above(links', l.up) \in SUBSET Docs
    BY <1>3, <1>4, AboveHolds DEF Ends, LinkRows
  <2> QED BY <2>1
<1>9. /\ recorded' = recorded \cup no \cup found /\ \A i \in no : i.cause # "expired"
      /\ open' \subseteq recorded'
  <2>1. recorded' = recorded \cup found /\ open' = open \cup (found \ recorded)
    BY <1>a DEF Record
  <2> HIDE DEF found
  <2> QED BY <1>0, <2>1 DEF RowsFit
<1>10. \A k \in Plain(links') \ links : Above(links', k.up) \subseteq ds
  BY <1>a DEF Plain
<1> HIDE DEF found, ds
<1>11. ImpactsFit'
  <2>1. /\ doc' \in Rows /\ \A k \in links' : Ends(doc', k)
        /\ \A s \in Docs : /\ UsableIn(doc, s) => UsableIn(doc', s)
                           /\ doc'[s].revoked = doc[s].revoked
                           /\ ReplacedIn(doc, s) => ReplacedIn(doc', s)
        /\ \A s \in Docs : doc'[s].validUntil # doc[s].validUntil => s \in ds
    BY <1>0, <1>1, <1>4 DEF RowsFit
  <2>2. \A k \in links' \ links : k.origin = "user" => ~doc'[k.up].revoked
    BY <1>a, <1>3
  <2> HIDE DEF no
  <2> QED BY <1>0, <1>1, <1>7, <1>8, <1>9, <1>10, <2>1, <2>2, ImpactsStay
<1>12. links \subseteq links'
  BY <1>a
<1> QED BY <1>1, <1>4, <1>5, <1>9, <1>11, <1>12, RequestEnds

\* What the request carries over has usable ends: the new version is promoted.
LEMMA CarriedFits ==
  ASSUME RowsFit, NEW d \in Docs, NEW next, NextFits(doc, d, next),
         NEW l \in CarriedLinks(next.supersedes, d)
  PROVE  Ends(doc, l) /\ l.origin = "carried_over"
<1>1. PICK k \in links : l = Renamed(k, next.supersedes, d)
  BY DEF CarriedLinks, Carried, Touching
<1>2. Ends(doc, k) /\ UsableIn(doc, d)
  BY DEF RowsFit, NextFits, UsableIn, UNUSABLE_STATES
<1> QED BY <1>1, <1>2 DEF Renamed, Ends, LinkRows

LEMMA SupersedeCarryFits ==
  ASSUME GraphInv, NEW t \in Txs, SupersedeCarry(t)
  PROVE  GraphInv'
<1> DEFINE x == tx[t]
           moved == CarriedLinks(x.next.supersedes, x.self)
           y == [op |-> "carried", update |-> x.update, share |-> {}, self |-> x.self,
                 next |-> x.next, moved |-> moved, effect |-> x.effect]
<1>0. /\ RowsFit /\ RequestsFit /\ CarriedInOrder /\ ImpactsFit /\ SweepsFit
      /\ doc \in Rows
  BY DEF GraphInv, RowsFit
<1>1. /\ running(t) /\ x.op = "walked" /\ (moved # {} => MayInsertLinks(t)) /\ ~HasLoop(links \cup moved)
      /\ tx' = [tx EXCEPT ![t] = y] /\ advisory' = IF moved # {} THEN t ELSE advisory
      /\ doc' = doc /\ links' = links /\ recorded' = recorded /\ open' = open
      /\ today' = today /\ overlapped' = overlapped
  BY DEF SupersedeCarry, Proceed
<1>2. /\ x.update \subseteq Docs /\ VersionFits(doc, x)
      /\ \A s \in Txs \ {t} : Apart(tx[s], x) /\ Apart(x, tx[s]) /\ OneSetsVersion(doc, tx[s], x)
  BY <1>0, <1>1 DEF RequestsFit, Fits, Replacing
<1>3. /\ y.op = "carried" /\ y.update = x.update /\ y.share = {} /\ y.self = x.self
      /\ y.next = x.next /\ y.moved = moved /\ y.effect = x.effect
  OBVIOUS
<1>4. \A l \in moved : Ends(doc, l) /\ l.origin = "carried_over"
  BY <1>0, <1>2, CarriedFits DEF VersionFits
<1> HIDE DEF y, moved
<1>5. Fits(doc', y)
  BY <1>1, <1>2, <1>3, <1>4 DEF Fits, VersionFits, Replacing
<1>6. \A s \in Txs \ {t} : /\ Apart(tx[s], y) /\ Apart(y, tx[s]) /\ OneSetsVersion(doc', tx[s], y)
                           /\ Kept(doc, doc', tx[s])
  BY <1>1, <1>2, <1>3 DEF Apart, OneSetsVersion, Kept, Replacing
<1>7. RequestsFit'
  BY <1>0, <1>1, <1>5, <1>6, RequestsStay
<1>8. CarriedInOrder'
  BY <1>0, <1>1, <1>3, CarriedStays DEF MayInsertLinks
<1>9. SweepsFit'
  BY <1>0, <1>1, <1>3, SweepsStay
<1>10. RowsFit'
  <2>1. tx' = [s \in Txs |-> IF s = t THEN y ELSE tx[s]]
    BY <1>0, <1>1 DEF RequestsFit
  <2> QED BY <1>0, <1>1, <1>3, <2>1 DEF RowsFit, running
<1>11. ImpactsFit'
  BY <1>0, <1>1 DEF ImpactsFit
<1> QED BY <1>7, <1>8, <1>9, <1>10, <1>11 DEF GraphInv
LEMMA SupersedeCommitFits ==
  ASSUME GraphInv, NEW t \in Txs, SupersedeCommit(t)
  PROVE  GraphInv'
<1>a. PICK d \in Docs :
        /\ Proceed(t)
        /\ tx[t].op = "carried" /\ tx[t].self = d
        /\ doc' = [doc EXCEPT ![d] = tx[t].next]
        /\ links' = (links \ Touching(links, tx[t].next.supersedes)) \cup tx[t].moved
        /\ LET expired == IF doc[d].state = "promoted" THEN checkExpiryAround(links, d)' ELSE {}
               new == (tx[t].effect.walked \cup expired) \ recorded
           IN /\ recorded' = recorded \cup new
              /\ open' = (open \ tx[t].effect.revised) \cup new
        /\ End(t)
  BY DEF SupersedeCommit
<1> DEFINE x == tx[t]
           walked == x.effect.walked
           found == IF doc[d].state = "promoted" THEN checkExpiryAround(links, d)' ELSE {}
           ds == IF doc[d].state = "promoted" THEN Above(links', d) ELSE {}
<1>0. /\ RowsFit /\ RequestsFit /\ CarriedInOrder /\ ImpactsFit /\ doc \in Rows /\ Lines(doc)
      /\ None \notin Docs
  BY DocumentsAssumption DEF GraphInv, RowsFit
<1>1. /\ Proceed(t) /\ End(t) /\ today' = today /\ overlapped' = overlapped
      /\ recorded' = recorded \cup ((walked \cup found) \ recorded)
      /\ open' = (open \ x.effect.revised) \cup ((walked \cup found) \ recorded)
  BY <1>a DEF Proceed
<1>2. /\ d \in x.update /\ NextFits(doc, d, x.next) /\ (\A i \in walked : i.cause = "superseded")
      /\ \A l \in x.moved : Ends(doc, l) /\ l.origin = "carried_over"
  BY <1>0, <1>a DEF RequestsFit, Fits, VersionFits, Replacing
<1>3. /\ x.next \in DocumentRows /\ x.next.state = "promoted" /\ x.next.revoked = doc[d].revoked
      /\ x.next.validUntil = doc[d].validUntil /\ UsableIn(doc, d)
      /\ \/ x.next.supersedes = doc[d].supersedes
         \/ doc[d].supersedes = None /\ Replaceable(doc, d, x.next.supersedes)
  BY <1>0, <1>2 DEF NextFits, Rows, DocumentRows, UsableIn, UNUSABLE_STATES, Replaceable
<1>4. doc' \in Rows /\ doc'[d] = x.next /\ \A s \in Docs \ {d} : doc'[s] = doc[s]
  BY <1>0, <1>3, <1>a, RowChanged
<1>5. \A s \in Docs : /\ UsableIn(doc', s) <=> UsableIn(doc, s)
                      /\ doc'[s].revoked = doc[s].revoked
                      /\ doc'[s].validUntil = doc[s].validUntil
                      /\ ReplacedIn(doc, s) => ReplacedIn(doc', s)
  <2>1. UsableIn(doc', d)
    BY <1>3, <1>4 DEF UsableIn, UNUSABLE_STATES
  <2>2. \A s \in Docs : UsableIn(doc', s) <=> UsableIn(doc, s)
    BY <1>3, <1>4, <2>1 DEF UsableIn
  <2>3. \A s \in Docs : doc'[s].revoked = doc[s].revoked /\ doc'[s].validUntil = doc[s].validUntil
    BY <1>3, <1>4
  <2>4. ASSUME NEW s \in Docs, ReplacedIn(doc, s) PROVE ReplacedIn(doc', s)
    <3>1. PICK r \in Docs : doc[r].supersedes = s /\ doc[r].state = "promoted"
      BY <2>4 DEF ReplacedIn
    <3>2. doc'[r].supersedes = s /\ doc'[r].state = "promoted"
      BY <1>0, <1>3, <1>4, <3>1
    <3> QED BY <3>2 DEF ReplacedIn
  <2> QED BY <2>2, <2>3, <2>4
<1>6. Lines(doc')
  <2>1. CASE x.next.supersedes = doc[d].supersedes
    <3>1. \A s \in Docs : /\ doc'[s].supersedes = doc[s].supersedes
                          /\ UsableIn(doc', s) <=> UsableIn(doc, s)
      BY <1>4, <1>5, <2>1
    <3> QED BY <1>0, <1>4, <3>1, LinesStay
  <2>2. CASE doc[d].supersedes = None /\ Replaceable(doc, d, x.next.supersedes)
    <3>1. \A s \in Docs : UsableIn(doc', s) <=> UsableIn(doc, s)
      BY <1>5
    <3>2. /\ doc'[d].supersedes = x.next.supersedes
          /\ \A s \in Docs \ {d} : doc'[s].supersedes = doc[s].supersedes
      BY <1>4
    <3> QED BY <1>0, <1>4, <2>2, <3>1, <3>2, LineGoesOn
  <2> QED BY <1>3, <2>1, <2>2
<1>7. ASSUME NEW s \in Txs \ {t} PROVE Kept(doc, doc', tx[s])
  <2>1. Apart(x, tx[s]) /\ OneSetsVersion(doc, x, tx[s])
    BY <1>0 DEF RequestsFit
  <2>2. ASSUME NEW e \in tx[s].update \cup tx[s].share PROVE doc'[e] = doc[e]
    <3>1. e \in Docs
      BY <1>0 DEF RequestsFit, Fits
    <3> QED BY <1>2, <1>4, <2>1, <3>1 DEF Apart
  <2>3. \/ \A e \in Docs : doc'[e].supersedes = doc[e].supersedes
        \/ tx[s].op \in Replacing => doc[tx[s].self].supersedes # None
    <3>1. x.op \in Replacing /\ x.self = d
      BY <1>a DEF Replacing
    <3> QED BY <1>3, <1>4, <2>1, <3>1 DEF OneSetsVersion
  <2> QED BY <1>5, <2>2, <2>3 DEF Kept
<1>8. links \in SUBSET LinkRows /\ x.moved \in SUBSET LinkRows /\ links' \in SUBSET LinkRows
      /\ links' \subseteq links \cup x.moved
  BY <1>0, <1>2, <1>a DEF RowsFit, Ends
<1>9. \A l \in links' : Ends(doc', l)
  <2>1. \A l : Ends(doc, l) => Ends(doc', l)
    BY <1>5 DEF Ends, LinkRows
  <2> QED BY <1>0, <1>2, <1>8, <2>1 DEF RowsFit
<1>10. ~HasLoop(links') /\ (links' \subseteq links \/ advisory \in {None, t})
  <2>1. CASE x.moved = {}
    <3>1. links' \subseteq links
      BY <1>8, <2>1
    <3> QED BY <1>0, <1>8, <3>1, FewerLinks DEF RowsFit
  <2>2. CASE x.moved # {}
    <3>1. advisory = t /\ ~HasLoop(links \cup x.moved)
      BY <1>0, <1>a, <2>2 DEF CarriedInOrder
    <3>2. links \cup x.moved \in SUBSET LinkRows
      BY <1>8
    <3> QED BY <1>8, <3>1, <3>2, FewerLinks
  <2> QED BY <2>1, <2>2
<1>11. /\ RequestsFit' /\ CarriedInOrder' /\ SweepsFit'
       /\ advisory' # None => advisory' \in Txs /\ running(advisory)'
  <2>1. \A s \in Docs : UsableIn(doc', s) <=> UsableIn(doc, s)
    BY <1>5
  <2> HIDE DEF x
  <2> QED BY <1>1, <1>4, <1>7, <1>10, <2>1, OthersGoOn
<1>12. RowsFit'
  <2>1. open' \subseteq recorded' /\ today' \in Nat
    BY <1>0, <1>1 DEF RowsFit
  <2> QED BY <1>4, <1>6, <1>9, <1>10, <1>11, <2>1 DEF RowsFit
<1>13. Found(doc', today, links', ds, found) /\ ds \in SUBSET Docs
  <2>1. CASE doc[d].state = "promoted"
    <3>1. Above(links', d) \in SUBSET Docs
      BY <1>8, AboveHolds
    <3>2. Found(doc', today', links', Above(links', d), checkExpiryAround(links, d)')
      BY CheckFinds, CheckReadsThen
    <3> QED BY <1>1, <2>1, <3>1, <3>2
  <2>2. CASE doc[d].state # "promoted"
    BY <2>2, NothingFound
  <2> QED BY <2>1, <2>2
<1>14. recorded' = recorded \cup walked \cup found /\ \A i \in walked : i.cause # "expired"
  BY <1>1, <1>2
<1>15. \A l \in Plain(links') \ links : Above(links', l.up) \subseteq ds
  BY <1>2, <1>8 DEF Plain
<1>16. \A l \in links' \ links : l.origin = "user" => ~doc'[l.up].revoked
  BY <1>2, <1>8
<1>17. /\ \A s \in Docs : /\ UsableIn(doc, s) => UsableIn(doc', s)
                          /\ doc'[s].revoked = doc[s].revoked
                          /\ ReplacedIn(doc, s) => ReplacedIn(doc', s)
       /\ \A s \in Docs : doc'[s].validUntil # doc[s].validUntil => s \in ds
  BY <1>5
<1> HIDE DEF found, ds, walked, x
<1>18. ImpactsFit'
  BY <1>0, <1>1, <1>4, <1>9, <1>13, <1>14, <1>15, <1>16, <1>17, ImpactsStay
<1> QED BY <1>11, <1>12, <1>18 DEF GraphInv

LEMMA NextDayFits == GraphInv /\ NextDay => GraphInv'
<1> SUFFICES ASSUME GraphInv, NextDay PROVE GraphInv'
  OBVIOUS
<1>1. /\ today \in Nat /\ today' = today + 1 /\ doc' = doc /\ links' = links /\ recorded' = recorded
      /\ open' = open /\ tx' = tx /\ advisory' = advisory /\ overlapped' = overlapped
  BY DEF NextDay, GraphInv, RowsFit
<1>2. ASSUME NEW impacts, Dated(doc, impacts, today) PROVE Dated(doc, impacts, today')
  BY <1>1, <1>2 DEF Dated
<1>3. RowsFit'
  BY <1>1 DEF GraphInv, RowsFit, running
<1>4. RequestsFit' /\ CarriedInOrder'
  BY <1>1 DEF GraphInv, RequestsFit, CarriedInOrder
<1>5. ImpactsFit' /\ SweepsFit'
  BY <1>1, <1>2 DEF GraphInv, ImpactsFit, SweepsFit, running
<1> QED BY <1>3, <1>4, <1>5 DEF GraphInv

LEMMA GraphStarts == DocumentInit => GraphInv
<1> SUFFICES ASSUME DocumentInit PROVE GraphInv
  OBVIOUS
<1>1. /\ doc \in InitDocs /\ links \in InitLinks /\ recorded = {} /\ open = {} /\ advisory = None
      /\ tx = [t \in Txs |-> idle] /\ today = 1
  BY DEF DocumentInit
<1>2. /\ doc \in Rows /\ (\A d \in Docs : ~doc[d].revoked) /\ Lines(doc)
      /\ links \in SUBSET LinkRows /\ ~HasLoop(links)
  BY <1>1, StartsAssumption DEF Rows, Lines, LinkRows
<1>3. \A l \in links : Ends(doc, l)
  <2>1. \A l \in links : l \in UNION InitLinks
    BY <1>1
  <2> QED BY <1>1, <1>2, <2>1, StartsAssumption DEF Ends, UsableIn
<1>4. RowsFit
  BY <1>1, <1>2, <1>3 DEF RowsFit
<1>5. idle.op = "idle" /\ idle.update = {} /\ idle.share = {}
  BY DEF idle
<1>6. \A t \in Txs : tx[t] = idle
  BY <1>1
<1>7. Fits(doc, idle) /\ Apart(idle, idle) /\ OneSetsVersion(doc, idle, idle)
  BY <1>5 DEF Fits, Replacing, Apart, OneSetsVersion
<1>8. RequestsFit
  BY <1>1, <1>6, <1>7 DEF RequestsFit
<1>9. CarriedInOrder /\ SweepsFit
  BY <1>5, <1>6 DEF CarriedInOrder, SweepsFit, running
<1>10. ImpactsFit
  BY <1>1, <1>2, <1>3 DEF ImpactsFit, RevocationTold, ExpiryTold, Dated, Ends, LinkRows
<1> QED BY <1>4, <1>8, <1>9, <1>10 DEF GraphInv

LEMMA RequestsBeginFit ==
  ASSUME GraphInv, NEW t \in Txs, RequestBegins(t)
  PROVE  GraphInv'
<1>1. CASE \E r \in LinkRequests : CreateLinkCheck(t, r.up, r.down, r.kind)
  BY <1>1, CreateLinkCheckFits
<1>2. CASE \E l \in links : RemoveLink(t, l)
  <2>1. /\ AtOnce(t) /\ doc' = doc /\ links' \subseteq links /\ recorded' = recorded
        /\ open' \subseteq open
    BY <1>2 DEF RemoveLink
  <2> QED BY <2>1, QuietSteps
<1>3. CASE CreateRuleCheck(t)
  BY <1>3, CreateRuleCheckFits
<1>4. CASE RetireRule(t)
  <2>1. /\ AtOnce(t) /\ doc' = doc /\ links' \subseteq links /\ recorded' = recorded
        /\ open' \subseteq open
    BY <1>4 DEF RetireRule
  <2> QED BY <2>1, QuietSteps
<1>5. CASE \E d \in Docs : PromoteDocument(t, d) \/ RevokeDocument(t, d)
  BY <1>5, PromoteFits, RevokeFits
<1>6. CASE \E r \in ReplaceRequests : SetSupersedes(t, r.doc, r.target)
  BY <1>6, SetSupersedesFits
<1>7. CASE \E r \in TypeRequests : SetType(t, r.doc, r.type)
  BY <1>7, SetTypeFits
<1>8. CASE \E r \in DateRequests : SetValidUntil(t, r.doc, r.day)
  BY <1>8, SetValidUntilFits
<1>9. CASE \E i \in open, r \in {"no_change_needed", "not_applicable"} : ResolveImpacts(t, {i}, r)
  <2>1. /\ AtOnce(t) /\ doc' = doc /\ links' \subseteq links /\ recorded' = recorded
        /\ open' \subseteq open
    BY <1>9 DEF ResolveImpacts
  <2> QED BY <2>1, QuietSteps
<1>10. CASE SweepRead(t)
  BY <1>10, SweepReadFits
<1> QED BY <1>1, <1>2, <1>3, <1>4, <1>5, <1>6, <1>7, <1>8, <1>9, <1>10 DEF RequestBegins

LEMMA GraphStepFits == GraphInv /\ [DocumentNext]_documentVars => GraphInv'
<1> SUFFICES ASSUME GraphInv, [DocumentNext]_documentVars PROVE GraphInv'
  OBVIOUS
<1>1. ASSUME NEW t \in Txs, RequestGoesOn(t) PROVE GraphInv'
  BY <1>1, CreateLinkInsertFits, CreateRuleInsertFits, SupersedeCarryFits, SupersedeCommitFits,
     SweepCommitFits, AbortFits DEF RequestGoesOn
<1>2. ASSUME UNCHANGED documentVars PROVE GraphInv'
  BY <1>2
     DEF documentVars, GraphInv, RowsFit, RequestsFit, CarriedInOrder, ImpactsFit, SweepsFit, running
<1> QED BY <1>1, <1>2, RequestsBeginFit, NextDayFits DEF DocumentNext

LEMMA GraphInvIsEnough == GraphInv => DocumentsStand
<1> SUFFICES ASSUME GraphInv PROVE DocumentsStand
  OBVIOUS
<1>1. RowsFit /\ ImpactsFit
  BY DEF GraphInv
<1>2. DocumentTypeOK /\ NoLoops
  BY <1>1 DEF RowsFit, DocumentTypeOK, NoLoops, Rows, Ends, LinkRows
<1>3. VersionsAreLines
  BY <1>1 DEF RowsFit, VersionsAreLines, Lines, LaterVersions
<1>4. RevocationSeesLinks
  BY <1>1 DEF ImpactsFit, RevocationTold, RevocationSeesLinks, Told
<1>5. ExpiryFollowsLinks
  BY <1>1, ReplacedReads DEF ImpactsFit, ExpiryTold, ExpiryFollowsLinks, Told, Plain
<1> QED BY <1>2, <1>3, <1>4, <1>5 DEF DocumentsStand, GraphInOrder, ImpactsFollowLinks

(* For any documents, links, requests and days: the links and the versions *)
(* never close a loop, a document has one live successor at most, and what *)
(* rests on a document is told when it is revoked or expires, whichever    *)
(* came first (0045:291, 0045:59, documents.ts:278, :339, :644).           *)
THEOREM DocumentsAlwaysStand == DocumentSpec => []DocumentsStand
<1>1. GraphInv /\ [DocumentNext]_documentVars => GraphInv'
  BY GraphStepFits
<1> QED BY <1>1, GraphStarts, GraphInvIsEnough, PTL DEF DocumentSpec
=============================================================================
