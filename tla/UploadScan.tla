----------------------------- MODULE UploadScan -----------------------------
(***************************************************************************)
(* A file on its way from a request to evidence: stored in quarantine,     *)
(* leased by a scan worker, judged, and promoted.  The routes are those of *)
(* apps/api/src/routes/uploads.ts; the workers are apps/scan-worker.  No   *)
(* lock is held while a file is read and scanned: a lease on the row keeps *)
(* other workers away until it expires.                                    *)
(*                                                                         *)
(* Abstracted: bytes (a content is its hash), names, types, limits, audit. *)
(***************************************************************************)
EXTENDS Naturals, FiniteSets

CONSTANTS Contents,      \* contents, each identified by its hash
          Requests,      \* upload requests; each writes under a key of its own
          Workers,       \* scan workers
          MaxAttempts,   \* SCAN_MAX_ATTEMPTS
          LeaseTicks,    \* how long a lease lasts, in ticks of the database clock
          MaxCrashes,    \* bound: crashes of workers and of the API
          MaxOutages     \* bound: changes of the scanner's or the token's health

ASSUME UploadScanAssumption ==
  /\ IsFiniteSet(Contents)
  /\ MaxAttempts \in Nat \ {0}
  /\ LeaseTicks \in Nat \ {0}
  /\ MaxCrashes \in Nat
  /\ MaxOutages \in Nat

VARIABLES
  upload,     \* core.object_uploads: one row per content, or NoUpload
  objects,    \* keys that hold an object in the object store
  artifacts,  \* contents with a row in core.artifacts
  request,    \* each upload request
  worker,     \* each scan worker, with the lease it holds
  scannerUp,  \* the scanner accepts connections
  tokenOk,    \* the API accepts the workers' service token
  issued,     \* contents for which a download link was issued
  crashes, outages

store    == <<upload, objects, artifacts>>
health   == <<scannerUp, tokenOk, outages>>
uploadScanVars == <<upload, objects, artifacts, request, worker, scannerUp, tokenOk,
                    issued, crashes, outages>>

Sensitivities == {"internal", "restricted"}
STREAM_SENSITIVITY == "restricted"
DOWNLOADABLE_STATES == {"scanned_clean", "promoted"}

(* Keys of the object store. *)
quarantineKey(r) == <<"quarantine", r>>
evidenceKey(c)   == <<"evidence", c>>
ObjectKeys == {quarantineKey(r) : r \in Requests} \cup {evidenceKey(c) : c \in Contents}

(* No worker holds the lease; the rest of a lease is what is left of its  *)
(* time.  A worker never holds two leases, so its name stands for the     *)
(* lease token.                                                           *)
NoLease  == [by |-> "nobody", left |-> 0]
Leases   == [by : Workers \cup {"nobody"}, left : 0..LeaseTicks]
NoUpload == [state |-> "none"]
UploadStates == {"quarantined", "scanned_clean", "scanned_infected", "promoted"}

UPLOAD_TRANSITIONS ==
  [s \in UploadStates \cup {"received", "rejected"} |->
     CASE s = "received"         -> {"quarantined", "rejected"}
       [] s = "quarantined"      -> {"scanned_clean", "scanned_infected", "rejected"}
       [] s = "scanned_clean"    -> {"promoted", "rejected"}
       [] s = "scanned_infected" -> {"rejected"}
       [] OTHER                  -> {}]
canTransitionUpload(from, to) == to \in UPLOAD_TRANSITIONS[from]

exists(c) == upload[c] # NoUpload

UploadScanInit ==
  /\ upload = [c \in Contents |-> NoUpload]
  /\ objects = {}
  /\ artifacts = {}
  /\ request \in [Requests -> {[pc |-> "start", via |-> v, content |-> c, sens |-> s] :
                               v \in {"base64", "stream"}, c \in Contents, s \in Sensitivities}]
  /\ \A r \in Requests : request[r].via = "stream" => request[r].sens = STREAM_SENSITIVITY
  /\ worker = [w \in Workers |-> [pc |-> "idle"]]
  /\ scannerUp \in BOOLEAN
  /\ tokenOk \in BOOLEAN
  /\ issued = {}
  /\ crashes = 0
  /\ outages = 0

-----------------------------------------------------------------------------
(* Upload requests.                                                        *)

GoTo(r, pc) == request' = [request EXCEPT ![r].pc = pc]

(* The answer to a request whose content is already there.                 *)
assertSameSensitivity(r) ==
  IF upload[request[r].content].sens = request[r].sens THEN "answered" ELSE "mismatch"

(* A stream has been stored when its content is looked up.                 *)
afterLookup(r) == IF request[r].via = "base64" THEN "put" ELSE "insert"

(* base64: SELECT by content hash, then the object is put.                 *)
LookUpContent(r) ==
  /\ <<request[r].via, request[r].pc>> \in {<<"base64", "start">>, <<"stream", "stored">>}
  /\ GoTo(r, IF exists(request[r].content) THEN assertSameSensitivity(r)
             ELSE afterLookup(r))
  /\ UNCHANGED <<store, worker, health, issued, crashes>>

(* base64 puts after the lookup, inside the transaction; the stream route  *)
(* puts before it knows the hash.                                          *)
PutObject(r) ==
  /\ \/ request[r].pc = "put" /\ GoTo(r, "insert")
     \/ request[r].via = "stream" /\ request[r].pc = "start" /\ GoTo(r, "stored")
  /\ objects' = objects \cup {quarantineKey(r)}
  /\ UNCHANGED <<upload, artifacts, worker, health, issued, crashes>>

(* INSERT ... ON CONFLICT DO NOTHING; the loser of a race reads the winner *)
(* and is answered as a later duplicate would be.                          *)
InsertUpload(r) ==
  /\ request[r].pc = "insert"
  /\ \/ /\ ~exists(request[r].content)
        /\ upload' = [upload EXCEPT ![request[r].content] =
             [state |-> "quarantined", version |-> 1, key |-> quarantineKey(r),
              sens |-> request[r].sens, attempts |-> 0, lease |-> NoLease,
              rank |-> Cardinality({c \in Contents : exists(c)})]]
        /\ GoTo(r, "answered")
     \/ /\ exists(request[r].content)
        /\ GoTo(r, assertSameSensitivity(r))
        /\ UNCHANGED upload
  /\ UNCHANGED <<objects, artifacts, worker, health, issued, crashes>>

(* A request dies, or the store refuses its object: its transaction is     *)
(* rolled back, an object already put stays.                               *)
RequestFails(r) ==
  /\ crashes < MaxCrashes
  /\ request[r].pc \in {"put", "stored", "insert"}
  /\ GoTo(r, "failed")
  /\ crashes' = crashes + 1
  /\ UNCHANGED <<store, worker, health, issued>>

-----------------------------------------------------------------------------
(* Scan workers.                                                           *)

busy(w) == worker[w].pc # "idle"

(* A lease that ran out is not taken over.                                 *)
Leasable_NoExpiry(c) ==
  /\ exists(c)
  /\ upload[c].state = "quarantined"
  /\ upload[c].attempts < MaxAttempts
  /\ upload[c].lease = NoLease

Leasable(c) == /\ exists(c)
               /\ upload[c].state = "quarantined"
               /\ upload[c].attempts < MaxAttempts
               /\ upload[c].lease.left = 0

(* leaseOne: the oldest leasable row.  The attempt is charged before the   *)
(* file is read.  The probe of the scanner precedes the lease.             *)
leaseOne(w, c) ==
  /\ worker[w].pc = "idle"
  /\ scannerUp
  /\ Leasable(c)
  /\ \A d \in Contents : Leasable(d) => upload[c].rank <= upload[d].rank
  /\ upload' = [upload EXCEPT ![c].attempts = upload[c].attempts + 1,
                              ![c].lease = [by |-> w, left |-> LeaseTicks]]
  /\ worker' = [worker EXCEPT ![w] =
       [pc |-> "scan", content |-> c, version |-> upload[c].version,
        attempts |-> upload[c].attempts + 1, left |-> LeaseTicks]]
  /\ UNCHANGED <<objects, artifacts, request, health, issued, crashes>>

(* Reading the object and scanning it.  An error (object missing or cut    *)
(* short, read timeout, scanner gone after it connected) keeps the attempt *)
(* spent; a scanner that never accepted the bytes gives it back.           *)
ScanOutcomes == IF scannerUp THEN {"clean", "infected", "error"} ELSE {"error", "unavailable"}
scan(w, outcome) ==
  /\ worker[w].pc = "scan"
  /\ outcome \in ScanOutcomes
  /\ worker' = [worker EXCEPT ![w].pc = outcome]
  /\ UNCHANGED <<store, request, health, issued, crashes>>

(* POST scan-result: If-Match on the version that was leased, the row      *)
(* locked, then the state machine.                                         *)
Verdict(w)  == IF worker[w].pc = "clean" THEN "scanned_clean" ELSE "scanned_infected"
Accepted(w) == /\ tokenOk
               /\ upload[worker[w].content].version = worker[w].version
               /\ canTransitionUpload(upload[worker[w].content].state, Verdict(w))

(* The report is accepted; its answer may still be lost on the way back.   *)
ReportAccepted(w) ==
  /\ worker[w].pc \in {"clean", "infected"}
  /\ Accepted(w)
  /\ upload' = [upload EXCEPT ![worker[w].content].state = Verdict(w),
                              ![worker[w].content].version = worker[w].version + 1]
  /\ \E pc \in {"idle", "error"} :
       worker' = [worker EXCEPT ![w] = IF pc = "idle" THEN [pc |-> pc] ELSE [@ EXCEPT !.pc = pc]]
  /\ UNCHANGED <<objects, artifacts, request, health, issued, crashes>>

(* 401 gives the attempt back; any other refusal, or a lost request, does  *)
(* not.  The key scan-<upload>-v<version> replays the stored answer to a   *)
(* second worker with the same verdict: that ends like an accepted report. *)
ReportRefused(w) ==
  /\ worker[w].pc \in {"clean", "infected"}
  /\ \/ ~tokenOk /\ worker' = [worker EXCEPT ![w].pc = "unavailable"]
     \/ tokenOk /\ ~Accepted(w) /\ worker' = [worker EXCEPT ![w].pc = "error"]
     \/ /\ tokenOk /\ ~Accepted(w)
        /\ upload[worker[w].content].state = Verdict(w)
        /\ worker' = [worker EXCEPT ![w] = [pc |-> "idle"]]
  /\ UNCHANGED <<store, request, health, issued, crashes>>

(* A worker releases whatever lease the row has.                           *)
HoldsLease_AnyLease(w) ==
  /\ upload[worker[w].content].state = "quarantined"
  /\ upload[worker[w].content].version = worker[w].version

(* recordFailure releases exactly the lease this worker took.              *)
HoldsLease(w) ==
  LET row == upload[worker[w].content] IN
  /\ row.state = "quarantined"
  /\ row.version = worker[w].version
  /\ row.attempts = worker[w].attempts
  /\ row.lease.by = w

recordFailure(w) ==
  /\ worker[w].pc \in {"error", "unavailable"}
  /\ LET c == worker[w].content
         refund == IF worker[w].pc = "unavailable" THEN 1 ELSE 0
     IN upload' = IF HoldsLease(w)
                  THEN [upload EXCEPT ![c].lease = NoLease,
                                      ![c].attempts = upload[c].attempts - refund]
                  ELSE upload
  /\ worker' = [worker EXCEPT ![w] = [pc |-> "idle"]]
  /\ UNCHANGED <<objects, artifacts, request, health, issued, crashes>>

(* A worker dies with its lease in hand; the row keeps the lease.          *)
WorkerCrash(w) ==
  /\ crashes < MaxCrashes
  /\ busy(w)
  /\ worker' = [worker EXCEPT ![w] = [pc |-> "idle"]]
  /\ crashes' = crashes + 1
  /\ UNCHANGED <<store, request, health, issued>>

-----------------------------------------------------------------------------
(* Promotion and reading.                                                  *)

(* POST promote copies the object first and commits the artifact and the   *)
(* new state together; a failure in between leaves the copy behind.        *)
Promote(c, version) ==
  /\ exists(c)
  /\ upload[c].version = version
  /\ canTransitionUpload(upload[c].state, "promoted")
  /\ upload[c].key \in objects
  /\ objects' = objects \cup {evidenceKey(c)}
  /\ \/ /\ artifacts' = artifacts \cup {c}
        /\ upload' = [upload EXCEPT ![c].state = "promoted", ![c].version = version + 1]
        /\ UNCHANGED crashes
     \/ /\ crashes < MaxCrashes
        /\ crashes' = crashes + 1
        /\ UNCHANGED <<artifacts, upload>>
  /\ UNCHANGED <<request, worker, health, issued>>

(* Only files found infected are kept back.                                *)
IssueLink_Blocklist(c) ==
  /\ exists(c)
  /\ upload[c].state # "scanned_infected"
  /\ c \notin issued
  /\ issued' = issued \cup {c}
  /\ UNCHANGED <<store, request, worker, health, crashes>>

(* POST download-link reads the row without a lock.                        *)
IssueLink(c) ==
  /\ exists(c)
  /\ upload[c].state \in DOWNLOADABLE_STATES
  /\ c \notin issued
  /\ issued' = issued \cup {c}
  /\ UNCHANGED <<store, request, worker, health, crashes>>

-----------------------------------------------------------------------------
(* The clock, the scanner and the token.                                   *)

less(n) == IF n = 0 THEN 0 ELSE n - 1

Tick ==
  /\ \E c \in Contents : exists(c) /\ upload[c].lease.left > 0
  /\ upload' = [c \in Contents |->
       IF exists(c) THEN [upload[c] EXCEPT !.lease.left = less(upload[c].lease.left)]
       ELSE NoUpload]
  /\ worker' = [w \in Workers |->
       IF busy(w) THEN [worker[w] EXCEPT !.left = less(worker[w].left)] ELSE worker[w]]
  /\ UNCHANGED <<objects, artifacts, request, health, issued, crashes>>

HealthChanges ==
  /\ outages < MaxOutages
  /\ outages' = outages + 1
  /\ \/ scannerUp' = ~scannerUp /\ UNCHANGED tokenOk
     \/ tokenOk' = ~tokenOk /\ UNCHANGED scannerUp
  /\ UNCHANGED <<store, request, worker, issued, crashes>>

RequestStep(r) == LookUpContent(r) \/ PutObject(r) \/ InsertUpload(r)
WorkerStep(w) ==
  \/ \E c \in Contents : leaseOne(w, c)
  \/ \E outcome \in {"clean", "infected", "error", "unavailable"} : scan(w, outcome)
  \/ ReportAccepted(w)
  \/ ReportRefused(w)
  \/ recordFailure(w)

UploadScanNext ==
  \/ \E r \in Requests : RequestStep(r) \/ RequestFails(r)
  \/ \E w \in Workers : WorkerStep(w) \/ WorkerCrash(w)
  \/ \E c \in Contents : IssueLink(c) \/ \E version \in 1..3 : Promote(c, version)
  \/ Tick
  \/ HealthChanges

(* The loop of a worker runs as long as its process does, and time passes. *)
(* Nobody has to upload, promote or download.                              *)
UploadScanFairness == /\ \A w \in Workers : WF_uploadScanVars(WorkerStep(w))
                      /\ WF_uploadScanVars(Tick)
UploadScanSpec == UploadScanInit /\ [][UploadScanNext]_uploadScanVars /\ UploadScanFairness

-----------------------------------------------------------------------------
(* Properties.                                                             *)

UploadTypeOK ==
  /\ \A c \in Contents : exists(c) =>
       upload[c] \in [state : UploadStates, version : 1..3, key : ObjectKeys,
                      sens : Sensitivities, attempts : 0..MaxAttempts, lease : Leases,
                      rank : 0..Cardinality(Contents)]
  /\ objects \subseteq ObjectKeys
  /\ artifacts \subseteq Contents
  /\ issued \subseteq Contents

(* A lease that has not run out is left alone: while its holder works, the *)
(* row of a file in quarantine still names that lease and that attempt.    *)
(* So no two workers scan a file at once unless one overran its lease, and *)
(* a late worker neither frees the lease of its replacement nor gives back *)
(* an attempt that is not its own (scan-worker.ts:136).                    *)
LiveLeaseIntact ==
  \A w \in Workers :
    busy(w) /\ worker[w].left > 0 =>
      LET row == upload[worker[w].content] IN
      row.state = "quarantined" =>
        /\ row.lease = [by |-> w, left |-> worker[w].left]
        /\ row.attempts = worker[w].attempts

(* A row never outruns the store: the object a row names was put before    *)
(* the row was written, and an artifact has its copy.                      *)
RowsHaveObjects ==
  \A c \in Contents :
    /\ exists(c) => upload[c].key \in objects
    /\ c \in artifacts => evidenceKey(c) \in objects
    /\ (exists(c) /\ upload[c].state = "promoted") <=> c \in artifacts

(* Every successful answer tells of the row that holds the content, and    *)
(* that row has the sensitivity the request asked for, whoever won the     *)
(* race for it (uploads.ts:139).                                           *)
AnswersAgree ==
  \A r \in Requests :
    request[r].pc = "answered" =>
      exists(request[r].content) /\ upload[request[r].content].sens = request[r].sens

(* The rows, the leases, the store and the answers given agree.            *)
UploadsAgree == UploadTypeOK /\ LiveLeaseIntact /\ RowsHaveObjects /\ AnswersAgree

(* What the quarantine promises: see QuarantineGate.                       *)
gate == [c \in Contents |->
  IF ~exists(c) THEN "absent"
  ELSE IF upload[c].state = "quarantined" THEN "closed"
  ELSE IF upload[c].state = "scanned_infected" THEN "infected" ELSE "clean"]
Gate == INSTANCE QuarantineGate WITH Files <- Contents, readable <- issued, evidence <- artifacts
GateSpec == Gate!Spec

(* Once the scanner and the token stay healthy, every file is judged, or   *)
(* has used up its attempts and is counted as stuck by scanBacklog.        *)
Decided(c) == exists(c) => \/ upload[c].state # "quarantined"
                           \/ upload[c].attempts = MaxAttempts
EveryFileIsDecided ==
  <>[](scannerUp /\ tokenOk) => \A c \in Contents : exists(c) ~> Decided(c)

=============================================================================
