------------------------ MODULE OutboxPublisherProofs ------------------------
(***************************************************************************)
(* Proofs about what the jobs worker does: OutboxPublisher and Delivery,   *)
(* for any number of events, workers, attempts, lost claims, crashes and   *)
(* replays, and any receivers, mails, senders and cuts.                    *)
(*                                                                         *)
(* A worker that lost its claim goes on beside the worker that took the    *)
(* event over, so nothing is said of "the" worker of an event: the         *)
(* invariant says what any worker knows of the event by its own position,  *)
(* and what the claim adds to that.                                        *)
(*                                                                         *)
(* Calls and copies of a mail are counted against what paid for them: an   *)
(* attempt that is recorded, one about to be, or a cut.                    *)
(***************************************************************************)
EXTENDS OutboxPublisher, Delivery, Integers, FiniteSetTheorems, TLAPS

Delivering == {"handling", "running", "building", "handled"}

\* A worker that is in a handler is in one of the two, and a worker that is
\* not idle has an event that was requested.
Positioned(w) ==
    /\ workers[w].pc # "idle" =>
          workers[w].event \in Event /\ outbox[workers[w].event].status # "absent"
    /\ workers[w].pc \in {"running", "building", "handled", "closing"} => ~Done(w)
    /\ workers[w].pc \in {"building", "closing"} => Current(w) = "project_export"

\* The claim: the row is due and still says what the worker read in it.
ClaimStands(w) ==
    workers[w].holds =>
        /\ workers[w].pc \in Delivering
        /\ outbox[workers[w].event].status = "due"
        /\ outbox[workers[w].event].skip = workers[w].skip

OneClaim ==
    \A v, w \in Worker :
        workers[v].holds /\ workers[w].holds /\ workers[v].event = workers[w].event => v = w

\* Behind a worker's position lie only receipts and exclusions.
ReceiptsBehind(w) ==
    workers[w].pc \in Delivering =>
        \A i \in 1 .. workers[w].next - 1 :
            Handlers[i] \in workers[w].skip \/ <<workers[w].event, Handlers[i]>> \in inbox

Built(e) == jobs[e].state = "succeeded" /\ jobs[e].package > 0

\* A worker whose export handler has returned has seen the package.
HandledIsBuilt(w) ==
    workers[w].pc = "handled" /\ Current(w) = "project_export" => Built(workers[w].event)

JobsMatch ==
    \A e \in Event :
        /\ outbox[e].status = "absent" => jobs[e].state = "none" /\ outbox[e].attempts = 0
        /\ outbox[e].status = "due" => outbox[e].attempts < MaxAttempts
        /\ jobs[e].state = "succeeded" => jobs[e].package > 0

WorkerInv(w) ==
    /\ Positioned(w)
    /\ ClaimStands(w)
    /\ ReceiptsBehind(w)
    /\ HandledIsBuilt(w)

WorkersInv == OneClaim /\ \A w \in Worker : WorkerInv(w)

Inv ==
    /\ TypeOK
    /\ JobsMatch
    /\ WorkBeforeReceipt
    /\ PublishedIsHandled
    /\ WorkersInv

---------------------------------------------------------------------------
(* The two handlers *)

\* The order of the handlers, spelled out for the provers.
LEMMA HandlersAre ==
    /\ Len(Handlers) = 2
    /\ Handlers[1] = "log"
    /\ Handlers[2] = "project_export"
    /\ Handler = {"log", "project_export"}
<1>1. /\ Len(Handlers) = 2
      /\ Handlers[1] = "log"
      /\ Handlers[2] = "project_export"
      /\ DOMAIN Handlers = {1, 2}
    BY DEF Handlers
<1>2. QED
    BY <1>1 DEF Handler

\* A worker that still has a handler to call stands before one of the two.
LEMMA CurrentIsHandler ==
    ASSUME TypeOK, NEW w \in Worker, ~Done(w)
    PROVE  /\ workers[w].next \in {1, 2}
           /\ Current(w) \in Handler
           /\ workers[w].next + 1 \in 1 .. Len(Handlers) + 1
<1>1. workers[w].next \in 1 .. 3
    BY HandlersAre DEF TypeOK, WorkerRow
<1>2. workers[w].next \in {1, 2}
    BY <1>1, HandlersAre DEF Done
<1>3. QED
    BY <1>2, HandlersAre DEF Current

---------------------------------------------------------------------------
(* What every step keeps *)

\* "The first package stands": the storing and the closing of a job both look
\* at its state, and nothing else touches one that is built.
LEMMA JobsStand ==
    ASSUME TypeOK, JobsMatch, [Next]_vars
    PROVE  \A e \in Event : jobs[e].state = "succeeded" => jobs'[e] = jobs[e]
<1> SUFFICES ASSUME NEW e \in Event, jobs[e].state = "succeeded"
             PROVE  jobs'[e] = jobs[e]
    OBVIOUS
<1>1. jobs \in [Event -> [state: {"none", "queued", "succeeded", "failed"}, package: Nat]]
    BY DEF TypeOK
<1>2. ASSUME NEW f \in Event, Request(f) PROVE jobs'[e] = jobs[e]
    <2>1. jobs[f].state = "none"
        BY <1>2 DEF Request, JobsMatch
    <2>2. jobs' = [jobs EXCEPT ![f].state = "queued"]
        BY <1>2 DEF Request
    <2>3. QED
        BY <1>1, <2>1, <2>2
<1>3. ASSUME NEW w \in Worker, BuildExport(w) PROVE jobs'[e] = jobs[e]
    <2>1. StorePackage(workers[w].event)
        BY <1>3 DEF BuildExport
    <2>2. QED
        BY <1>1, <2>1 DEF StorePackage
<1>4. ASSUME NEW w \in Worker, SettleJob(w) PROVE jobs'[e] = jobs[e]
    <2>1. jobs' = CloseJob(workers[w].event)
        BY <1>4 DEF SettleJob
    <2>2. QED
        BY <1>1, <2>1 DEF CloseJob
<1>5. CASE UNCHANGED jobs
    BY <1>5
<1>6. ASSUME NEW w \in Worker, Work(w) PROVE jobs'[e] = jobs[e]
    BY <1>3, <1>4, <1>5, <1>6
        DEF Work, Claim, CheckInbox, HandleLog, ReadJob, Receive, Publish, Fail, SettleCheck
<1>7. QED
    BY <1>2, <1>5, <1>6 DEF Next, vars, Replay, SettleFails, Crash, LoseClaim, Quiet


---------------------------------------------------------------------------
(* One worker moves *)

\* What a worker knows stays true while another one moves: receipts and
\* packages stay, and only the worker with the claim changes the row.
LEMMA Bystanders ==
    ASSUME Inv, NEW w \in Worker,
           \A v \in Worker \ {w} : workers'[v] = workers[v],
           inbox \subseteq inbox',
           \A e \in Event : jobs[e].state = "succeeded" => jobs'[e] = jobs[e],
           \A e \in Event : \/ outbox'[e] = outbox[e]
                            \/ workers[w].holds /\ e = workers[w].event,
           \A e \in Event : outbox[e].status # "absent" => outbox'[e].status # "absent",
           \A v \in Worker \ {w} :
               workers'[w].holds /\ workers[v].holds => workers'[w].event # workers[v].event,
           WorkerInv(w)'
    PROVE  WorkersInv'
<1>1. OneClaim'
    BY DEF OneClaim, Inv, WorkersInv
<1>2. ASSUME NEW v \in Worker, v # w PROVE WorkerInv(v)'
    <2>1. workers'[v] = workers[v] /\ WorkerInv(v)
        BY <1>2 DEF Inv, WorkersInv
    <2>2. Positioned(v)'
        BY <2>1 DEF WorkerInv, Positioned, Done, Current
    <2>3. ClaimStands(v)'
        <3>1. SUFFICES ASSUME workers[v].holds
                       PROVE  outbox'[workers[v].event] = outbox[workers[v].event]
            BY <2>1 DEF WorkerInv, ClaimStands
        <3>2. workers[v].event \in Event
            BY <3>1, <2>1 DEF WorkerInv, ClaimStands, Positioned, Delivering
        <3>3. ~(workers[w].holds /\ workers[v].event = workers[w].event)
            BY <3>1, <1>2 DEF Inv, WorkersInv, OneClaim
        <3>4. QED
            BY <3>2, <3>3
    <2>4. ReceiptsBehind(v)'
        BY <2>1 DEF WorkerInv, ReceiptsBehind
    <2>5. HandledIsBuilt(v)'
        <3>1. SUFFICES ASSUME workers[v].pc = "handled", Current(v) = "project_export"
                       PROVE  Built(workers[v].event)'
            BY <2>1 DEF HandledIsBuilt, Current, Built
        <3>2. Built(workers[v].event) /\ workers[v].event \in Event
            BY <3>1, <2>1 DEF WorkerInv, HandledIsBuilt, Positioned
        <3>3. QED
            BY <2>1, <3>2 DEF Built
    <2>6. QED
        BY <2>2, <2>3, <2>4, <2>5 DEF WorkerInv
<1>3. QED
    BY <1>1, <1>2 DEF WorkersInv

\* The same for the many steps that touch neither the queue nor the jobs and
\* take no claim: it is enough to look at the worker that moves.
LEMMA MoveKeeps ==
    ASSUME Inv, NEW w \in Worker, NEW r \in WorkerRow,
           workers' = [workers EXCEPT ![w] = r],
           UNCHANGED <<outbox, inbox, jobs>>,
           runs' \in [Event -> [Handler -> Nat]],
           losses' \in 0 .. MaxLosses,
           UNCHANGED replays,
           r.holds => workers[w].holds /\ r.event = workers[w].event,
           WorkerInv(w)'
    PROVE  Inv'
<1>1. workers \in [Worker -> WorkerRow]
    BY DEF Inv, TypeOK
<1>2. workers'[w] = r /\ \A v \in Worker \ {w} : workers'[v] = workers[v]
    BY <1>1
<1>3. TypeOK'
    BY <1>1 DEF Inv, TypeOK
<1>4. JobsMatch' /\ WorkBeforeReceipt' /\ PublishedIsHandled'
    BY DEF Inv, JobsMatch, WorkBeforeReceipt, PublishedIsHandled
<1>5. \A v \in Worker \ {w} :
          workers'[w].holds /\ workers[v].holds => workers'[w].event # workers[v].event
    BY <1>2 DEF Inv, WorkersInv, OneClaim
<1>6. WorkersInv'
    BY <1>2, <1>5, Bystanders
<1>7. QED
    BY <1>3, <1>4, <1>6 DEF Inv

---------------------------------------------------------------------------
(* The initial states and the steps of no worker *)

LEMMA InitInv == Init => Inv
<1> SUFFICES ASSUME Init PROVE Inv
    OBVIOUS
<1>1. TypeOK
    <2>1. Idle \in WorkerRow
        BY HandlersAre DEF Idle, WorkerRow, Phase
    <2>2. QED
        BY <2>1, OutboxAssumption DEF Init, TypeOK, Status
<1>2. JobsMatch /\ WorkBeforeReceipt /\ PublishedIsHandled
    BY DEF Init, JobsMatch, WorkBeforeReceipt, PublishedIsHandled
<1>3. \A w \in Worker : workers[w] = Idle
    BY DEF Init
<1>4. OneClaim
    BY <1>3 DEF OneClaim, Idle
<1>5. ASSUME NEW w \in Worker PROVE WorkerInv(w)
    BY <1>3 DEF Idle, WorkerInv, Positioned, ClaimStands, ReceiptsBehind, HandledIsBuilt,
                Delivering
<1>6. QED
    BY <1>1, <1>2, <1>4, <1>5 DEF Inv, WorkersInv

\* The job and the event begin together; no worker knows of them yet.
LEMMA RequestKeeps ==
    ASSUME Inv, NEW e \in Event, Request(e) PROVE Inv'
<1>1. /\ outbox \in [Event -> [status: Status, attempts: 0 .. MaxAttempts, skip: SUBSET Handler]]
      /\ jobs \in [Event -> [state: {"none", "queued", "succeeded", "failed"}, package: Nat]]
    BY DEF Inv, TypeOK
<1>2. /\ outbox' = [outbox EXCEPT ![e].status = "due"]
      /\ jobs' = [jobs EXCEPT ![e].state = "queued"]
      /\ outbox[e].status = "absent" /\ jobs[e].state = "none" /\ outbox[e].attempts = 0
      /\ UNCHANGED <<inbox, workers, runs, losses, replays>>
    BY DEF Request, Inv, JobsMatch
<1>3. TypeOK'
    <2>1. ASSUME NEW row \in [status: Status, attempts: 0 .. MaxAttempts, skip: SUBSET Handler]
          PROVE  [row EXCEPT !.status = "due"]
                     \in [status: Status, attempts: 0 .. MaxAttempts, skip: SUBSET Handler]
        BY DEF Status
    <2>2. outbox' \in [Event -> [status: Status, attempts: 0 .. MaxAttempts, skip: SUBSET Handler]]
        BY <1>1, <1>2, <2>1
    <2>3. jobs' \in [Event -> [state: {"none", "queued", "succeeded", "failed"}, package: Nat]]
        BY <1>1, <1>2
    <2>4. QED
        BY <1>2, <2>2, <2>3 DEF Inv, TypeOK
<1>4. /\ outbox'[e].status = "due" /\ outbox'[e].attempts = 0 /\ jobs'[e].state = "queued"
      /\ \A f \in Event \ {e} : outbox'[f] = outbox[f] /\ jobs'[f] = jobs[f]
    BY <1>1, <1>2
<1>5. JobsMatch'
    BY <1>4, OutboxAssumption DEF Inv, JobsMatch
<1>6. WorkBeforeReceipt' /\ PublishedIsHandled'
    BY <1>2, <1>4 DEF Inv, WorkBeforeReceipt, PublishedIsHandled
<1>7. OneClaim'
    BY <1>2 DEF Inv, WorkersInv, OneClaim
<1>8. ASSUME NEW w \in Worker PROVE WorkerInv(w)'
    <2>1. WorkerInv(w) /\ workers'[w] = workers[w]
        BY <1>2 DEF Inv, WorkersInv
    <2>2. workers[w].pc # "idle" =>
              /\ workers[w].event \in Event
              /\ workers[w].event # e
              /\ outbox'[workers[w].event] = outbox[workers[w].event]
              /\ jobs'[workers[w].event] = jobs[workers[w].event]
        BY <1>2, <1>4, <2>1 DEF WorkerInv, Positioned
    <2>3. Positioned(w)'
        BY <2>1, <2>2 DEF WorkerInv, Positioned, Done, Current
    <2>4. ClaimStands(w)'
        BY <2>1, <2>2 DEF WorkerInv, ClaimStands, Delivering
    <2>5. ReceiptsBehind(w)'
        BY <1>2, <2>1 DEF WorkerInv, ReceiptsBehind
    <2>6. HandledIsBuilt(w)'
        BY <2>1, <2>2 DEF WorkerInv, HandledIsBuilt, Built, Current
    <2>7. QED
        BY <2>3, <2>4, <2>5, <2>6 DEF WorkerInv
<1>9. QED
    BY <1>3, <1>5, <1>6, <1>7, <1>8 DEF Inv, WorkersInv

\* A replayed event is published or dead, so no worker has it claimed.
LEMMA ReplayKeeps ==
    ASSUME Inv, NEW e \in Event, NEW skip \in SUBSET Handler, Replay(e, skip) PROVE Inv'
<1>1. /\ outbox \in [Event -> [status: Status, attempts: 0 .. MaxAttempts, skip: SUBSET Handler]]
      /\ replays \in Nat
    BY OutboxAssumption DEF Inv, TypeOK
<1>2. /\ outbox' = [outbox EXCEPT ![e] = [status |-> "due", attempts |-> 0, skip |-> skip]]
      /\ outbox[e].status \in {"published", "dead"}
      /\ replays' = replays + 1 /\ replays < MaxReplays
      /\ UNCHANGED <<inbox, jobs, workers, runs, losses>>
    BY DEF Replay
<1>3. TypeOK'
    <2>1. [status |-> "due", attempts |-> 0, skip |-> skip]
              \in [status: Status, attempts: 0 .. MaxAttempts, skip: SUBSET Handler]
        BY OutboxAssumption DEF Status
    <2>2. outbox' \in [Event -> [status: Status, attempts: 0 .. MaxAttempts, skip: SUBSET Handler]]
        BY <1>1, <1>2, <2>1
    <2>3. replays' \in 0 .. MaxReplays
        BY <1>1, <1>2, OutboxAssumption
    <2>4. QED
        BY <1>2, <2>2, <2>3 DEF Inv, TypeOK
<1>4. /\ outbox'[e].status = "due" /\ outbox'[e].attempts = 0
      /\ \A f \in Event \ {e} : outbox'[f] = outbox[f]
    BY <1>1, <1>2
<1>5. JobsMatch' /\ WorkBeforeReceipt' /\ PublishedIsHandled'
    BY <1>2, <1>4, OutboxAssumption
        DEF Inv, JobsMatch, WorkBeforeReceipt, PublishedIsHandled
<1>6. OneClaim'
    BY <1>2 DEF Inv, WorkersInv, OneClaim
<1>7. ASSUME NEW w \in Worker PROVE WorkerInv(w)'
    <2>1. WorkerInv(w) /\ workers'[w] = workers[w]
        BY <1>2 DEF Inv, WorkersInv
    <2>2. Positioned(w)'
        BY <1>4, <2>1 DEF WorkerInv, Positioned, Done, Current
    <2>3. ClaimStands(w)'
        BY <1>2, <1>4, <2>1 DEF WorkerInv, ClaimStands, Positioned, Delivering
    <2>4. ReceiptsBehind(w)' /\ HandledIsBuilt(w)'
        BY <1>2, <2>1 DEF WorkerInv, ReceiptsBehind, HandledIsBuilt, Built, Current
    <2>5. QED
        BY <2>2, <2>3, <2>4 DEF WorkerInv
<1>8. QED
    BY <1>3, <1>5, <1>6, <1>7 DEF Inv, WorkersInv

---------------------------------------------------------------------------
(* The steps of a worker *)

\* The row of w moved to another phase of the same event.
AtHandler(w, pc, next, holds) ==
    [pc |-> pc, event |-> workers[w].event, next |-> next,
     skip |-> workers[w].skip, holds |-> holds]

\* What the actions write with EXCEPT, field by field.
LEMMA RowsWritten ==
    ASSUME TypeOK, NEW w \in Worker
    PROVE  /\ Advance(w) =>
                workers' = [workers EXCEPT ![w] =
                    AtHandler(w, "handling", workers[w].next + 1, workers[w].holds)]
           /\ \A pc \in Phase : workers' = [workers EXCEPT ![w].pc = pc] =>
                workers' = [workers EXCEPT ![w] = AtHandler(w, pc, workers[w].next, workers[w].holds)]
           /\ workers' = [workers EXCEPT ![w].pc = "settling", ![w].next = @ + 1] =>
                workers' = [workers EXCEPT ![w] =
                    AtHandler(w, "settling", workers[w].next + 1, workers[w].holds)]
           /\ workers' = [workers EXCEPT ![w].holds = FALSE] =>
                workers' = [workers EXCEPT ![w] = AtHandler(w, workers[w].pc, workers[w].next, FALSE)]
<1>1. workers \in [Worker -> WorkerRow] /\ workers[w] \in WorkerRow
    BY DEF TypeOK
<1>2. Advance(w) =>
          workers' = [workers EXCEPT ![w] =
              AtHandler(w, "handling", workers[w].next + 1, workers[w].holds)]
    BY <1>1 DEF Advance, AtHandler, WorkerRow
<1>3. ASSUME NEW pc \in Phase, workers' = [workers EXCEPT ![w].pc = pc]
      PROVE  workers' = [workers EXCEPT ![w] = AtHandler(w, pc, workers[w].next, workers[w].holds)]
    <2>1. [workers[w] EXCEPT !.pc = pc] = AtHandler(w, pc, workers[w].next, workers[w].holds)
        BY <1>1 DEF AtHandler, WorkerRow
    <2>2. workers' = [workers EXCEPT ![w] = [workers[w] EXCEPT !.pc = pc]]
        BY <1>1, <1>3
    <2>3. QED
        BY <2>1, <2>2
<1>4. workers' = [workers EXCEPT ![w].pc = "settling", ![w].next = @ + 1] =>
          workers' = [workers EXCEPT ![w] =
              AtHandler(w, "settling", workers[w].next + 1, workers[w].holds)]
    BY <1>1 DEF AtHandler, WorkerRow
<1>5. workers' = [workers EXCEPT ![w].holds = FALSE] =>
          workers' = [workers EXCEPT ![w] = AtHandler(w, workers[w].pc, workers[w].next, FALSE)]
    BY <1>1 DEF AtHandler, WorkerRow
<1>6. QED
    BY <1>2, <1>3, <1>4, <1>5

\* A worker that gave up, or was cut off, knows nothing and claims nothing.
LEMMA IdleKeeps ==
    ASSUME Inv, NEW w \in Worker, workers' = [workers EXCEPT ![w] = Idle]
    PROVE  /\ Idle \in WorkerRow /\ ~Idle.holds
           /\ WorkerInv(w)'
<1>1. workers'[w] = Idle
    BY DEF Inv, TypeOK
<1>2. Idle \in WorkerRow /\ ~Idle.holds
    BY HandlersAre DEF Idle, WorkerRow, Phase
<1>3. WorkerInv(w)'
    BY <1>1 DEF Idle, WorkerInv, Positioned, ClaimStands, ReceiptsBehind, HandledIsBuilt,
                Delivering
<1>4. QED
    BY <1>2, <1>3

\* Crash and SettleFails: the worker's own position is all that is lost.
LEMMA CutOffKeeps ==
    ASSUME Inv, NEW w \in Worker, Crash(w) \/ SettleFails(w) PROVE Inv'
<1>1. /\ workers' = [workers EXCEPT ![w] = Idle]
      /\ losses < MaxLosses /\ losses' = losses + 1
      /\ UNCHANGED <<outbox, inbox, jobs, runs, replays>>
    BY DEF Crash, SettleFails
<1>2. losses' \in 0 .. MaxLosses /\ runs' \in [Event -> [Handler -> Nat]]
    BY <1>1, OutboxAssumption DEF Inv, TypeOK
<1>3. QED
    BY <1>1, <1>2, IdleKeeps, MoveKeeps

\* Without the claim the worker knows less, and what is left is still true.
LEMMA LoseClaimKeeps ==
    ASSUME Inv, NEW w \in Worker, LoseClaim(w) PROVE Inv'
<1> DEFINE r == AtHandler(w, workers[w].pc, workers[w].next, FALSE)
<1>1. /\ workers' = [workers EXCEPT ![w] = r]
      /\ losses < MaxLosses /\ losses' = losses + 1
      /\ UNCHANGED <<outbox, inbox, jobs, runs, replays>>
    BY RowsWritten DEF LoseClaim, Inv
<1>2. losses' \in 0 .. MaxLosses /\ runs' \in [Event -> [Handler -> Nat]]
    BY <1>1, OutboxAssumption DEF Inv, TypeOK
<1>3. r \in WorkerRow /\ ~r.holds
    BY DEF Inv, TypeOK, WorkerRow, AtHandler
<1>4. workers'[w] = r
    BY <1>1 DEF Inv, TypeOK
<1>5. WorkerInv(w)'
    <2>1. WorkerInv(w)
        BY DEF Inv, WorkersInv
    <2> USE DEF AtHandler
    <2>2. Positioned(w)'
        BY <1>1, <1>4, <2>1 DEF WorkerInv, Positioned, Done, Current
    <2>3. ClaimStands(w)'
        BY <1>4 DEF ClaimStands
    <2>4. ReceiptsBehind(w)' /\ HandledIsBuilt(w)'
        BY <1>1, <1>4, <2>1 DEF WorkerInv, ReceiptsBehind, HandledIsBuilt, Built, Current
    <2>5. QED
        BY <2>2, <2>3, <2>4 DEF WorkerInv
<1>6. QED
    BY <1>1, <1>2, <1>3, <1>5, MoveKeeps

\* Going on to the next handler leaves a receipt or an exclusion behind.
LEMMA AdvanceKeeps ==
    ASSUME Inv, NEW w \in Worker, workers[w].pc \in Delivering, ~Done(w), Advance(w),
           inbox \subseteq inbox', outbox' = outbox,
           \/ Current(w) \in workers[w].skip
           \/ <<workers[w].event, Current(w)>> \in inbox'
    PROVE  /\ AtHandler(w, "handling", workers[w].next + 1, workers[w].holds) \in WorkerRow
           /\ WorkerInv(w)'
<1> DEFINE r == AtHandler(w, "handling", workers[w].next + 1, workers[w].holds)
<1>1. workers[w].next \in {1, 2} /\ workers[w].next + 1 \in 1 .. Len(Handlers) + 1
    BY CurrentIsHandler DEF Inv
<1>2. r \in WorkerRow
    BY <1>1 DEF Inv, TypeOK, WorkerRow, Phase, AtHandler
<1>3. workers'[w] = r
    BY RowsWritten DEF Inv, TypeOK
<1>4. WorkerInv(w)
    BY DEF Inv, WorkersInv
<1>5. Positioned(w)' /\ ClaimStands(w)' /\ HandledIsBuilt(w)'
    BY <1>3, <1>4
        DEF WorkerInv, Positioned, ClaimStands, HandledIsBuilt, Delivering, AtHandler
<1>6. ReceiptsBehind(w)'
    <2>1. ASSUME NEW i \in 1 .. workers[w].next
          PROVE  \/ Handlers[i] \in workers[w].skip
                 \/ <<workers[w].event, Handlers[i]>> \in inbox'
        <3>1. CASE i = workers[w].next
            BY <3>1 DEF Current
        <3>2. CASE i # workers[w].next
            <4>1. i \in 1 .. workers[w].next - 1
                BY <1>1, <3>2
            <4>2. QED
                BY <1>4, <4>1 DEF WorkerInv, ReceiptsBehind
        <3>3. QED
            BY <3>1, <3>2
    <2>2. /\ workers'[w].next - 1 = workers[w].next
          /\ workers'[w].skip = workers[w].skip
          /\ workers'[w].event = workers[w].event
        BY <1>1, <1>3 DEF AtHandler
    <2>3. QED
        BY <2>1, <2>2 DEF ReceiptsBehind
<1>7. QED
    BY <1>2, <1>5, <1>6 DEF WorkerInv

\* Within one handler the worker's position does not change; it may come to
\* know of a package.
LEMMA StayKeeps ==
    ASSUME Inv, NEW w \in Worker, workers[w].pc \in Delivering, ~Done(w),
           NEW pc \in Delivering, workers' = [workers EXCEPT ![w].pc = pc],
           UNCHANGED <<outbox, inbox>>,
           pc = "building" => Current(w) = "project_export",
           pc = "handled" /\ Current(w) = "project_export" =>
               /\ jobs'[workers[w].event].state = "succeeded"
               /\ jobs'[workers[w].event].package > 0
    PROVE  /\ AtHandler(w, pc, workers[w].next, workers[w].holds) \in WorkerRow
           /\ workers' = [workers EXCEPT ![w] = AtHandler(w, pc, workers[w].next, workers[w].holds)]
           /\ WorkerInv(w)'
<1> DEFINE r == AtHandler(w, pc, workers[w].next, workers[w].holds)
<1>1. pc \in Phase
    BY DEF Delivering, Phase
<1>2. r \in WorkerRow
    BY <1>1 DEF Inv, TypeOK, WorkerRow, AtHandler
<1>3. workers' = [workers EXCEPT ![w] = r]
    BY <1>1, RowsWritten DEF Inv
<1>4. workers'[w] = r
    BY <1>3 DEF Inv, TypeOK
<1>5. WorkerInv(w)
    BY DEF Inv, WorkersInv
<1>6. Positioned(w)'
    BY <1>4, <1>5 DEF WorkerInv, Positioned, Delivering, Done, Current, AtHandler
<1>7. ClaimStands(w)'
    BY <1>4, <1>5 DEF WorkerInv, ClaimStands, AtHandler
<1>8. ReceiptsBehind(w)'
    BY <1>4, <1>5 DEF WorkerInv, ReceiptsBehind, AtHandler
<1>9. HandledIsBuilt(w)'
    BY <1>4 DEF HandledIsBuilt, Built, Current, AtHandler
<1>10. QED
    BY <1>2, <1>3, <1>6, <1>7, <1>8, <1>9 DEF WorkerInv

LEMMA CheckInboxKeeps ==
    ASSUME Inv, NEW w \in Worker, CheckInbox(w) PROVE Inv'
<1>1. /\ workers[w].pc = "handling" /\ ~Done(w)
      /\ UNCHANGED <<outbox, inbox, jobs, runs, losses, replays>>
    BY DEF CheckInbox
<1>2. runs' \in [Event -> [Handler -> Nat]] /\ losses' \in 0 .. MaxLosses
    BY <1>1 DEF Inv, TypeOK
<1>3. CASE Advance(w) /\ (\/ Current(w) \in workers[w].skip
                          \/ AlreadyProcessed(workers[w].event, Current(w)))
    <2> DEFINE r == AtHandler(w, "handling", workers[w].next + 1, workers[w].holds)
    <2>1. workers' = [workers EXCEPT ![w] = r]
        BY <1>3, RowsWritten DEF Inv
    <2>2. r \in WorkerRow /\ WorkerInv(w)'
        BY <1>1, <1>3, AdvanceKeeps DEF AlreadyProcessed, Delivering
    <2>3. r.holds = workers[w].holds /\ r.event = workers[w].event
        BY DEF AtHandler
    <2>4. QED
        BY <1>1, <1>2, <2>1, <2>2, <2>3, MoveKeeps
<1>4. CASE workers' = [workers EXCEPT ![w].pc = "running"]
    <2> DEFINE r == AtHandler(w, "running", workers[w].next, workers[w].holds)
    <2>1. workers' = [workers EXCEPT ![w] = r] /\ r \in WorkerRow /\ WorkerInv(w)'
        BY <1>1, <1>4, StayKeeps DEF Delivering
    <2>2. r.holds = workers[w].holds /\ r.event = workers[w].event
        BY DEF AtHandler
    <2>3. QED
        BY <1>1, <1>2, <2>1, <2>2, MoveKeeps
<1>5. QED
    BY <1>3, <1>4 DEF CheckInbox

\* A completed call is counted for the event and handler it belongs to.
LEMMA HandledTyped ==
    ASSUME TypeOK, NEW w \in Worker, Handled(w)
    PROVE  runs' \in [Event -> [Handler -> Nat]]
<1>1. /\ runs \in [Event -> [Handler -> Nat]]
      /\ runs' = [runs EXCEPT ![workers[w].event][Current(w)] = @ + 1]
    BY DEF TypeOK, Handled
<1>2. CASE workers[w].event \in Event /\ Current(w) \in Handler
    BY <1>1, <1>2
<1>3. CASE ~(workers[w].event \in Event /\ Current(w) \in Handler)
    BY <1>1, <1>3
<1>4. QED
    BY <1>2, <1>3

\* HandleLog and ReadJob: neither touches a job, and the export handler goes
\* on or returns by the state it read.
LEMMA HandlerReadsKeep ==
    ASSUME Inv, NEW w \in Worker, HandleLog(w) \/ ReadJob(w) PROVE Inv'
<1>1. /\ workers[w].pc = "running" /\ workers[w].pc \in Delivering
      /\ UNCHANGED <<outbox, inbox, jobs, losses, replays>>
    BY DEF HandleLog, ReadJob, Delivering
<1>2. /\ WorkerInv(w) /\ ~Done(w) /\ workers[w].event \in Event
      /\ losses' \in 0 .. MaxLosses
    BY <1>1 DEF Inv, TypeOK, WorkersInv, WorkerInv, Positioned
<1>3. CASE /\ Handled(w)
           /\ Current(w) = "project_export" => jobs[workers[w].event].state = "succeeded"
    <2> DEFINE r == AtHandler(w, "handled", workers[w].next, workers[w].holds)
    <2>1. Current(w) = "project_export" => Built(workers[w].event)
        BY <1>2, <1>3 DEF Inv, JobsMatch, Built
    <2>2. workers' = [workers EXCEPT ![w].pc = "handled"]
        BY <1>3 DEF Handled
    <2>3. workers' = [workers EXCEPT ![w] = r] /\ r \in WorkerRow /\ WorkerInv(w)'
        BY <1>1, <1>2, <2>1, <2>2, StayKeeps DEF Delivering, Built
    <2>4. r.holds = workers[w].holds /\ r.event = workers[w].event
        BY DEF AtHandler
    <2>5. runs' \in [Event -> [Handler -> Nat]]
        BY <1>3, HandledTyped DEF Inv
    <2>6. QED
        BY <1>1, <1>2, <2>3, <2>4, <2>5, MoveKeeps
<1>4. CASE /\ workers' = [workers EXCEPT ![w].pc = "building"] /\ UNCHANGED runs
           /\ Current(w) = "project_export"
    <2> DEFINE r == AtHandler(w, "building", workers[w].next, workers[w].holds)
    <2>1. workers' = [workers EXCEPT ![w] = r] /\ r \in WorkerRow /\ WorkerInv(w)'
        BY <1>1, <1>2, <1>4, StayKeeps DEF Delivering
    <2>2. r.holds = workers[w].holds /\ r.event = workers[w].event
        BY DEF AtHandler
    <2>3. runs' \in [Event -> [Handler -> Nat]]
        BY <1>4 DEF Inv, TypeOK
    <2>4. QED
        BY <1>1, <1>2, <2>1, <2>2, <2>3, MoveKeeps
<1>5. QED
    BY <1>3, <1>4 DEF HandleLog, ReadJob

\* The package is there when the handler returns: stored now, or standing.
LEMMA BuildExportKeeps ==
    ASSUME Inv, NEW w \in Worker, BuildExport(w) PROVE Inv'
<1> DEFINE e == workers[w].event
           r == AtHandler(w, "handled", workers[w].next, workers[w].holds)
<1>1. /\ workers[w].pc = "building" /\ workers[w].pc \in Delivering
      /\ StorePackage(e) /\ Handled(w)
      /\ UNCHANGED <<outbox, inbox, losses, replays>>
    BY DEF BuildExport, Delivering
<1>2. /\ WorkerInv(w) /\ ~Done(w) /\ Current(w) = "project_export"
      /\ e \in Event /\ outbox[e].status # "absent"
    BY <1>1 DEF Inv, WorkersInv, WorkerInv, Positioned
<1>3. /\ jobs \in [Event -> [state: {"none", "queued", "succeeded", "failed"}, package: Nat]]
      /\ runs[e]["project_export"] \in Nat
    BY <1>2, HandlersAre DEF Inv, TypeOK
<1>4. /\ jobs' \in [Event -> [state: {"none", "queued", "succeeded", "failed"}, package: Nat]]
      /\ jobs'[e].state = "succeeded" /\ jobs'[e].package > 0
      /\ \A f \in Event \ {e} : jobs'[f] = jobs[f]
      /\ jobs[e].state = "succeeded" => jobs'[e] = jobs[e]
    <2>1. CASE jobs[e].state = "succeeded"
        BY <1>1, <1>2, <1>3, <2>1 DEF StorePackage, Inv, JobsMatch
    <2>2. CASE jobs[e].state # "succeeded"
        <3>1. jobs' = [jobs EXCEPT ![e] =
                  [state |-> "succeeded", package |-> runs[e]["project_export"] + 1]]
            BY <1>1, <2>2 DEF StorePackage
        <3>2. QED
            BY <1>2, <1>3, <2>2, <3>1
    <2>3. QED
        BY <2>1, <2>2
<1>5. workers' = [workers EXCEPT ![w].pc = "handled"] /\ "handled" \in Delivering
    BY <1>1 DEF Handled, Delivering
<1>6. workers' = [workers EXCEPT ![w] = r] /\ r \in WorkerRow /\ WorkerInv(w)'
    BY <1>1, <1>2, <1>4, <1>5, StayKeeps
<1>7. TypeOK'
    <2>1. runs' \in [Event -> [Handler -> Nat]]
        BY <1>1, HandledTyped DEF Inv
    <2>2. workers' \in [Worker -> WorkerRow]
        BY <1>6 DEF Inv, TypeOK
    <2>3. QED
        BY <1>1, <1>4, <2>1, <2>2 DEF Inv, TypeOK
<1>8. JobsMatch' /\ WorkBeforeReceipt' /\ PublishedIsHandled'
    BY <1>1, <1>2, <1>4 DEF Inv, JobsMatch, WorkBeforeReceipt, PublishedIsHandled
<1>9. /\ workers'[w] = r /\ r.holds = workers[w].holds /\ r.event = workers[w].event
      /\ \A v \in Worker \ {w} : workers'[v] = workers[v]
    BY <1>6 DEF Inv, TypeOK, AtHandler
<1>10. WorkersInv'
    <2>1. \A v \in Worker \ {w} :
              workers'[w].holds /\ workers[v].holds => workers'[w].event # workers[v].event
        BY <1>9 DEF Inv, WorkersInv, OneClaim
    <2>2. \A f \in Event : jobs[f].state = "succeeded" => jobs'[f] = jobs[f]
        BY <1>4
    <2>3. QED
        BY <1>1, <1>6, <1>9, <2>1, <2>2, Bystanders
<1>11. QED
    BY <1>7, <1>8, <1>10 DEF Inv

\* The receipt of the export is written by a worker that has seen the package.
LEMMA ReceiveKeeps ==
    ASSUME Inv, NEW w \in Worker, Receive(w) PROVE Inv'
<1> DEFINE e == workers[w].event
           r == AtHandler(w, "handling", workers[w].next + 1, workers[w].holds)
<1>1. /\ workers[w].pc = "handled" /\ workers[w].pc \in Delivering
      /\ inbox' = inbox \cup {<<e, Current(w)>>} /\ Advance(w)
      /\ UNCHANGED <<outbox, jobs, runs, losses, replays>>
    BY DEF Receive, Delivering
<1>2. /\ WorkerInv(w) /\ ~Done(w) /\ e \in Event
      /\ Current(w) = "project_export" => Built(e)
    BY <1>1 DEF Inv, WorkersInv, WorkerInv, Positioned, HandledIsBuilt
<1>3. Current(w) \in Handler
    BY <1>2, CurrentIsHandler DEF Inv
<1>4. workers' = [workers EXCEPT ![w] = r] /\ r \in WorkerRow /\ WorkerInv(w)'
    BY <1>1, <1>2, AdvanceKeeps, RowsWritten DEF Inv
<1>5. TypeOK'
    <2>1. workers' \in [Worker -> WorkerRow]
        BY <1>4 DEF Inv, TypeOK
    <2>2. inbox' \subseteq Event \X Handler
        BY <1>1, <1>2, <1>3 DEF Inv, TypeOK
    <2>3. QED
        BY <1>1, <2>1, <2>2 DEF Inv, TypeOK
<1>6. JobsMatch' /\ PublishedIsHandled'
    BY <1>1 DEF Inv, JobsMatch, PublishedIsHandled
<1>7. WorkBeforeReceipt'
    BY <1>1, <1>2 DEF Inv, WorkBeforeReceipt, Built
<1>8. /\ workers'[w] = r /\ r.holds = workers[w].holds /\ r.event = workers[w].event
      /\ \A v \in Worker \ {w} : workers'[v] = workers[v]
    BY <1>4 DEF Inv, TypeOK, AtHandler
<1>9. WorkersInv'
    <2>1. \A v \in Worker \ {w} :
              workers'[w].holds /\ workers[v].holds => workers'[w].event # workers[v].event
        BY <1>8 DEF Inv, WorkersInv, OneClaim
    <2>2. QED
        BY <1>1, <1>4, <1>8, <2>1, Bystanders
<1>10. QED
    BY <1>5, <1>6, <1>7, <1>9 DEF Inv

---------------------------------------------------------------------------
(* The steps that mark the event *)

\* Only the worker with the claim writes the row, so that the attempts it adds
\* one to are still below the limit and the exclusions are those it read.
LEMMA ClaimantMarks ==
    ASSUME Inv, NEW w \in Worker, workers[w].holds,
           NEW s \in {"published", "dead", "due"},
           s = "due" => outbox[workers[w].event].attempts + 1 < MaxAttempts,
           outbox' = [outbox EXCEPT ![workers[w].event].status = s,
                                    ![workers[w].event].attempts = @ + 1]
    PROVE  /\ outbox' \in [Event -> [status: Status, attempts: 0 .. MaxAttempts, skip: SUBSET Handler]]
           /\ workers[w].event \in Event
           /\ outbox'[workers[w].event].status = s
           /\ outbox'[workers[w].event].skip = workers[w].skip
           /\ s = "due" => outbox'[workers[w].event].attempts < MaxAttempts
           /\ \A f \in Event \ {workers[w].event} : outbox'[f] = outbox[f]
<1> DEFINE e == workers[w].event
<1>1. /\ outbox \in [Event -> [status: Status, attempts: 0 .. MaxAttempts, skip: SUBSET Handler]]
      /\ e \in Event /\ outbox[e].status = "due" /\ outbox[e].skip = workers[w].skip
    BY DEF Inv, TypeOK, WorkersInv, WorkerInv, Positioned, ClaimStands, Delivering
<1>2. /\ outbox[e].attempts < MaxAttempts /\ outbox[e].attempts + 1 \in 0 .. MaxAttempts
      /\ s \in Status
    BY <1>1, OutboxAssumption DEF Inv, JobsMatch, Status
<1>3. outbox' = [outbox EXCEPT ![e] =
          [status |-> s, attempts |-> outbox[e].attempts + 1, skip |-> outbox[e].skip]]
    BY <1>1
<1>4. [status |-> s, attempts |-> outbox[e].attempts + 1, skip |-> outbox[e].skip]
          \in [status: Status, attempts: 0 .. MaxAttempts, skip: SUBSET Handler]
    BY <1>1, <1>2
<1>5. outbox' \in [Event -> [status: Status, attempts: 0 .. MaxAttempts, skip: SUBSET Handler]]
    BY <1>1, <1>3, <1>4
<1>6. /\ outbox'[e] = [status |-> s, attempts |-> outbox[e].attempts + 1, skip |-> outbox[e].skip]
      /\ \A f \in Event \ {e} : outbox'[f] = outbox[f]
    BY <1>1, <1>3
<1>7. /\ outbox'[e].status = s /\ outbox'[e].skip = workers[w].skip
      /\ s = "due" => outbox'[e].attempts < MaxAttempts
    BY <1>1, <1>6
<1>8. QED
    BY <1>1, <1>5, <1>6, <1>7

\* What a mark does to the rest: nothing, if what is marked published has its
\* receipts and the worker that marked it lets go of the claim.
LEMMA MarkKeeps ==
    ASSUME Inv, NEW w \in Worker, workers[w].holds,
           NEW s \in {"published", "dead", "due"},
           s = "due" => outbox[workers[w].event].attempts + 1 < MaxAttempts,
           outbox' = [outbox EXCEPT ![workers[w].event].status = s,
                                    ![workers[w].event].attempts = @ + 1],
           s = "published" =>
               \A h \in Handler \ workers[w].skip : <<workers[w].event, h>> \in inbox,
           NEW r \in WorkerRow, workers' = [workers EXCEPT ![w] = r], ~r.holds,
           losses' \in 0 .. MaxLosses,
           UNCHANGED <<inbox, jobs, runs, replays>>,
           WorkerInv(w)'
    PROVE  Inv'
<1> DEFINE e == workers[w].event
<1>1. /\ outbox' \in [Event -> [status: Status, attempts: 0 .. MaxAttempts, skip: SUBSET Handler]]
      /\ e \in Event
      /\ outbox'[e].status = s /\ outbox'[e].skip = workers[w].skip
      /\ s = "due" => outbox'[e].attempts < MaxAttempts
      /\ \A f \in Event \ {e} : outbox'[f] = outbox[f]
    BY ClaimantMarks
<1>2. workers' \in [Worker -> WorkerRow]
    BY DEF Inv, TypeOK
<1>3. TypeOK'
    BY <1>1, <1>2 DEF Inv, TypeOK
<1>4. JobsMatch'
    BY <1>1 DEF Inv, JobsMatch
<1>5. WorkBeforeReceipt'
    BY DEF Inv, WorkBeforeReceipt
<1>6. PublishedIsHandled'
    BY <1>1 DEF Inv, PublishedIsHandled
<1>7. workers'[w] = r /\ \A v \in Worker \ {w} : workers'[v] = workers[v]
    BY DEF Inv, TypeOK
<1>8. /\ \A f \in Event : outbox'[f] = outbox[f] \/ (workers[w].holds /\ f = workers[w].event)
      /\ \A f \in Event : outbox[f].status # "absent" => outbox'[f].status # "absent"
    BY <1>1
<1>9. WorkersInv'
    BY <1>7, <1>8, Bystanders
<1>10. QED
    BY <1>3, <1>4, <1>5, <1>6, <1>9 DEF Inv

LEMMA PublishKeeps ==
    ASSUME Inv, NEW w \in Worker, Publish(w) PROVE Inv'
<1> DEFINE e == workers[w].event
<1>1. /\ workers[w].pc = "handling" /\ Done(w)
      /\ workers' = [workers EXCEPT ![w] = Idle]
      /\ UNCHANGED <<inbox, jobs, runs, losses, replays>>
    BY DEF Publish
<1>2. Idle \in WorkerRow /\ ~Idle.holds /\ WorkerInv(w)'
    BY <1>1, IdleKeeps
<1>3. losses' \in 0 .. MaxLosses /\ runs' \in [Event -> [Handler -> Nat]]
    BY <1>1 DEF Inv, TypeOK
<1>4. CASE ~workers[w].holds
    BY <1>1, <1>2, <1>3, <1>4, MoveKeeps DEF Publish
<1>5. CASE workers[w].holds
    <2>1. outbox' = [outbox EXCEPT ![e].status = "published", ![e].attempts = @ + 1]
        BY <1>5 DEF Publish, Delivered
    <2>2. ReceiptsBehind(w) /\ workers[w].next - 1 = 2
        BY <1>1, HandlersAre DEF Inv, WorkersInv, WorkerInv, Done, TypeOK, WorkerRow
    <2>3. \A i \in {1, 2} : Handlers[i] \in workers[w].skip \/ <<e, Handlers[i]>> \in inbox
        BY <1>1, <2>2 DEF ReceiptsBehind, Delivering
    <2>4. \A h \in Handler \ workers[w].skip : <<e, h>> \in inbox
        BY <2>3, HandlersAre
    <2>5. QED
        BY <1>1, <1>2, <1>3, <1>5, <2>1, <2>4, MarkKeeps
<1>6. QED
    BY <1>4, <1>5

\* A worker that fails is idle, or, after the last attempt, on its way through
\* the dead-letter hooks; in both cases without a claim and behind no handler.
LEMMA FailKeeps ==
    ASSUME Inv, NEW w \in Worker, Fail(w) PROVE Inv'
<1> DEFINE e == workers[w].event
           r == AtHandler(w, "settling", 1, FALSE)
           s == IF outbox[e].attempts + 1 >= MaxAttempts THEN "dead" ELSE "due"
<1>1. /\ workers[w].pc \in Delivering
      /\ outbox' = IF workers[w].holds THEN Attempt(e) ELSE outbox
      /\ workers' = [workers EXCEPT ![w] =
              IF workers[w].holds /\ outbox'[e].status = "dead"
              THEN [@ EXCEPT !.pc = "settling", !.next = 1, !.holds = FALSE]
              ELSE Idle]
      /\ UNCHANGED <<inbox, jobs, runs, replays>>
    BY DEF Fail, Delivering
<1>2. losses' \in 0 .. MaxLosses /\ runs' \in [Event -> [Handler -> Nat]]
    <2>1. losses \in 0 .. MaxLosses
        BY DEF Inv, TypeOK
    <2>2. UNCHANGED losses \/ (losses < MaxLosses /\ losses' = losses + 1)
        BY Zenon DEF Fail
    <2>3. QED
        BY <1>1, <2>1, <2>2, OutboxAssumption DEF Inv, TypeOK
<1>3. CASE ~workers[w].holds
    <2>1. workers' = [workers EXCEPT ![w] = Idle] /\ outbox' = outbox
        BY <1>1, <1>3
    <2>2. Idle \in WorkerRow /\ ~Idle.holds /\ WorkerInv(w)'
        BY <2>1, IdleKeeps
    <2>3. QED
        BY <1>1, <1>2, <2>1, <2>2, MoveKeeps
<1>4. CASE workers[w].holds
    <2>1. outbox' = [outbox EXCEPT ![e].status = s, ![e].attempts = @ + 1]
        BY <1>1, <1>4 DEF Attempt
    <2>2. /\ s \in {"published", "dead", "due"} /\ s # "published"
          /\ s = "due" => outbox[e].attempts + 1 < MaxAttempts
        <3>1. e \in Event
            BY <1>1 DEF Inv, WorkersInv, WorkerInv, Positioned, Delivering
        <3>2. outbox[e].attempts \in Nat
            BY <3>1 DEF Inv, TypeOK
        <3>3. QED
            BY <3>2, OutboxAssumption
    <2>3. outbox'[e].status = s /\ e \in Event
        BY <1>4, <2>1, <2>2, ClaimantMarks, ZenonT(40)
    <2>4. CASE s = "dead"
        <3>1. workers[w] \in WorkerRow
            BY DEF Inv, TypeOK
        <3>2. ASSUME NEW y, y = [workers[w] EXCEPT !.pc = "settling", !.next = 1, !.holds = FALSE]
              PROVE  y = r
            BY <3>1, <3>2 DEF AtHandler, WorkerRow
        <3>3. workers' = [workers EXCEPT ![w] = r]
            BY <1>1, <1>4, <2>3, <2>4, <3>2
        <3>4. r \in WorkerRow /\ ~r.holds
            BY <3>1, HandlersAre DEF AtHandler, WorkerRow, Phase
        <3>5. workers'[w] = r
            BY <3>3 DEF Inv, TypeOK
        <3>6. WorkerInv(w)'
            BY <2>3, <2>4, <3>5
                DEF WorkerInv, Positioned, ClaimStands, ReceiptsBehind, HandledIsBuilt,
                    Delivering, AtHandler
        <3>7. QED
            BY <1>1, <1>2, <1>4, <2>1, <2>2, <3>3, <3>4, <3>6, MarkKeeps
    <2>5. CASE s # "dead"
        <3>1. workers' = [workers EXCEPT ![w] = Idle]
            BY <1>1, <2>3, <2>5
        <3>2. Idle \in WorkerRow /\ ~Idle.holds /\ WorkerInv(w)'
            BY <3>1, IdleKeeps
        <3>3. QED
            BY <1>1, <1>2, <1>4, <2>1, <2>2, <3>1, <3>2, MarkKeeps
    <2>6. QED
        BY <2>4, <2>5
<1>5. QED
    BY <1>3, <1>4

---------------------------------------------------------------------------
(* The dead-letter hooks *)

\* Past the mark a worker holds no claim and knows only its event.
LEMMA SettlingKnows ==
    ASSUME Inv, NEW w \in Worker, workers[w].pc \in {"settling", "closing"},
           NEW pc \in {"settling", "closing"},
           NEW next \in 1 .. Len(Handlers) + 1,
           pc = "closing" => next = workers[w].next /\ ~Done(w) /\ Current(w) = "project_export",
           workers' = [workers EXCEPT ![w] = AtHandler(w, pc, next, workers[w].holds)],
           UNCHANGED outbox
    PROVE  /\ AtHandler(w, pc, next, workers[w].holds) \in WorkerRow
           /\ ~workers[w].holds
           /\ WorkerInv(w)'
<1> DEFINE r == AtHandler(w, pc, next, workers[w].holds)
<1>1. WorkerInv(w) /\ workers[w] \in WorkerRow
    BY DEF Inv, WorkersInv, TypeOK
<1>2. ~workers[w].holds
    BY <1>1 DEF WorkerInv, ClaimStands, Delivering
<1>3. r \in WorkerRow
    BY <1>1 DEF AtHandler, WorkerRow, Phase
<1>4. workers'[w] = r
    BY DEF Inv, TypeOK
<1>5. Positioned(w)'
    BY <1>1, <1>4 DEF WorkerInv, Positioned, Done, Current, AtHandler
<1>6. ClaimStands(w)' /\ ReceiptsBehind(w)' /\ HandledIsBuilt(w)'
    BY <1>2, <1>4 DEF ClaimStands, ReceiptsBehind, HandledIsBuilt, Delivering, AtHandler
<1>7. QED
    BY <1>2, <1>3, <1>5, <1>6 DEF WorkerInv

LEMMA SettleCheckKeeps ==
    ASSUME Inv, NEW w \in Worker, SettleCheck(w) PROVE Inv'
<1>1. /\ workers[w].pc = "settling" /\ workers[w].pc \in {"settling", "closing"}
      /\ UNCHANGED <<outbox, inbox, jobs, runs, losses, replays>>
    BY DEF SettleCheck
<1>2. runs' \in [Event -> [Handler -> Nat]] /\ losses' \in 0 .. MaxLosses
    BY <1>1 DEF Inv, TypeOK
<1>3. CASE workers' = [workers EXCEPT ![w] = Idle]
    BY <1>1, <1>2, <1>3, IdleKeeps, MoveKeeps
<1>4. CASE ~Done(w) /\ workers' = [workers EXCEPT ![w] = [workers[w] EXCEPT !.next = @ + 1]]
    <2> DEFINE r == AtHandler(w, "settling", workers[w].next + 1, workers[w].holds)
    <2>1. workers[w].next + 1 \in 1 .. Len(Handlers) + 1
        BY <1>4, CurrentIsHandler DEF Inv
    <2>2. workers[w] \in WorkerRow
        BY DEF Inv, TypeOK
    <2>3. ASSUME NEW y, y = [workers[w] EXCEPT !.next = @ + 1] PROVE y = r
        BY <1>1, <2>2, <2>3 DEF AtHandler, WorkerRow
    <2>4. workers' = [workers EXCEPT ![w] = r]
        BY <1>4, <2>3
    <2>5. r \in WorkerRow /\ ~workers[w].holds /\ WorkerInv(w)'
        BY <1>1, <2>1, <2>4, SettlingKnows
    <2>6. ~r.holds
        BY <2>5 DEF AtHandler
    <2>7. QED
        BY <1>1, <1>2, <2>4, <2>5, <2>6, MoveKeeps
<1>5. CASE /\ ~Done(w) /\ Current(w) = "project_export"
           /\ workers' = [workers EXCEPT ![w] = [workers[w] EXCEPT !.pc = "closing"]]
    <2> DEFINE r == AtHandler(w, "closing", workers[w].next, workers[w].holds)
    <2>1. workers[w] \in WorkerRow
        BY DEF Inv, TypeOK
    <2>2. ASSUME NEW y, y = [workers[w] EXCEPT !.pc = "closing"] PROVE y = r
        BY <2>1, <2>2 DEF AtHandler, WorkerRow
    <2>3. workers' = [workers EXCEPT ![w] = r] /\ workers[w].next \in 1 .. Len(Handlers) + 1
        BY <1>5, <2>1, <2>2 DEF WorkerRow
    <2>4. r \in WorkerRow /\ ~workers[w].holds /\ WorkerInv(w)'
        BY <1>1, <1>5, <2>3, SettlingKnows
    <2>5. ~r.holds
        BY <2>4 DEF AtHandler
    <2>6. QED
        BY <1>1, <1>2, <2>3, <2>4, <2>5, MoveKeeps
<1>6. QED
    BY <1>3, <1>4, <1>5 DEF SettleCheck

\* A job that waits is closed; one that is built is left as it is.
LEMMA SettleJobKeeps ==
    ASSUME Inv, NEW w \in Worker, SettleJob(w) PROVE Inv'
<1> DEFINE e == workers[w].event
           r == AtHandler(w, "settling", workers[w].next + 1, workers[w].holds)
<1>1. /\ workers[w].pc = "closing" /\ workers[w].pc \in {"settling", "closing"}
      /\ jobs' = CloseJob(e)
      /\ UNCHANGED <<outbox, inbox, runs, losses, replays>>
    BY DEF SettleJob
<1>2. /\ ~Done(w) /\ e \in Event /\ outbox[e].status # "absent"
    BY <1>1 DEF Inv, WorkersInv, WorkerInv, Positioned
<1>3. workers[w].next + 1 \in 1 .. Len(Handlers) + 1
    BY <1>2, CurrentIsHandler DEF Inv
<1>4. workers' = [workers EXCEPT ![w] = r]
    BY RowsWritten DEF SettleJob, Inv
<1>5. r \in WorkerRow /\ ~workers[w].holds /\ WorkerInv(w)'
    BY <1>1, <1>3, <1>4, SettlingKnows
<1>6. jobs \in [Event -> [state: {"none", "queued", "succeeded", "failed"}, package: Nat]]
    BY DEF Inv, TypeOK
<1>7. /\ jobs' \in [Event -> [state: {"none", "queued", "succeeded", "failed"}, package: Nat]]
      /\ jobs'[e].state = "succeeded" => jobs[e].state = "succeeded"
      /\ \A f \in Event \ {e} : jobs'[f] = jobs[f]
      /\ jobs[e].state = "succeeded" => jobs'[e] = jobs[e]
    BY <1>1, <1>2, <1>6 DEF CloseJob
<1>8. TypeOK'
    <2>1. workers' \in [Worker -> WorkerRow]
        BY <1>4, <1>5 DEF Inv, TypeOK
    <2>2. QED
        BY <1>1, <1>7, <2>1 DEF Inv, TypeOK
<1>9. JobsMatch' /\ WorkBeforeReceipt' /\ PublishedIsHandled'
    BY <1>1, <1>2, <1>7 DEF Inv, JobsMatch, WorkBeforeReceipt, PublishedIsHandled
<1>10. WorkersInv'
    <2>1. /\ workers'[w] = r /\ ~r.holds
          /\ \A v \in Worker \ {w} : workers'[v] = workers[v]
        BY <1>4, <1>5 DEF Inv, TypeOK, AtHandler
    <2>2. \A f \in Event : jobs[f].state = "succeeded" => jobs'[f] = jobs[f]
        BY <1>7
    <2>3. QED
        BY <1>1, <1>5, <2>1, <2>2, Bystanders
<1>11. QED
    BY <1>8, <1>9, <1>10 DEF Inv

---------------------------------------------------------------------------
(* The claim *)

\* A worker takes an event nobody claims, and what it read is what the row says.
LEMMA ClaimKeeps ==
    ASSUME Inv, NEW w \in Worker, NEW e \in Event, Claim(w, e) PROVE Inv'
<1> DEFINE r == [pc |-> "handling", event |-> e, next |-> 1, skip |-> outbox[e].skip,
                 holds |-> TRUE]
<1>1. /\ outbox[e].status = "due" /\ ~Claimed(e)
      /\ workers' = [workers EXCEPT ![w] = r]
      /\ UNCHANGED <<outbox, inbox, jobs, runs, losses, replays>>
    BY DEF Claim
<1>2. r \in WorkerRow
    BY HandlersAre DEF Inv, TypeOK, WorkerRow, Phase
<1>3. /\ workers' \in [Worker -> WorkerRow] /\ workers'[w] = r
      /\ \A v \in Worker \ {w} : workers'[v] = workers[v]
    BY <1>1, <1>2 DEF Inv, TypeOK
<1>4. TypeOK'
    BY <1>1, <1>3 DEF Inv, TypeOK
<1>5. JobsMatch' /\ WorkBeforeReceipt' /\ PublishedIsHandled'
    BY <1>1 DEF Inv, JobsMatch, WorkBeforeReceipt, PublishedIsHandled
<1>6. WorkerInv(w)'
    BY <1>1, <1>3
        DEF WorkerInv, Positioned, ClaimStands, ReceiptsBehind, HandledIsBuilt, Delivering
<1>7. \A v \in Worker \ {w} :
          workers'[w].holds /\ workers[v].holds => workers'[w].event # workers[v].event
    BY <1>1, <1>3 DEF Claimed
<1>8. WorkersInv'
    BY <1>1, <1>3, <1>6, <1>7, Bystanders
<1>9. QED
    BY <1>4, <1>5, <1>8 DEF Inv

---------------------------------------------------------------------------
(* The theorems *)

LEMMA StepKeeps ==
    ASSUME Inv, [Next]_vars PROVE Inv'
<1>1. ASSUME NEW w \in Worker, Work(w) PROVE Inv'
    BY <1>1, ClaimKeeps, CheckInboxKeeps, HandlerReadsKeep, BuildExportKeeps, ReceiveKeeps,
       PublishKeeps, FailKeeps, SettleCheckKeeps, SettleJobKeeps
        DEF Work
<1>2. CASE UNCHANGED vars
    <2>1. TypeOK' /\ JobsMatch' /\ WorkBeforeReceipt' /\ PublishedIsHandled'
        BY <1>2 DEF vars, Inv, TypeOK, JobsMatch, WorkBeforeReceipt, PublishedIsHandled
    <2>2. OneClaim'
        BY <1>2 DEF vars, Inv, WorkersInv, OneClaim
    <2>3. ASSUME NEW w \in Worker PROVE WorkerInv(w)'
        BY <1>2 DEF vars, Inv, WorkersInv, WorkerInv, Positioned, ClaimStands, ReceiptsBehind,
                    HandledIsBuilt, Built, Done, Current
    <2>4. QED
        BY <2>1, <2>2, <2>3 DEF Inv, WorkersInv
<1>3. QED
    BY <1>1, <1>2, RequestKeeps, ReplayKeeps, CutOffKeeps, LoseClaimKeeps DEF Next, Quiet

LEMMA InvAlways == Spec => []Inv
<1>1. Init => Inv
    BY InitInv
<1>2. Inv /\ [Next]_vars => Inv'
    BY StepKeeps
<1>3. QED
    BY <1>1, <1>2, PTL DEF Spec

\* The queue, the receipts, the jobs and the workers keep their types; that the
\* attempts stay within OUTBOX_MAX_ATTEMPTS is where the claim is needed.
THEOREM TypeCorrect == Spec => []TypeOK
<1>1. Inv => TypeOK
    BY DEF Inv
<1>2. QED
    BY <1>1, InvAlways, PTL

\* An event the export is marked done with has its package, for any number of
\* workers, attempts, crashes, lost claims and replays.
THEOREM ReceiptsAreEarned == Spec => []WorkBeforeReceipt
<1>1. Inv => WorkBeforeReceipt
    BY DEF Inv
<1>2. QED
    BY <1>1, InvAlways, PTL

\* A published event has a receipt of every handler it was not excluded from,
\* even where a worker that lost its claim runs beside the one that took over.
THEOREM PublishedMeansHandled == Spec => []PublishedIsHandled
<1>1. Inv => PublishedIsHandled
    BY DEF Inv
<1>2. QED
    BY <1>1, InvAlways, PTL

\* The first package stands: no step replaces a built export or takes it back.
THEOREM ExportIsKept == Spec => ExportStands
<1>1. ASSUME Inv, [Next]_vars
      PROVE  [\A e \in Event : jobs[e].state = "succeeded" => jobs'[e] = jobs[e]]_vars
    BY <1>1, JobsStand DEF Inv
<1>2. QED
    BY <1>1, InvAlways, PTL DEF Spec, ExportStands

---------------------------------------------------------------------------
(* Deliveries and mail: what a worker holds, and what it may still send.   *)

SenderRows == [pc : Phases, row : Addressed \cup Mail \cup {NoRow},
               arrived : BOOLEAN, holds : BOOLEAN]

\* Where a worker stands tells which table its row is of.
Sits(s) ==
    /\ s \in SenderRows
    /\ s.pc = "hooking" => s.row \in Addressed
    /\ s.pc = "mailing" => s.row \in Mail
    /\ s.holds => s.pc \in {"hooking", "mailing"}

OneHolder ==
    \A v, w \in Sender :
        v # w /\ senders[v].holds /\ senders[w].holds => senders[v].row # senders[w].row

\* No other worker holds the row of this one.
Alone(w, s) ==
    s.holds => \A v \in Sender \ {w} : ~(senders[v].holds /\ senders[v].row = s.row)

SendersInv ==
    /\ senders \in [Sender -> SenderRows]
    /\ \A w \in Sender : Sits(senders[w])
    /\ OneHolder

\* A worker that lost its session before the call went out makes a call no
\* attempt is recorded for; the cut paid for it.  A worker that holds its row
\* after the call still has the attempt to record.
LostAt(s, pc, x) == s.pc = pc /\ s.row = x /\ ~s.holds /\ ~s.arrived
OutAt(s, pc, x)  == s.pc = pc /\ s.row = x /\ s.holds /\ s.arrived
Lost(pc, x) == {w \in Sender : LostAt(senders[w], pc, x)}
Out(pc, x)  == IF \E w \in Sender : OutAt(senders[w], pc, x) THEN 1 ELSE 0
Spare(pc, x) == Out(pc, x) - Cardinality(Lost(pc, x))

\* What one worker adds to the above.
Credit(s, pc, x) == IF OutAt(s, pc, x) THEN 1 ELSE IF LostAt(s, pc, x) THEN -1 ELSE 0

LEMMA LostIsFinite ==
    ASSUME NEW pc, NEW x
    PROVE  IsFiniteSet(Lost(pc, x)) /\ Cardinality(Lost(pc, x)) \in Nat
<1>1. Lost(pc, x) \in SUBSET Sender
    BY DEF Lost
<1> QED
    BY <1>1, DeliveryAssumption, FS_Subset, FS_CardinalityType

LEMMA SpareIsInt ==
    ASSUME NEW pc, NEW x
    PROVE  Spare(pc, x) \in Int /\ Spare(pc, x) <= Out(pc, x) /\ Out(pc, x) \in {0, 1}
BY LostIsFinite DEF Spare, Out

\* One worker moves.
LEMMA SpareMoves ==
    ASSUME SendersInv, NEW w \in Sender, NEW s,
           senders' = [senders EXCEPT ![w] = s],
           Alone(w, s),
           NEW pc, NEW x
    PROVE  /\ Spare(pc, x)' \in Int
           /\ Spare(pc, x)' >= Spare(pc, x) + Credit(s, pc, x) - Credit(senders[w], pc, x)
<1> DEFINE L == Lost(pc, x)
           LL == {v \in Sender : LostAt(senders'[v], pc, x)}
           n == Cardinality(L)
           nn == Cardinality(LL)
           o == IF \E v \in Sender : OutAt(senders[v], pc, x) THEN 1 ELSE 0
           oo == IF \E v \in Sender : OutAt(senders'[v], pc, x) THEN 1 ELSE 0
<1>1. \A v \in Sender : senders'[v] = IF v = w THEN s ELSE senders[v]
    BY DEF SendersInv
<1>2. /\ Spare(pc, x) = o - n
      /\ Spare(pc, x)' = oo - nn
    BY DEF Spare, Out, Lost
<1>3. IsFiniteSet(L) /\ n \in Nat
    BY LostIsFinite
<1>4. /\ LostAt(s, pc, x) => LL = L \cup {w}
      /\ ~LostAt(s, pc, x) => LL = L \ {w}
      /\ w \in L <=> LostAt(senders[w], pc, x)
    BY <1>1 DEF Lost
<1> HIDE DEF L, LL, n, nn
<1>5. /\ LostAt(s, pc, x) => nn = IF LostAt(senders[w], pc, x) THEN n ELSE n + 1
      /\ ~LostAt(s, pc, x) => nn = IF LostAt(senders[w], pc, x) THEN n - 1 ELSE n
    BY <1>3, <1>4, FS_AddElement, FS_RemoveElement DEF n, nn
<1>6. oo + (IF OutAt(senders[w], pc, x) THEN 1 ELSE 0) >= o + (IF OutAt(s, pc, x) THEN 1 ELSE 0)
    BY <1>1 DEF OutAt, SendersInv, OneHolder, Alone
<1>7. /\ ~(OutAt(s, pc, x) /\ LostAt(s, pc, x))
      /\ ~(OutAt(senders[w], pc, x) /\ LostAt(senders[w], pc, x))
    BY DEF OutAt, LostAt
<1>8. o \in {0, 1} /\ oo \in {0, 1}
    OBVIOUS
<1> HIDE DEF o, oo
<1> QED
    BY <1>2, <1>3, <1>5, <1>6, <1>7, <1>8 DEF Credit

LEMMA SendersMove ==
    ASSUME SendersInv, NEW w \in Sender, NEW s, Sits(s),
           senders' = [senders EXCEPT ![w] = s],
           Alone(w, s)
    PROVE  /\ SendersInv'
           /\ \A v \in Sender : senders'[v] = IF v = w THEN s ELSE senders[v]
<1>1. \A v \in Sender : senders'[v] = IF v = w THEN s ELSE senders[v]
    BY DEF SendersInv
<1>2. senders' \in [Sender -> SenderRows]
    BY DEF SendersInv, Sits
<1>3. OneHolder'
    BY <1>1 DEF SendersInv, OneHolder, Alone
<1> QED
    BY <1>1, <1>2, <1>3 DEF SendersInv
---------------------------------------------------------------------------
(* Deliveries to webhooks *)

HookRows == [state : {"none", "pending", "delivered", "failed"}, tries : 0 .. MaxTries, due : BOOLEAN]

\* A row that is not settled has an attempt left.
HookRowStands(d) ==
    /\ deliveries[d].state = "none" => deliveries[d].tries = 0
    /\ deliveries[d].state = "pending" => deliveries[d].tries < MaxTries
    /\ deliveries[d].state = "delivered" => hooked[d] > 0

CallerStands(w) ==
    senders[w].pc = "hooking" =>
        /\ senders[w].holds => deliveries[senders[w].row].state = "pending"
        /\ senders[w].arrived => hooked[senders[w].row] > 0

\* Every call is one of an attempt recorded, one whose attempt is about to be
\* recorded, or one a cut paid for.
CallsAreCounted ==
    \A d \in Addressed : hooked[d] <= deliveries[d].tries + Spare("hooking", d) + cuts

HooksInv ==
    /\ deliveries \in [Addressed -> HookRows]
    /\ hooked \in [Addressed -> Nat]
    /\ cuts \in Nat
    /\ \A d \in Addressed : HookRowStands(d)
    /\ \A w \in Sender : CallerStands(w)
    /\ CallsAreCounted

LEMMA HookTypes ==
    ASSUME HooksInv, NEW d \in Addressed
    PROVE  /\ deliveries[d] \in HookRows
           /\ deliveries[d].tries \in 0 .. MaxTries
           /\ hooked[d] \in Nat /\ cuts \in Nat
           /\ MaxTries \in Nat \ {0}
BY DeliveryAssumption DEF HooksInv, HookRows

\* A worker moves and no delivery does: a cut may be charged for it.
LEMMA HooksKeep ==
    ASSUME SendersInv, HooksInv, NEW w \in Sender, NEW s, Sits(s),
           senders' = [senders EXCEPT ![w] = s],
           Alone(w, s),
           UNCHANGED <<deliveries, hooked>>,
           cuts' \in Nat,
           \A d \in Addressed :
              cuts' - cuts + Credit(s, "hooking", d) >= Credit(senders[w], "hooking", d),
           s.pc = "hooking" =>
              /\ s.holds => deliveries[s.row].state = "pending"
              /\ s.arrived => hooked[s.row] > 0
    PROVE  SendersInv' /\ HooksInv'
<1>1. /\ SendersInv'
      /\ \A v \in Sender : senders'[v] = IF v = w THEN s ELSE senders[v]
    BY SendersMove
<1>2. \A v \in Sender : CallerStands(v)'
    BY <1>1 DEF HooksInv, CallerStands
<1>3. CallsAreCounted'
    <2> SUFFICES ASSUME NEW d \in Addressed
                 PROVE  hooked'[d] <= deliveries'[d].tries + Spare("hooking", d)' + cuts'
        BY DEF CallsAreCounted
    <2>1. /\ Spare("hooking", d)' \in Int
          /\ Spare("hooking", d)' >= Spare("hooking", d) + Credit(s, "hooking", d)
                                       - Credit(senders[w], "hooking", d)
        BY SpareMoves
    <2>2. hooked[d] <= deliveries[d].tries + Spare("hooking", d) + cuts
        BY DEF HooksInv, CallsAreCounted
    <2>3. /\ Spare("hooking", d) \in Int
          /\ Credit(s, "hooking", d) \in Int /\ Credit(senders[w], "hooking", d) \in Int
        BY SpareIsInt DEF Credit
    <2> QED
        BY <2>1, <2>2, <2>3, HookTypes
<1> QED
    BY <1>1, <1>2, <1>3 DEF HooksInv, HookRowStands
\* A worker moves and its delivery moves with it.
LEMMA HooksMove ==
    ASSUME SendersInv, HooksInv, NEW w \in Sender, NEW s, Sits(s), Alone(w, s),
           senders' = [senders EXCEPT ![w] = s],
           NEW d \in Addressed, NEW row \in HookRows, NEW n \in Nat,
           deliveries' = [deliveries EXCEPT ![d] = row],
           hooked' = [hooked EXCEPT ![d] = n],
           cuts' = cuts,
           n >= hooked[d],
           n + Credit(senders[w], "hooking", d)
             <= hooked[d] + row.tries - deliveries[d].tries + Credit(s, "hooking", d),
           \A x \in Addressed \ {d} : Credit(s, "hooking", x) >= Credit(senders[w], "hooking", x),
           row.state = "none" => row.tries = 0,
           row.state = "pending" => row.tries < MaxTries,
           row.state = "delivered" => n > 0,
           s.pc = "hooking" =>
              /\ s.row = d
              /\ s.holds => row.state = "pending"
              /\ s.arrived => n > 0,
           \/ row.state = "pending"
           \/ \A v \in Sender \ {w} :
                 ~(senders[v].pc = "hooking" /\ senders[v].holds /\ senders[v].row = d)
    PROVE  SendersInv' /\ HooksInv'
<1>1. /\ SendersInv'
      /\ \A v \in Sender : senders'[v] = IF v = w THEN s ELSE senders[v]
    BY SendersMove
<1>2. /\ deliveries' \in [Addressed -> HookRows]
      /\ hooked' \in [Addressed -> Nat]
      /\ \A x \in Addressed : /\ deliveries'[x] = IF x = d THEN row ELSE deliveries[x]
                              /\ hooked'[x] = IF x = d THEN n ELSE hooked[x]
    BY DEF HooksInv
<1>3. \A v \in Sender : CallerStands(v)'
    <2> SUFFICES ASSUME NEW v \in Sender, senders'[v].pc = "hooking"
                 PROVE  /\ senders'[v].holds => deliveries'[senders'[v].row].state = "pending"
                        /\ senders'[v].arrived => hooked'[senders'[v].row] > 0
        BY DEF CallerStands
    <2>1. CASE v = w
        BY <1>1, <1>2, <2>1
    <2>2. CASE v # w
        <3>1. senders'[v] = senders[v] /\ senders[v].row \in Addressed
            BY <1>1, <2>2 DEF SendersInv, Sits
        <3>2. /\ senders[v].holds => deliveries[senders[v].row].state = "pending"
              /\ senders[v].arrived => hooked[senders[v].row] > 0
            BY <3>1 DEF HooksInv, CallerStands
        <3>3. hooked[senders[v].row] \in Nat /\ hooked[d] \in Nat
            BY <3>1, HookTypes
        <3> QED
            BY <1>2, <2>2, <3>1, <3>2, <3>3
    <2> QED
        BY <2>1, <2>2
<1>4. CallsAreCounted'
    <2> SUFFICES ASSUME NEW x \in Addressed
                 PROVE  hooked'[x] <= deliveries'[x].tries + Spare("hooking", x)' + cuts'
        BY DEF CallsAreCounted
    <2>1. /\ Spare("hooking", x)' \in Int
          /\ Spare("hooking", x)' >= Spare("hooking", x) + Credit(s, "hooking", x)
                                       - Credit(senders[w], "hooking", x)
        BY SpareMoves
    <2>2. hooked[x] <= deliveries[x].tries + Spare("hooking", x) + cuts
        BY DEF HooksInv, CallsAreCounted
    <2>3. /\ Spare("hooking", x) \in Int
          /\ Credit(s, "hooking", x) \in Int /\ Credit(senders[w], "hooking", x) \in Int
        BY SpareIsInt DEF Credit
    <2>4. row.tries \in Nat
        BY HookTypes DEF HookRows
    <2>5. /\ hooked[x] \in Nat /\ deliveries[x].tries \in Nat /\ cuts \in Nat
        BY HookTypes
    <2>6. CASE x = d
        <3>1. hooked'[x] = n /\ deliveries'[x] = row
            BY <1>2, <2>6
        <3> QED
            BY <2>1, <2>2, <2>3, <2>4, <2>5, <2>6, <3>1
    <2>7. CASE x # d
        <3>1. hooked'[x] = hooked[x] /\ deliveries'[x] = deliveries[x]
            BY <1>2, <2>7
        <3>2. Credit(s, "hooking", x) >= Credit(senders[w], "hooking", x)
            BY <2>7
        <3> QED
            BY <2>1, <2>2, <2>3, <2>5, <3>1, <3>2
    <2> QED
        BY <2>6, <2>7
<1>5. \A x \in Addressed : HookRowStands(x)'
    BY <1>2 DEF HooksInv, HookRowStands
<1> QED
    BY <1>1, <1>2, <1>3, <1>4, <1>5 DEF HooksInv

\* What a worker is worth in each place.
LEMMA Credits ==
    ASSUME NEW s, NEW pc, NEW x
    PROVE  /\ s.pc # pc \/ s.row # x => Credit(s, pc, x) = 0
           /\ s.pc = pc /\ s.row = x /\ s.holds => Credit(s, pc, x) = IF s.arrived THEN 1 ELSE 0
           /\ s.pc = pc /\ s.row = x /\ ~s.holds => Credit(s, pc, x) = IF s.arrived THEN 0 ELSE -1
BY DEF Credit, OutAt, LostAt

\* Between two rows a worker is worth nothing.
LEMMA AtRest ==
    ASSUME NEW w \in Sender, NEW pc \in {"sweeps", "hooks", "mail"}
    PROVE  LET s == [AtSweeps EXCEPT !.pc = pc] IN
           /\ Sits(s) /\ Alone(w, s) /\ s.pc = pc /\ ~s.holds
           /\ \A x : Credit(s, "hooking", x) = 0 /\ Credit(s, "mailing", x) = 0
<1> DEFINE s == [AtSweeps EXCEPT !.pc = pc]
<1>1. /\ AtSweeps \in SenderRows /\ pc \in Phases
      /\ AtSweeps.row = NoRow /\ ~AtSweeps.arrived /\ ~AtSweeps.holds
    BY DEF AtSweeps, SenderRows, Phases
<1>2. s \in SenderRows /\ s.pc = pc /\ s.row = NoRow /\ ~s.arrived /\ ~s.holds
    BY <1>1 DEF SenderRows
<1> HIDE DEF s
<1>3. Sits(s) /\ Alone(w, s) /\ s.pc = pc /\ ~s.holds
    BY <1>2 DEF Sits, Alone
<1>4. \A x : Credit(s, "hooking", x) = 0 /\ Credit(s, "mailing", x) = 0
    BY <1>3, Credits
<1> QED
    BY <1>3, <1>4 DEF s

\* Locked rows and rows a claim may take.
LEMMA Unlocked ==
    ASSUME SendersInv, NEW x, ~Locked(x)
    PROVE  \A v \in Sender : ~(senders[v].holds /\ senders[v].row = x)
BY DEF Locked
LEMMA Resting ==
    ASSUME NEW w \in Sender, NEW pc \in {"sweeps", "hooks", "mail"}, Goes(w, pc)
    PROVE  \E s : /\ Sits(s) /\ Alone(w, s) /\ s.pc = pc /\ ~s.holds
                  /\ senders' = [senders EXCEPT ![w] = s]
                  /\ \A x : Credit(s, "hooking", x) = 0 /\ Credit(s, "mailing", x) = 0
<1> DEFINE s == [AtSweeps EXCEPT !.pc = pc]
<1>1. senders' = [senders EXCEPT ![w] = s]
    BY DEF Goes
<1>2. /\ Sits(s) /\ Alone(w, s) /\ s.pc = pc /\ ~s.holds
      /\ \A x : Credit(s, "hooking", x) = 0 /\ Credit(s, "mailing", x) = 0
    BY AtRest
<1> HIDE DEF s
<1> QED
    BY <1>1, <1>2

\* Steps that touch no delivery and no worker that is at one.
LEMMA HooksIdle ==
    ASSUME SendersInv, HooksInv, UNCHANGED <<deliveries, hooked, cuts>>,
           \/ UNCHANGED senders
           \/ \E w \in Sender : \E s : /\ Sits(s) /\ Alone(w, s) /\ senders' = [senders EXCEPT ![w] = s]
                                       /\ senders[w].pc # "hooking" /\ s.pc # "hooking"
    PROVE  SendersInv' /\ HooksInv'
<1>1. CASE UNCHANGED senders
    BY <1>1 DEF SendersInv, OneHolder, HooksInv, HookRowStands, CallerStands, CallsAreCounted,
                Spare, Out, Lost
<1>2. ASSUME NEW w \in Sender, NEW s, Sits(s), Alone(w, s), senders' = [senders EXCEPT ![w] = s],
             senders[w].pc # "hooking", s.pc # "hooking"
      PROVE  SendersInv' /\ HooksInv'
    <2>1. \A d \in Addressed : /\ Credit(s, "hooking", d) = 0
                               /\ Credit(senders[w], "hooking", d) = 0
        BY <1>2, Credits
    <2>2. cuts' \in Nat /\ cuts' = cuts
        BY DEF HooksInv
    <2>3. \A d \in Addressed : cuts' - cuts + Credit(s, "hooking", d) >= Credit(senders[w], "hooking", d)
        BY <2>1, <2>2
    <2> QED
        BY <1>2, <2>2, <2>3, HooksKeep
<1> QED
    BY <1>1, <1>2

LEMMA HookDueHolds ==
    ASSUME SendersInv, HooksInv, NEW d \in Addressed, HookDue(d)
    PROVE  SendersInv' /\ HooksInv'
<1>1. /\ deliveries' = [deliveries EXCEPT ![d].due = TRUE]
      /\ UNCHANGED <<senders, hooked, cuts>>
    BY DEF HookDue
<1>2. /\ deliveries' \in [Addressed -> HookRows]
      /\ \A x \in Addressed : /\ deliveries'[x].state = deliveries[x].state
                              /\ deliveries'[x].tries = deliveries[x].tries
    BY <1>1 DEF HooksInv, HookRows
<1>3. SendersInv' /\ \A pc, x : Spare(pc, x)' = Spare(pc, x)
    BY <1>1 DEF SendersInv, OneHolder, Spare, Out, Lost
<1>4. \A v \in Sender : CallerStands(v)'
    BY <1>1, <1>2 DEF HooksInv, CallerStands, SendersInv, Sits
<1> QED
    BY <1>1, <1>2, <1>3, <1>4 DEF HooksInv, HookRowStands, CallsAreCounted

LEMMA NotifyHolds ==
    ASSUME SendersInv, HooksInv, NEW m \in Notice, Notify(m)
    PROVE  SendersInv' /\ HooksInv'
<1>1. /\ \A s \in Sink : deliveries[<<m, s>>].state = "none"
      /\ deliveries' = [d \in Addressed |->
             IF d[1] = m /\ sinks[d[2]] = "active"
             THEN [state |-> "pending", tries |-> 0, due |-> TRUE] ELSE deliveries[d]]
      /\ UNCHANGED <<senders, hooked, cuts>>
    BY DEF Notify
<1>2. \A d \in Addressed : d[1] = m => deliveries[d].state = "none" /\ deliveries[d].tries = 0
    BY <1>1 DEF Addressed, HooksInv, HookRowStands
<1>3. \A d \in Addressed :
        \/ deliveries'[d] = deliveries[d]
        \/ /\ deliveries'[d] = [state |-> "pending", tries |-> 0, due |-> TRUE]
           /\ deliveries[d].state = "none" /\ deliveries[d].tries = 0
    BY <1>1, <1>2
<1>4. MaxTries \in Nat \ {0}
    BY DeliveryAssumption
<1>5. [state |-> "pending", tries |-> 0, due |-> TRUE] \in HookRows
    BY <1>4 DEF HookRows
<1>6. deliveries' \in [Addressed -> HookRows]
    <2>1. \A d \in Addressed : deliveries'[d] \in HookRows
        BY <1>3, <1>5 DEF HooksInv
    <2> QED
        BY <1>1, <2>1
<1>7. SendersInv' /\ \A pc, x : Spare(pc, x)' = Spare(pc, x)
    BY <1>1 DEF SendersInv, OneHolder, Spare, Out, Lost
<1>8. \A v \in Sender : CallerStands(v)'
    BY <1>1, <1>3 DEF HooksInv, CallerStands, SendersInv, Sits
<1>9. \A d \in Addressed : HookRowStands(d)'
    BY <1>1, <1>3, <1>4 DEF HooksInv, HookRowStands
<1>10. CallsAreCounted'
    BY <1>1, <1>3, <1>7 DEF HooksInv, CallsAreCounted
<1> QED
    BY <1>1, <1>6, <1>7, <1>8, <1>9, <1>10 DEF HooksInv

LEMMA ClaimHookHolds ==
    ASSUME SendersInv, HooksInv, NEW w \in Sender, NEW usable \in BOOLEAN, ClaimHook(w, usable)
    PROVE  SendersInv' /\ HooksInv'
<1>1. senders[w].pc = "hooks" /\ UNCHANGED <<hooked, cuts>>
    BY DEF ClaimHook, At
<1>2. CASE Goes(w, "mail") /\ UNCHANGED deliveries
    <2>1. PICK s : /\ Sits(s) /\ Alone(w, s) /\ s.pc = "mail"
                   /\ senders' = [senders EXCEPT ![w] = s]
        BY <1>2, Resting
    <2> QED
        BY <1>1, <1>2, <2>1, HooksIdle
<1>3. ASSUME NEW d \in ClaimableHooks, UNCHANGED deliveries,
             senders' = [senders EXCEPT ![w] =
                [pc |-> "hooking", row |-> d, arrived |-> FALSE, holds |-> TRUE]]
      PROVE  SendersInv' /\ HooksInv'
    <2> DEFINE s == [pc |-> "hooking", row |-> d, arrived |-> FALSE, holds |-> TRUE]
    <2>1. /\ d \in Addressed /\ deliveries[d].state = "pending"
          /\ \A v \in Sender : ~(senders[v].holds /\ senders[v].row = d)
        BY <1>3, Unlocked DEF ClaimableHooks
    <2>2. Sits(s) /\ Alone(w, s) /\ s.pc = "hooking" /\ s.holds /\ ~s.arrived /\ s.row = d
        BY <2>1 DEF Sits, SenderRows, Phases, Alone
    <2>3. senders' = [senders EXCEPT ![w] = s]
        BY <1>3
    <2> HIDE DEF s
    <2>4. \A x \in Addressed : Credit(s, "hooking", x) = 0 /\ Credit(senders[w], "hooking", x) = 0
        BY <1>1, <2>2, Credits
    <2>5. /\ cuts' = cuts /\ cuts' \in Nat
          /\ \A x \in Addressed : cuts' - cuts + Credit(s, "hooking", x) >= Credit(senders[w], "hooking", x)
        BY <1>1, <2>4 DEF HooksInv
    <2> QED
        BY <1>1, <1>3, <2>1, <2>2, <2>3, <2>5, HooksKeep
<1>4. ASSUME NEW d \in ClaimableHooks, Goes(w, "mail"),
             deliveries' = [deliveries EXCEPT ![d] =
                [state |-> "failed", tries |-> deliveries[d].tries + 1, due |-> FALSE]]
      PROVE  SendersInv' /\ HooksInv'
    <2> DEFINE row == [state |-> "failed", tries |-> deliveries[d].tries + 1, due |-> FALSE]
    <2>1. /\ d \in Addressed /\ deliveries[d].state = "pending"
          /\ \A v \in Sender : ~(senders[v].holds /\ senders[v].row = d)
        BY <1>4, Unlocked DEF ClaimableHooks
    <2>2. /\ deliveries[d].tries \in 0 .. MaxTries /\ deliveries[d].tries < MaxTries
          /\ MaxTries \in Nat /\ hooked[d] \in Nat
        BY <2>1, HookTypes DEF HooksInv, HookRowStands
    <2>3. row \in HookRows /\ row.state = "failed" /\ row.tries = deliveries[d].tries + 1
        BY <2>2 DEF HookRows
    <2>4. deliveries' = [deliveries EXCEPT ![d] = row]
        BY <1>4
    <2> HIDE DEF row
    <2>5. PICK s : /\ Sits(s) /\ Alone(w, s) /\ s.pc = "mail" /\ ~s.holds
                   /\ senders' = [senders EXCEPT ![w] = s]
                   /\ \A x : Credit(s, "hooking", x) = 0
        BY <1>4, Resting
    <2>6. \A x : Credit(senders[w], "hooking", x) = 0
        BY <1>1, Credits
    <2>7. hooked' = [hooked EXCEPT ![d] = hooked[d]]
        BY <1>1 DEF HooksInv
    <2>8. /\ hooked[d] >= hooked[d]
          /\ hooked[d] + Credit(senders[w], "hooking", d)
               <= hooked[d] + row.tries - deliveries[d].tries + Credit(s, "hooking", d)
          /\ \A x \in Addressed \ {d} : Credit(s, "hooking", x) >= Credit(senders[w], "hooking", x)
        BY <2>2, <2>3, <2>5, <2>6
    <2> QED
        BY <1>1, <2>1, <2>2, <2>3, <2>4, <2>5, <2>7, <2>8, HooksMove
<1> QED
    BY <1>2, <1>3, <1>4 DEF ClaimHook
\* The call goes out, or a session is lost: the worker stays with its row.
LEMMA StaysWithRow ==
    ASSUME SendersInv, NEW w \in Sender
    PROVE  /\ LET s == [senders[w] EXCEPT !.arrived = TRUE] IN
              /\ Sits(s) /\ Alone(w, s) /\ s.pc = senders[w].pc /\ s.row = senders[w].row
              /\ s.arrived /\ s.holds = senders[w].holds
           /\ LET s == [senders[w] EXCEPT !.holds = FALSE] IN
              /\ Sits(s) /\ Alone(w, s) /\ s.pc = senders[w].pc /\ s.row = senders[w].row
              /\ s.arrived = senders[w].arrived /\ ~s.holds
<1>1. senders[w] \in SenderRows /\ Sits(senders[w])
    BY DEF SendersInv
<1>2. ASSUME NEW s \in SenderRows, s.pc = senders[w].pc, s.row = senders[w].row,
             s.holds => senders[w].holds
      PROVE  Sits(s) /\ Alone(w, s)
    BY <1>1, <1>2 DEF Sits, Alone, SendersInv, OneHolder
<1>3. LET s == [senders[w] EXCEPT !.arrived = TRUE] IN
      s \in SenderRows /\ s.pc = senders[w].pc /\ s.row = senders[w].row
        /\ s.arrived /\ s.holds = senders[w].holds
    BY <1>1 DEF SenderRows
<1>4. LET s == [senders[w] EXCEPT !.holds = FALSE] IN
      s \in SenderRows /\ s.pc = senders[w].pc /\ s.row = senders[w].row
        /\ s.arrived = senders[w].arrived /\ ~s.holds
    BY <1>1 DEF SenderRows
<1> QED
    BY <1>2, <1>3, <1>4

LEMMA HookArrivesHolds ==
    ASSUME SendersInv, HooksInv, NEW w \in Sender, HookArrives(w)
    PROVE  SendersInv' /\ HooksInv'
<1> DEFINE d == senders[w].row
           s == [senders[w] EXCEPT !.arrived = TRUE]
<1>1. /\ senders[w].pc = "hooking" /\ ~senders[w].arrived
      /\ hooked' = [hooked EXCEPT ![d] = hooked[d] + 1]
      /\ UNCHANGED <<deliveries, cuts>>
    BY DEF HookArrives, At, SendersInv
<1>2. d \in Addressed
    BY <1>1 DEF SendersInv, Sits
<1>3. senders' = [senders EXCEPT ![w] = s]
    BY DEF HookArrives, SendersInv
<1>4. /\ Sits(s) /\ Alone(w, s) /\ s.pc = "hooking" /\ s.row = d
      /\ s.arrived /\ s.holds = senders[w].holds
    BY <1>1, StaysWithRow
<1>5. /\ deliveries[d] \in HookRows /\ deliveries[d].tries \in Nat /\ hooked[d] \in Nat
      /\ HookRowStands(d) /\ CallerStands(w)
    BY <1>2, HookTypes DEF HooksInv
<1>6. deliveries' = [deliveries EXCEPT ![d] = deliveries[d]] /\ cuts' = cuts
    BY <1>1 DEF HooksInv
<1> HIDE DEF s
<1>7. /\ Credit(s, "hooking", d) = IF senders[w].holds THEN 1 ELSE 0
      /\ Credit(senders[w], "hooking", d) = IF senders[w].holds THEN 0 ELSE -1
    BY <1>1, <1>4, Credits
<1>8. \A x \in Addressed \ {d} :
        Credit(s, "hooking", x) = 0 /\ Credit(senders[w], "hooking", x) = 0
    BY <1>4, Credits
<1>9. /\ hooked[d] + 1 \in Nat /\ hooked[d] + 1 >= hooked[d] /\ hooked[d] + 1 > 0
      /\ hooked[d] + 1 + Credit(senders[w], "hooking", d)
           <= hooked[d] + deliveries[d].tries - deliveries[d].tries + Credit(s, "hooking", d)
      /\ \A x \in Addressed \ {d} : Credit(s, "hooking", x) >= Credit(senders[w], "hooking", x)
    BY <1>5, <1>7, <1>8
<1>10. /\ deliveries[d].state = "none" => deliveries[d].tries = 0
       /\ deliveries[d].state = "pending" => deliveries[d].tries < MaxTries
       /\ s.holds => deliveries[d].state = "pending"
    BY <1>1, <1>4, <1>5 DEF HookRowStands, CallerStands
<1>11. \/ deliveries[d].state = "pending"
       \/ \A v \in Sender \ {w} :
            ~(senders[v].pc = "hooking" /\ senders[v].holds /\ senders[v].row = d)
    BY DEF HooksInv, CallerStands
<1> HIDE DEF d
<1> QED
    BY <1>1, <1>2, <1>3, <1>4, <1>5, <1>6, <1>9, <1>10, <1>11, HooksMove

LEMMA HookRecords ==
    ASSUME NEW row \in HookRows, row.tries < MaxTries, NEW outcome
    PROVE  LET r == HookRecorded(row, outcome) IN
           /\ r \in HookRows /\ r.tries = row.tries + 1 /\ r.state # "none"
           /\ r.state = "pending" => r.tries < MaxTries
           /\ r.state = "delivered" => outcome = "ok"
<1>1. row.tries \in Nat /\ row.tries + 1 \in 0 .. MaxTries /\ MaxTries \in Nat
    BY DeliveryAssumption DEF HookRows
<1>2. CASE outcome = "ok"
    BY <1>1, <1>2 DEF HookRecorded, HookRows
<1>3. CASE outcome # "ok" /\ row.tries + 1 >= MaxTries
    BY <1>1, <1>3 DEF HookRecorded, HookRows
<1>4. CASE outcome # "ok" /\ ~(row.tries + 1 >= MaxTries)
    BY <1>1, <1>4 DEF HookRecorded, HookRows
<1> QED
    BY <1>2, <1>3, <1>4

LEMMA HookAnsweredHolds ==
    ASSUME SendersInv, HooksInv, NEW w \in Sender, NEW outcome, HookAnswered(w, outcome)
    PROVE  SendersInv' /\ HooksInv'
<1> DEFINE d == senders[w].row
           row == HookRecorded(deliveries[d], outcome)
<1>1. /\ senders[w].pc = "hooking" /\ UNCHANGED <<hooked, cuts>>
      /\ outcome = "ok" => senders[w].arrived
    BY DEF HookAnswered, At, HookOutcomes
<1>2. /\ d \in Addressed /\ hooked[d] \in Nat /\ CallerStands(w) /\ HookRowStands(d)
      /\ deliveries[d] \in HookRows /\ deliveries[d].tries \in Nat
      /\ hooked' = [hooked EXCEPT ![d] = hooked[d]] /\ cuts' \in Nat /\ cuts' = cuts
    BY <1>1, HookTypes DEF SendersInv, Sits, HooksInv
<1>3. CASE senders[w].holds
    <2>1. deliveries[d].state = "pending" /\ deliveries[d].tries < MaxTries
        BY <1>1, <1>2, <1>3 DEF CallerStands, HookRowStands
    <2>2. /\ row \in HookRows /\ row.tries = deliveries[d].tries + 1 /\ row.state # "none"
          /\ row.state = "pending" => row.tries < MaxTries
          /\ row.state = "delivered" => outcome = "ok"
        BY <1>2, <2>1, HookRecords
    <2>3. deliveries' = [deliveries EXCEPT ![d] = row] /\ Goes(w, "mail")
        BY <1>3 DEF HookAnswered
    <2>4. PICK s : /\ Sits(s) /\ Alone(w, s) /\ s.pc = "mail" /\ ~s.holds
                   /\ senders' = [senders EXCEPT ![w] = s]
                   /\ \A x : Credit(s, "hooking", x) = 0
        BY <2>3, Resting
    <2>5. /\ Credit(senders[w], "hooking", d) <= 1
          /\ \A x \in Addressed \ {d} : Credit(senders[w], "hooking", x) = 0
        BY <1>1, <1>3, Credits
    <2>6. Credit(senders[w], "hooking", d) \in Int
        BY DEF Credit
    <2>7. row.state = "delivered" => hooked[d] > 0
        BY <1>1, <1>2, <2>2 DEF CallerStands
    <2>8. \A v \in Sender \ {w} : ~(senders[v].holds /\ senders[v].row = d)
        BY <1>3 DEF SendersInv, OneHolder
    <2> HIDE DEF row, d
    <2>9. /\ hooked[d] >= hooked[d]
          /\ hooked[d] + Credit(senders[w], "hooking", d)
               <= hooked[d] + row.tries - deliveries[d].tries + Credit(s, "hooking", d)
          /\ \A x \in Addressed \ {d} : Credit(s, "hooking", x) >= Credit(senders[w], "hooking", x)
        BY <1>2, <2>2, <2>4, <2>5, <2>6
    <2> QED
        BY <1>2, <2>2, <2>3, <2>4, <2>7, <2>8, <2>9, HooksMove
<1>4. CASE ~senders[w].holds
    <2>1. UNCHANGED deliveries /\ Goes(w, "sweeps")
        BY <1>4 DEF HookAnswered
    <2>2. PICK s : /\ Sits(s) /\ Alone(w, s) /\ s.pc = "sweeps"
                   /\ senders' = [senders EXCEPT ![w] = s]
                   /\ \A x : Credit(s, "hooking", x) = 0
        BY <2>1, Resting
    <2>3. \A x \in Addressed : Credit(senders[w], "hooking", x) \in {0, -1}
        BY <1>1, <1>4, Credits DEF Credit, OutAt
    <2>4. \A x \in Addressed : cuts' - cuts + Credit(s, "hooking", x) >= Credit(senders[w], "hooking", x)
        BY <1>2, <2>2, <2>3
    <2> QED
        BY <1>1, <1>2, <2>1, <2>2, <2>4, HooksKeep
<1> QED
    BY <1>3, <1>4

LEMMA CutHolds ==
    ASSUME SendersInv, HooksInv, NEW w \in Sender, Cut(w)
    PROVE  SendersInv' /\ HooksInv'
<1>1. /\ cuts' = cuts + 1 /\ cuts \in Nat /\ cuts' \in Nat
      /\ UNCHANGED <<deliveries, hooked>>
    BY DEF Cut, HooksInv
<1>2. CASE Goes(w, "sweeps")
    <2>1. PICK s : /\ Sits(s) /\ Alone(w, s) /\ s.pc = "sweeps"
                   /\ senders' = [senders EXCEPT ![w] = s]
                   /\ \A x : Credit(s, "hooking", x) = 0
        BY <1>2, Resting
    <2>2. \A x \in Addressed : Credit(senders[w], "hooking", x) \in {-1, 0, 1}
        BY DEF Credit
    <2>3. \A x \in Addressed : cuts' - cuts + Credit(s, "hooking", x) >= Credit(senders[w], "hooking", x)
        BY <1>1, <2>1, <2>2
    <2> QED
        BY <1>1, <2>1, <2>3, HooksKeep
<1>3. CASE senders[w].holds /\ senders' = [senders EXCEPT ![w].holds = FALSE]
    <2> DEFINE s == [senders[w] EXCEPT !.holds = FALSE]
    <2>3. senders' = [senders EXCEPT ![w] = s]
        BY <1>3 DEF SendersInv
    <2>4. /\ Sits(s) /\ Alone(w, s) /\ s.pc = senders[w].pc /\ s.row = senders[w].row
          /\ s.arrived = senders[w].arrived /\ ~s.holds
        BY StaysWithRow
    <2> HIDE DEF s
    <2>5. \A x \in Addressed : Credit(s, "hooking", x) >= Credit(senders[w], "hooking", x) - 1
        BY <1>3, <2>4 DEF Credit, OutAt, LostAt
    <2>6. \A x \in Addressed : /\ Credit(s, "hooking", x) \in Int
                               /\ Credit(senders[w], "hooking", x) \in Int
        BY DEF Credit
    <2>7. \A x \in Addressed : cuts' - cuts + Credit(s, "hooking", x) >= Credit(senders[w], "hooking", x)
        BY <1>1, <2>5, <2>6
    <2>8. s.pc = "hooking" /\ s.arrived => hooked[s.row] > 0
        BY <2>4 DEF HooksInv, CallerStands
    <2> QED
        BY <1>1, <2>3, <2>4, <2>7, <2>8, HooksKeep
<1> QED
    BY <1>2, <1>3 DEF Cut
---------------------------------------------------------------------------
(* Account mail *)

MailStates == {"none", "pending", "suppressed", "superseded", "expired", "failed", "sent", "deleted"}
MailRows == [state : MailStates, tries : 0 .. MaxTries, due : BOOLEAN, sound : BOOLEAN,
             secret : BOOLEAN, age : {"fresh", "expired", "dayold"}]

RowStands(row) ==
    /\ row.secret <=> row.state = "pending"
    /\ row.state = "pending" => row.tries < MaxTries
    /\ row.state = "none" => row.tries = 0

BoxStands(row, n) ==
    /\ row.state = "sent" => n > 0
    /\ transport = "resend" => n <= 1
    /\ transport = "log" => (n > 0 => row.state \in {"sent", "deleted"}) /\ n <= 1
    /\ row.state \in {"none", "suppressed"} => n = 0

MailerStands(w) ==
    senders[w].pc = "mailing" =>
        /\ senders[w].holds => mail[senders[w].row].state = "pending"
        /\ senders[w].arrived /\ transport # "log" => inboxed[senders[w].row] > 0
        /\ mail[senders[w].row].state \notin {"none", "suppressed"}

\* As for the calls, where a mail server and not the test sink is written to.
CopiesAreCounted ==
    transport # "log" =>
        \A m \in Mail : inboxed[m] <= mail[m].tries + Spare("mailing", m) + cuts

MailInv ==
    /\ transport \in {"resend", "smtp", "log"}
    /\ mail \in [Mail -> MailRows]
    /\ inboxed \in [Mail -> Nat]
    /\ cuts \in Nat
    /\ \A m \in Mail : RowStands(mail[m]) /\ BoxStands(mail[m], inboxed[m])
    /\ \A w \in Sender : MailerStands(w)
    /\ CopiesAreCounted

LEMMA MailTypes ==
    ASSUME MailInv, NEW m \in Mail
    PROVE  /\ mail[m] \in MailRows /\ mail[m].tries \in 0 .. MaxTries /\ mail[m].state \in MailStates
           /\ inboxed[m] \in Nat /\ cuts \in Nat /\ MaxTries \in Nat \ {0}
           /\ RowStands(mail[m]) /\ BoxStands(mail[m], inboxed[m])
BY DeliveryAssumption DEF MailInv, MailRows

\* What may become of a row that no worker is sending.
MayBecome(m, row) ==
    /\ row \in MailRows /\ RowStands(row)
    /\ row.tries >= mail[m].tries
    /\ row.state = "sent" => mail[m].state = "sent"
    /\ mail[m].state \in {"sent", "deleted"} => row.state \in {"sent", "deleted"}
    /\ row.state \in {"none", "suppressed"} => mail[m].state \in {"none", "suppressed"}
    /\ Locked(m) => row.state = mail[m].state

\* Rows change and nobody's sending does.
LEMMA MailRowsMove ==
    ASSUME SendersInv, MailInv, mail' = [m \in Mail |-> mail'[m]],
           \A m \in Mail : MayBecome(m, mail'[m]),
           UNCHANGED <<transport, inboxed, cuts>>,
           \/ UNCHANGED senders
           \/ \E w \in Sender : \E s : /\ Sits(s) /\ Alone(w, s) /\ senders' = [senders EXCEPT ![w] = s]
                                       /\ senders[w].pc # "mailing" /\ s.pc # "mailing"
    PROVE  MailInv'
<1>1. mail' \in [Mail -> MailRows]
    BY DEF MayBecome
<1>2. /\ \A v \in Sender : senders'[v].pc = "mailing" => senders'[v] = senders[v]
      /\ \A m \in Mail : Spare("mailing", m)' \in Int /\ Spare("mailing", m)' >= Spare("mailing", m)
    <2>1. CASE UNCHANGED senders
        <3>1. \A m \in Mail : Spare("mailing", m)' = Spare("mailing", m)
            BY <2>1 DEF Spare, Out, Lost
        <3> QED
            BY <2>1, <3>1, SpareIsInt
    <2>2. ASSUME NEW w \in Sender, NEW s, Sits(s), Alone(w, s), senders' = [senders EXCEPT ![w] = s],
                 senders[w].pc # "mailing", s.pc # "mailing"
          PROVE  /\ \A v \in Sender : senders'[v].pc = "mailing" => senders'[v] = senders[v]
                 /\ \A m \in Mail : /\ Spare("mailing", m)' \in Int
                                    /\ Spare("mailing", m)' >= Spare("mailing", m)
        <3>1. \A v \in Sender : senders'[v] = IF v = w THEN s ELSE senders[v]
            BY <2>2 DEF SendersInv
        <3>2. ASSUME NEW m \in Mail
              PROVE  /\ Spare("mailing", m)' \in Int
                     /\ Spare("mailing", m)' >= Spare("mailing", m)
            <4>1. /\ Spare("mailing", m)' \in Int
                  /\ Spare("mailing", m)' >= Spare("mailing", m) + Credit(s, "mailing", m)
                                               - Credit(senders[w], "mailing", m)
                BY <2>2, SpareMoves
            <4>2. Credit(s, "mailing", m) = 0 /\ Credit(senders[w], "mailing", m) = 0
                BY <2>2, Credits
            <4> QED
                BY <4>1, <4>2, SpareIsInt
        <3> QED
            BY <2>2, <3>1, <3>2
    <2> QED
        BY <2>1, <2>2
<1>3. \A v \in Sender : MailerStands(v)'
    <2> SUFFICES ASSUME NEW v \in Sender, senders'[v].pc = "mailing"
                 PROVE  /\ senders'[v].holds => mail'[senders'[v].row].state = "pending"
                        /\ senders'[v].arrived /\ transport' # "log" => inboxed'[senders'[v].row] > 0
                        /\ mail'[senders'[v].row].state \notin {"none", "suppressed"}
        BY DEF MailerStands
    <2>1. senders'[v] = senders[v] /\ senders[v].row \in Mail
        BY <1>2 DEF SendersInv, Sits
    <2>2. MailerStands(v) /\ MayBecome(senders[v].row, mail'[senders[v].row])
        BY <2>1 DEF MailInv
    <2>3. senders[v].holds => Locked(senders[v].row)
        BY DEF Locked
    <2> QED
        BY <2>1, <2>2, <2>3 DEF MailerStands, MayBecome
<1>4. \A m \in Mail : RowStands(mail[m])' /\ BoxStands(mail[m], inboxed[m])'
    <2> SUFFICES ASSUME NEW m \in Mail
                 PROVE  RowStands(mail'[m]) /\ BoxStands(mail'[m], inboxed[m])
        BY DEF BoxStands, RowStands
    <2> QED
        BY MailTypes DEF MayBecome, BoxStands
<1>5. CopiesAreCounted'
    <2> SUFFICES ASSUME transport # "log", NEW m \in Mail
                 PROVE  inboxed[m] <= mail'[m].tries + Spare("mailing", m)' + cuts
        BY DEF CopiesAreCounted
    <2>1. inboxed[m] <= mail[m].tries + Spare("mailing", m) + cuts
        BY DEF MailInv, CopiesAreCounted
    <2>2. /\ mail'[m].tries >= mail[m].tries /\ mail'[m].tries \in Nat
          /\ mail[m].tries \in Nat /\ inboxed[m] \in Nat /\ cuts \in Nat
        BY MailTypes DEF MayBecome, MailRows
    <2>3. /\ Spare("mailing", m) \in Int /\ Spare("mailing", m)' \in Int
          /\ Spare("mailing", m)' >= Spare("mailing", m)
        BY <1>2, SpareIsInt
    <2> QED
        BY <2>1, <2>2, <2>3
<1> QED
    BY <1>1, <1>3, <1>4, <1>5 DEF MailInv
\* A worker moves and no mail does: a cut may be charged for it.
LEMMA MailKeeps ==
    ASSUME SendersInv, MailInv, NEW w \in Sender, NEW s, Sits(s), Alone(w, s),
           senders' = [senders EXCEPT ![w] = s],
           UNCHANGED <<transport, mail, inboxed>>,
           cuts' \in Nat,
           \A m \in Mail :
              cuts' - cuts + Credit(s, "mailing", m) >= Credit(senders[w], "mailing", m),
           s.pc = "mailing" =>
              /\ s.holds => mail[s.row].state = "pending"
              /\ s.arrived /\ transport # "log" => inboxed[s.row] > 0
              /\ mail[s.row].state \notin {"none", "suppressed"}
    PROVE  MailInv'
<1>1. \A v \in Sender : senders'[v] = IF v = w THEN s ELSE senders[v]
    BY DEF SendersInv
<1>2. \A v \in Sender : MailerStands(v)'
    BY <1>1 DEF MailInv, MailerStands
<1>3. CopiesAreCounted'
    <2> SUFFICES ASSUME transport # "log", NEW m \in Mail
                 PROVE  inboxed[m] <= mail[m].tries + Spare("mailing", m)' + cuts'
        BY DEF CopiesAreCounted
    <2>1. /\ Spare("mailing", m)' \in Int
          /\ Spare("mailing", m)' >= Spare("mailing", m) + Credit(s, "mailing", m)
                                       - Credit(senders[w], "mailing", m)
        BY SpareMoves
    <2>2. inboxed[m] <= mail[m].tries + Spare("mailing", m) + cuts
        BY DEF MailInv, CopiesAreCounted
    <2>3. /\ Spare("mailing", m) \in Int
          /\ Credit(s, "mailing", m) \in Int /\ Credit(senders[w], "mailing", m) \in Int
        BY SpareIsInt DEF Credit
    <2> QED
        BY <2>1, <2>2, <2>3, MailTypes
<1> QED
    BY <1>1, <1>2, <1>3 DEF MailInv, RowStands, BoxStands

\* A worker moves and its mail, or the copies of it, move with it.
LEMMA MailMoves ==
    ASSUME SendersInv, MailInv, NEW w \in Sender, NEW s, Sits(s), Alone(w, s),
           senders' = [senders EXCEPT ![w] = s],
           NEW m \in Mail, NEW row \in MailRows, NEW n \in Nat,
           senders[w].pc = "mailing", senders[w].row = m,
           mail' = [mail EXCEPT ![m] = row],
           inboxed' = [inboxed EXCEPT ![m] = n],
           UNCHANGED <<transport, cuts>>,
           RowStands(row), BoxStands(row, n),
           n >= inboxed[m],
           transport # "log" =>
              n + Credit(senders[w], "mailing", m)
                <= inboxed[m] + row.tries - mail[m].tries + Credit(s, "mailing", m),
           s.pc = "mailing" =>
              /\ s.row = m
              /\ s.holds => row.state = "pending"
              /\ s.arrived /\ transport # "log" => n > 0,
           row.state \notin {"none", "suppressed"},
           \/ row.state = mail[m].state
           \/ \A v \in Sender \ {w} : ~(senders[v].holds /\ senders[v].row = m)
    PROVE  MailInv'
<1>1. \A v \in Sender : senders'[v] = IF v = w THEN s ELSE senders[v]
    BY DEF SendersInv
<1>2. /\ mail' \in [Mail -> MailRows]
      /\ inboxed' \in [Mail -> Nat]
      /\ \A x \in Mail : /\ mail'[x] = IF x = m THEN row ELSE mail[x]
                         /\ inboxed'[x] = IF x = m THEN n ELSE inboxed[x]
    BY DEF MailInv
<1>3. \A v \in Sender : MailerStands(v)'
    <2> SUFFICES ASSUME NEW v \in Sender, senders'[v].pc = "mailing"
                 PROVE  /\ senders'[v].holds => mail'[senders'[v].row].state = "pending"
                        /\ senders'[v].arrived /\ transport # "log" => inboxed'[senders'[v].row] > 0
                        /\ mail'[senders'[v].row].state \notin {"none", "suppressed"}
        BY DEF MailerStands
    <2>1. CASE v = w
        BY <1>1, <1>2, <2>1
    <2>2. CASE v # w
        <3>1. senders'[v] = senders[v] /\ senders[v].row \in Mail
            BY <1>1, <2>2 DEF SendersInv, Sits
        <3>2. MailerStands(v) /\ senders[v].pc = "mailing"
            BY <3>1 DEF MailInv
        <3>3. inboxed[senders[v].row] \in Nat /\ inboxed[m] \in Nat
            BY <3>1, MailTypes
        <3>4. CASE senders[v].row = m
            <4>1. senders[v].holds => row.state = mail[m].state
                BY <2>2, <3>4
            <4> QED
                BY <1>2, <3>1, <3>2, <3>3, <3>4, <4>1 DEF MailerStands
        <3>5. CASE senders[v].row # m
            BY <1>2, <3>1, <3>2, <3>5 DEF MailerStands
        <3> QED
            BY <3>4, <3>5
    <2> QED
        BY <2>1, <2>2
<1>4. CopiesAreCounted'
    <2> SUFFICES ASSUME transport # "log", NEW x \in Mail
                 PROVE  inboxed'[x] <= mail'[x].tries + Spare("mailing", x)' + cuts
        BY DEF CopiesAreCounted
    <2>1. /\ Spare("mailing", x)' \in Int
          /\ Spare("mailing", x)' >= Spare("mailing", x) + Credit(s, "mailing", x)
                                       - Credit(senders[w], "mailing", x)
        BY SpareMoves
    <2>2. inboxed[x] <= mail[x].tries + Spare("mailing", x) + cuts
        BY DEF MailInv, CopiesAreCounted
    <2>3. /\ Spare("mailing", x) \in Int
          /\ Credit(s, "mailing", x) \in Int /\ Credit(senders[w], "mailing", x) \in Int
        BY SpareIsInt DEF Credit
    <2>4. row.tries \in Nat
        BY MailTypes DEF MailRows
    <2>5. /\ inboxed[x] \in Nat /\ mail[x].tries \in Nat /\ cuts \in Nat
        BY MailTypes
    <2>6. CASE x = m
        <3>1. inboxed'[x] = n /\ mail'[x] = row
            BY <1>2, <2>6
        <3> QED
            BY <2>1, <2>2, <2>3, <2>4, <2>5, <2>6, <3>1
    <2>7. CASE x # m
        <3>1. inboxed'[x] = inboxed[x] /\ mail'[x] = mail[x]
            BY <1>2, <2>7
        <3>2. Credit(senders[w], "mailing", x) = 0
            BY <2>7, Credits
        <3>3. Credit(s, "mailing", x) = 0
            BY <2>7, Credits
        <3> QED
            BY <2>1, <2>2, <2>3, <2>5, <3>1, <3>2, <3>3
    <2> QED
        BY <2>6, <2>7
<1>5. \A x \in Mail : RowStands(mail[x])' /\ BoxStands(mail[x], inboxed[x])'
    <2> SUFFICES ASSUME NEW x \in Mail
                 PROVE  RowStands(mail'[x]) /\ BoxStands(mail'[x], inboxed'[x])
        BY DEF RowStands, BoxStands
    <2> QED
        BY <1>2, MailTypes
<1> QED
    BY <1>1, <1>2, <1>3, <1>4, <1>5 DEF MailInv
LEMMA Settled ==
    ASSUME NEW row \in MailRows, NEW state \in MailStates \ {"none", "pending"},
           NEW tries \in 0 .. MaxTries
    PROVE  LET r == SettledMail(row, state, tries) IN
           r \in MailRows /\ RowStands(r) /\ r.state = state /\ r.tries = tries
<1> DEFINE r == SettledMail(row, state, tries)
<1>1. r \in MailRows /\ r.state = state /\ r.tries = tries /\ r.secret = FALSE
    BY DEF SettledMail, MailRows
<1> HIDE DEF r
<1> QED
    BY <1>1 DEF RowStands, r

LEMMA MayStay ==
    ASSUME MailInv, NEW m \in Mail, NEW row \in MailRows, RowStands(row),
           row.state = mail[m].state, row.tries = mail[m].tries
    PROVE  MayBecome(m, row)
BY MailTypes DEF MayBecome

LEMMA MaySettle ==
    ASSUME MailInv, NEW m \in Mail, mail[m].state = "pending", ~Locked(m),
           NEW state \in {"superseded", "expired", "failed"}
    PROVE  MayBecome(m, SettledMail(mail[m], state, mail[m].tries))
<1> DEFINE r == SettledMail(mail[m], state, mail[m].tries)
<1>1. state \in MailStates \ {"none", "pending"}
    BY DEF MailStates
<1>2. r \in MailRows /\ RowStands(r) /\ r.state = state /\ r.tries = mail[m].tries
    BY <1>1, MailTypes, Settled
<1>3. mail[m].tries \in Nat
    BY MailTypes
<1> HIDE DEF r
<1>4. MayBecome(m, r)
    BY <1>2, <1>3 DEF MayBecome
<1> QED
    BY <1>4 DEF r

\* The purge settles codes that expired and deletes what was settled a day ago.
LEMMA MayPurge ==
    ASSUME MailInv, NEW m \in Mail, Purged(mail[m]) # mail[m] => ~Locked(m)
    PROVE  MayBecome(m, Purged(mail[m]))
<1>1. /\ mail[m] \in MailRows /\ RowStands(mail[m]) /\ mail[m].tries \in Nat
      /\ mail[m].state \in MailStates
    BY MailTypes
<1>2. CASE mail[m].state = "pending" /\ mail[m].age = "expired"
    <2>1. Purged(mail[m]) = SettledMail(mail[m], "expired", mail[m].tries)
        BY <1>2 DEF Purged
    <2>2. SettledMail(mail[m], "expired", mail[m].tries).state = "expired"
        BY <1>1, MailTypes, Settled DEF MailStates
    <2> QED
        BY <1>2, <2>1, <2>2, MaySettle
<1>3. CASE mail[m].state \notin {"none", "pending", "deleted"} /\ mail[m].age = "dayold"
    <2> DEFINE r == [mail[m] EXCEPT !.state = "deleted"]
    <2>1. r \in MailRows /\ r.state = "deleted" /\ r.tries = mail[m].tries /\ r.secret = mail[m].secret
        BY <1>1 DEF MailRows, MailStates
    <2>2. Purged(mail[m]) = r
        BY <1>3 DEF Purged
    <2> HIDE DEF r
    <2>3. ~Locked(m)
        BY <1>3, <2>1, <2>2
    <2> QED
        BY <1>1, <1>3, <2>1, <2>2, <2>3 DEF MayBecome, RowStands
<1>4. CASE /\ ~(mail[m].state = "pending" /\ mail[m].age = "expired")
           /\ ~(mail[m].state \notin {"none", "pending", "deleted"} /\ mail[m].age = "dayold")
    <2>1. Purged(mail[m]) = mail[m]
        BY <1>4 DEF Purged
    <2> QED
        BY <1>1, <2>1, MayStay
<1> QED
    BY <1>2, <1>3, <1>4

\* One row changes and nobody's sending does.
LEMMA OneMailMoves ==
    ASSUME SendersInv, MailInv, NEW m \in Mail, NEW row, MayBecome(m, row),
           mail' = [mail EXCEPT ![m] = row],
           UNCHANGED <<transport, inboxed, cuts>>,
           \/ UNCHANGED senders
           \/ \E w \in Sender : \E s : /\ Sits(s) /\ Alone(w, s) /\ senders' = [senders EXCEPT ![w] = s]
                                       /\ senders[w].pc # "mailing" /\ s.pc # "mailing"
    PROVE  MailInv'
<1>1. mail' = [x \in Mail |-> mail'[x]] /\ \A x \in Mail : mail'[x] = IF x = m THEN row ELSE mail[x]
    BY DEF MailInv
<1>2. \A x \in Mail : MayBecome(x, mail[x])
    BY MayStay, MailTypes
<1>3. \A x \in Mail : MayBecome(x, mail'[x])
    BY <1>1, <1>2
<1> QED
    BY <1>1, <1>3, MailRowsMove

LEMMA MailIdle ==
    ASSUME SendersInv, MailInv, UNCHANGED <<transport, mail, inboxed, cuts>>,
           \/ UNCHANGED senders
           \/ \E w \in Sender : \E s : /\ Sits(s) /\ Alone(w, s) /\ senders' = [senders EXCEPT ![w] = s]
                                       /\ senders[w].pc # "mailing" /\ s.pc # "mailing"
    PROVE  MailInv'
<1>1. \A x \in Mail : MayBecome(x, mail[x])
    BY MayStay, MailTypes
<1>2. mail' = [x \in Mail |-> mail'[x]]
    BY DEF MailInv
<1> QED
    BY <1>1, <1>2, MailRowsMove

LEMMA MailTimeHolds ==
    ASSUME SendersInv, MailInv, NEW m \in Mail,
           MailDue(m) \/ MailAges(m) \/ SupersedeMail(m)
           \/ (\E sound \in BOOLEAN : QueueMail(m, "pending", sound)) \/ QueueMail(m, "suppressed", TRUE)
    PROVE  MailInv'
<1>1. /\ mail[m] \in MailRows /\ RowStands(mail[m]) /\ BoxStands(mail[m], inboxed[m])
      /\ mail[m].tries \in 0 .. MaxTries /\ MaxTries \in Nat \ {0}
    BY MailTypes
<1>2. UNCHANGED <<transport, inboxed, cuts, senders>>
    BY DEF MailDue, MailAges, SupersedeMail, QueueMail
<1>3. CASE MailDue(m)
    <2> DEFINE r == [mail[m] EXCEPT !.due = TRUE]
    <2>1. mail' = [mail EXCEPT ![m] = r]
        BY <1>3 DEF MailDue, MailInv
    <2>2. /\ r \in MailRows /\ r.state = mail[m].state /\ r.tries = mail[m].tries
          /\ r.secret = mail[m].secret
        BY <1>1 DEF MailRows
    <2> HIDE DEF r
    <2>3. MayBecome(m, r)
        BY <1>1, <2>2, MayStay DEF RowStands
    <2> QED
        BY <1>2, <2>1, <2>3, OneMailMoves
<1>4. CASE MailAges(m)
    <2>1. PICK age \in {"expired", "dayold"} : mail' = [mail EXCEPT ![m].age = age]
        BY <1>4 DEF MailAges
    <2> DEFINE r == [mail[m] EXCEPT !.age = age]
    <2>2. mail' = [mail EXCEPT ![m] = r]
        BY <2>1 DEF MailInv
    <2>3. /\ r \in MailRows /\ r.state = mail[m].state /\ r.tries = mail[m].tries
          /\ r.secret = mail[m].secret
        BY <1>1 DEF MailRows
    <2> HIDE DEF r
    <2>4. MayBecome(m, r)
        BY <1>1, <2>3, MayStay DEF RowStands
    <2> QED
        BY <1>2, <2>2, <2>4, OneMailMoves
<1>5. CASE SupersedeMail(m)
    <2>1. /\ mail' = [mail EXCEPT ![m] = SettledMail(mail[m], "superseded", mail[m].tries)]
          /\ mail[m].state = "pending" /\ ~Locked(m)
        BY <1>5 DEF SupersedeMail
    <2> QED
        BY <1>2, <2>1, MaySettle, OneMailMoves
<1>6. ASSUME NEW state \in {"pending", "suppressed"}, NEW sound \in BOOLEAN, QueueMail(m, state, sound)
      PROVE  MailInv'
    <2> DEFINE r == [state |-> state, tries |-> 0, due |-> TRUE, sound |-> sound,
                     secret |-> state = "pending", age |-> "fresh"]
    <2>1. mail[m].state = "none" /\ mail' = [mail EXCEPT ![m] = r]
        BY <1>6 DEF QueueMail
    <2>2. r \in MailRows /\ r.state = state /\ r.tries = 0 /\ (r.secret <=> state = "pending")
        <3>1. CASE state = "pending"
            <4>1. r = [state |-> "pending", tries |-> 0, due |-> TRUE, sound |-> sound,
                       secret |-> TRUE, age |-> "fresh"]
                BY <3>1
            <4> HIDE DEF r
            <4> QED
                BY <1>1, <3>1, <4>1 DEF MailRows, MailStates
        <3>2. CASE state = "suppressed"
            <4>1. r = [state |-> "suppressed", tries |-> 0, due |-> TRUE, sound |-> sound,
                       secret |-> FALSE, age |-> "fresh"]
                BY <3>2
            <4> HIDE DEF r
            <4> QED
                BY <1>1, <3>2, <4>1 DEF MailRows, MailStates
        <3> QED
            BY <3>1, <3>2
    <2> HIDE DEF r
    <2>3. RowStands(r)
        BY <1>1, <2>2 DEF RowStands
    <2>4. ~Locked(m)
        <3>1. \A v \in Sender : ~(senders[v].holds /\ senders[v].row = m)
            BY <2>1, DeliveryAssumption DEF MailInv, MailerStands, SendersInv, Sits, Addressed
        <3> QED
            BY <3>1 DEF Locked
    <2>5. mail[m].tries = 0
        BY <1>1, <2>1 DEF RowStands
    <2>6. MayBecome(m, r)
        BY <2>1, <2>2, <2>3, <2>4, <2>5 DEF MayBecome
    <2> QED
        BY <1>2, <2>1, <2>6, OneMailMoves
<1> QED
    BY <1>3, <1>4, <1>5, <1>6

LEMMA SweepHolds ==
    ASSUME SendersInv, MailInv, NEW w \in Sender, NEW purge \in BOOLEAN, Sweep(w, purge)
    PROVE  MailInv'
<1>1. senders[w].pc = "sweeps" /\ UNCHANGED <<transport, inboxed, cuts>> /\ Goes(w, "hooks")
    BY DEF Sweep, At
<1>2. \E s : /\ Sits(s) /\ Alone(w, s) /\ senders' = [senders EXCEPT ![w] = s]
             /\ senders[w].pc # "mailing" /\ s.pc # "mailing"
    <2>1. PICK s : Sits(s) /\ Alone(w, s) /\ s.pc = "hooks" /\ senders' = [senders EXCEPT ![w] = s]
        BY <1>1, Resting
    <2> QED
        BY <1>1, <2>1
<1>3. CASE UNCHANGED mail
    BY <1>1, <1>2, <1>3, MailIdle
<1>4. CASE /\ mail' = [m \in Mail |-> Purged(mail[m])]
           /\ \A m \in Mail : Purged(mail[m]) # mail[m] => ~Locked(m)
    <2>1. \A m \in Mail : MayBecome(m, Purged(mail[m]))
        BY <1>4, MayPurge
    <2>2. mail' = [m \in Mail |-> mail'[m]] /\ \A m \in Mail : MayBecome(m, mail'[m])
        BY <1>4, <2>1
    <2> QED
        BY <1>1, <1>2, <2>2, MailRowsMove
<1> QED
    BY <1>3, <1>4 DEF Sweep
LEMMA ClaimMailHolds ==
    ASSUME SendersInv, MailInv, HooksInv, NEW w \in Sender, ClaimMail(w)
    PROVE  SendersInv' /\ HooksInv' /\ MailInv'
<1>1. senders[w].pc = "mail" /\ UNCHANGED <<transport, inboxed, cuts, deliveries, hooked>>
    BY DEF ClaimMail, At
<1>2. ASSUME NEW s, Sits(s), Alone(w, s), s.pc # "hooking", senders' = [senders EXCEPT ![w] = s]
      PROVE  SendersInv' /\ HooksInv'
    BY <1>1, <1>2, HooksIdle
<1>3. ASSUME Goes(w, "sweeps")
      PROVE  \E s : /\ Sits(s) /\ Alone(w, s) /\ senders' = [senders EXCEPT ![w] = s]
                    /\ senders[w].pc # "mailing" /\ s.pc = "sweeps"
    <2>1. PICK s : Sits(s) /\ Alone(w, s) /\ s.pc = "sweeps" /\ senders' = [senders EXCEPT ![w] = s]
        BY <1>3, Resting
    <2> QED
        BY <1>1, <2>1
<1>4. CASE Goes(w, "sweeps") /\ UNCHANGED mail
    <2>1. MailInv'
        BY <1>1, <1>3, <1>4, MailIdle
    <2> QED
        BY <1>2, <1>3, <1>4, <2>1
<1>5. ASSUME NEW m \in ClaimableMail, Goes(w, "sweeps"), NEW state \in {"expired", "failed"},
             mail' = [mail EXCEPT ![m] = SettledMail(mail[m], state, mail[m].tries)]
      PROVE  SendersInv' /\ HooksInv' /\ MailInv'
    <2>1. m \in Mail /\ mail[m].state = "pending" /\ ~Locked(m)
        BY <1>5 DEF ClaimableMail
    <2>2. MayBecome(m, SettledMail(mail[m], state, mail[m].tries))
        BY <2>1, MaySettle
    <2>3. MailInv'
        BY <1>1, <1>3, <1>5, <2>1, <2>2, OneMailMoves
    <2> QED
        BY <1>2, <1>3, <1>5, <2>3
<1>6. ASSUME NEW m \in ClaimableMail, UNCHANGED mail,
             senders' = [senders EXCEPT ![w] =
                [pc |-> "mailing", row |-> m, arrived |-> FALSE, holds |-> TRUE]]
      PROVE  SendersInv' /\ HooksInv' /\ MailInv'
    <2> DEFINE s == [pc |-> "mailing", row |-> m, arrived |-> FALSE, holds |-> TRUE]
    <2>1. /\ m \in Mail /\ mail[m].state = "pending"
          /\ \A v \in Sender : ~(senders[v].holds /\ senders[v].row = m)
        BY <1>6, Unlocked DEF ClaimableMail
    <2>2. Sits(s) /\ Alone(w, s) /\ s.pc = "mailing" /\ s.holds /\ ~s.arrived /\ s.row = m
        BY <2>1 DEF Sits, SenderRows, Phases, Alone
    <2>3. senders' = [senders EXCEPT ![w] = s]
        BY <1>6
    <2> HIDE DEF s
    <2>4. \A x \in Mail : Credit(s, "mailing", x) = 0 /\ Credit(senders[w], "mailing", x) = 0
        BY <1>1, <2>2, Credits
    <2>5. /\ cuts' = cuts /\ cuts' \in Nat
          /\ \A x \in Mail : cuts' - cuts + Credit(s, "mailing", x) >= Credit(senders[w], "mailing", x)
        BY <1>1, <2>4 DEF MailInv
    <2>6. MailInv'
        BY <1>1, <1>6, <2>1, <2>2, <2>3, <2>5, MailKeeps
    <2>7. s.pc # "hooking"
        BY <2>2
    <2> QED
        BY <1>2, <2>2, <2>3, <2>6, <2>7
<1>7. ASSUME NEW m \in ClaimableMail,
             mail' = [mail EXCEPT ![m] = SettledMail(mail[m],
                IF mail[m].age = "expired" THEN "expired" ELSE "failed", mail[m].tries)],
             Goes(w, "sweeps")
      PROVE  SendersInv' /\ HooksInv' /\ MailInv'
    <2>1. CASE mail[m].age = "expired"
        BY <1>5, <1>7, <2>1
    <2>2. CASE mail[m].age # "expired"
        BY <1>5, <1>7, <2>2
    <2> QED
        BY <2>1, <2>2
<1> QED
    BY <1>4, <1>6, <1>7 DEF ClaimMail

LEMMA MailArrivesHolds ==
    ASSUME SendersInv, MailInv, HooksInv, NEW w \in Sender, MailArrives(w)
    PROVE  SendersInv' /\ HooksInv' /\ MailInv'
<1> DEFINE m == senders[w].row
           s == [senders[w] EXCEPT !.arrived = TRUE]
           n == IF transport = "log" THEN inboxed[m]
                ELSE IF transport = "resend" THEN 1 ELSE inboxed[m] + 1
<1>1. /\ senders[w].pc = "mailing" /\ ~senders[w].arrived
      /\ UNCHANGED <<deliveries, hooked, transport, mail, cuts>>
    BY DEF MailArrives, At
<1>2. m \in Mail /\ MailerStands(w)
    BY <1>1 DEF SendersInv, Sits, MailInv
<1>3. senders' = [senders EXCEPT ![w] = s]
    BY DEF MailArrives, SendersInv
<1>4. /\ Sits(s) /\ Alone(w, s) /\ s.pc = "mailing" /\ s.row = m
      /\ s.arrived /\ s.holds = senders[w].holds
    BY <1>1, StaysWithRow
<1>5. /\ mail[m] \in MailRows /\ mail[m].tries \in Nat /\ inboxed[m] \in Nat
      /\ RowStands(mail[m]) /\ BoxStands(mail[m], inboxed[m])
      /\ transport \in {"resend", "smtp", "log"}
    BY <1>2, MailTypes DEF MailInv
<1>6. inboxed' = [inboxed EXCEPT ![m] = n]
    <2>1. inboxed' = Copies(m)
        BY DEF MailArrives
    <2>2. inboxed = [inboxed EXCEPT ![m] = inboxed[m]]
        BY DEF MailInv
    <2> QED
        BY <1>5, <2>1, <2>2 DEF Copies
<1>7. mail' = [mail EXCEPT ![m] = mail[m]]
    BY <1>1 DEF MailInv
<1>8. /\ n \in Nat /\ n >= inboxed[m] /\ n <= inboxed[m] + 1
      /\ transport # "log" => n > 0
      /\ transport = "log" => n = inboxed[m]
      /\ transport = "resend" => n = 1
    BY <1>5 DEF BoxStands
<1> HIDE DEF s, n
<1>9. /\ Credit(s, "mailing", m) = IF senders[w].holds THEN 1 ELSE 0
      /\ Credit(senders[w], "mailing", m) = IF senders[w].holds THEN 0 ELSE -1
    BY <1>1, <1>4, Credits
<1>10. mail[m].state \notin {"none", "suppressed"} /\ (s.holds => mail[m].state = "pending")
    BY <1>1, <1>2, <1>4 DEF MailerStands
<1>11. BoxStands(mail[m], n)
    BY <1>5, <1>8, <1>10 DEF BoxStands
<1>12. n + Credit(senders[w], "mailing", m)
         <= inboxed[m] + mail[m].tries - mail[m].tries + Credit(s, "mailing", m)
    BY <1>5, <1>8, <1>9
<1> HIDE DEF m
<1>13. MailInv'
    BY <1>1, <1>2, <1>3, <1>4, <1>5, <1>6, <1>7, <1>8, <1>10, <1>11, <1>12, MailMoves DEF m
<1>14. SendersInv' /\ HooksInv'
    BY <1>1, <1>3, <1>4, HooksIdle
<1> QED
    BY <1>13, <1>14

LEMMA MailRecords ==
    ASSUME NEW row \in MailRows, row.state = "pending", RowStands(row),
           NEW outcome \in {"ok", "retry", "refused"}
    PROVE  LET r == MailRecorded(row, outcome) IN
           /\ r \in MailRows /\ RowStands(r) /\ r.tries = row.tries + 1
           /\ IF outcome = "ok" THEN r.state = "sent" ELSE r.state \in {"pending", "failed"}
<1>1. /\ row.tries \in Nat /\ row.tries + 1 \in 0 .. MaxTries /\ MaxTries \in Nat
      /\ "sent" \in MailStates \ {"none", "pending"} /\ "failed" \in MailStates \ {"none", "pending"}
    BY DeliveryAssumption DEF MailRows, RowStands, MailStates
<1>2. CASE outcome = "ok"
    <2>1. MailRecorded(row, outcome) = SettledMail(row, "sent", row.tries + 1)
        BY <1>2 DEF MailRecorded
    <2> QED
        BY <1>1, <1>2, <2>1, Settled, SMTT(40)
<1>3. CASE outcome = "refused" \/ (outcome = "retry" /\ row.tries + 1 >= MaxTries)
    <2>1. MailRecorded(row, outcome) = SettledMail(row, "failed", row.tries + 1)
        BY <1>3 DEF MailRecorded
    <2> QED
        BY <1>1, <1>3, <2>1, Settled, SMTT(40)
<1>4. CASE outcome = "retry" /\ ~(row.tries + 1 >= MaxTries)
    <2> DEFINE r == [row EXCEPT !.tries = row.tries + 1, !.due = FALSE]
    <2>1. MailRecorded(row, outcome) = r
        BY <1>4 DEF MailRecorded
    <2>2. r \in MailRows /\ r.state = "pending" /\ r.tries = row.tries + 1 /\ r.secret = row.secret
        BY <1>1 DEF MailRows
    <2> HIDE DEF r
    <2> QED
        BY <1>1, <1>4, <2>1, <2>2 DEF RowStands
<1> QED
    BY <1>2, <1>3, <1>4

LEMMA MailAnsweredHolds ==
    ASSUME SendersInv, MailInv, HooksInv, NEW w \in Sender,
           NEW outcome \in {"ok", "retry", "refused"}, MailAnswered(w, outcome)
    PROVE  SendersInv' /\ HooksInv' /\ MailInv'
<1> DEFINE m == senders[w].row
           row == MailRecorded(mail[m], outcome)
           n == IF transport = "log" THEN inboxed[m] + 1 ELSE inboxed[m]
<1>1. /\ senders[w].pc = "mailing" /\ Goes(w, "sweeps")
      /\ UNCHANGED <<deliveries, hooked, transport, cuts>>
      /\ outcome = "ok" => senders[w].arrived
      /\ transport = "log" => outcome = "ok"
    BY DEF MailAnswered, At, MailOutcomes
<1>2. m \in Mail /\ MailerStands(w)
    BY <1>1 DEF SendersInv, Sits, MailInv
<1>3. /\ mail[m] \in MailRows /\ mail[m].tries \in Nat /\ inboxed[m] \in Nat
      /\ RowStands(mail[m]) /\ BoxStands(mail[m], inboxed[m])
      /\ transport \in {"resend", "smtp", "log"}
    BY <1>2, MailTypes DEF MailInv
<1>4. PICK s : /\ Sits(s) /\ Alone(w, s) /\ s.pc = "sweeps" /\ ~s.holds
               /\ senders' = [senders EXCEPT ![w] = s]
               /\ \A x : Credit(s, "mailing", x) = 0
    BY <1>1, Resting
<1>5. SendersInv' /\ HooksInv'
    BY <1>1, <1>4, HooksIdle
<1>6. CASE senders[w].holds
    <2>1. mail[m].state = "pending"
        BY <1>1, <1>2, <1>6 DEF MailerStands
    <2>2. /\ row \in MailRows /\ RowStands(row) /\ row.tries = mail[m].tries + 1
          /\ IF outcome = "ok" THEN row.state = "sent" ELSE row.state \in {"pending", "failed"}
        BY <1>3, <2>1, MailRecords
    <2>3. mail' = [mail EXCEPT ![m] = row]
        BY <1>6 DEF MailAnswered
    <2>4. inboxed' = [inboxed EXCEPT ![m] = n]
        <3>1. inboxed = [inboxed EXCEPT ![m] = inboxed[m]]
            BY DEF MailInv
        <3> QED
            BY <1>6, <3>1 DEF MailAnswered
    <2>5. /\ n \in Nat /\ n >= inboxed[m]
          /\ transport # "log" => n = inboxed[m]
          /\ transport = "log" => n = 1
        BY <1>3, <2>1 DEF BoxStands
    <2> HIDE DEF row, n
    <2>6. BoxStands(row, n)
        BY <1>1, <1>2, <1>3, <2>1, <2>2, <2>5 DEF BoxStands, MailerStands
    <2>7. Credit(senders[w], "mailing", m) <= 1 /\ Credit(senders[w], "mailing", m) \in Int
        BY DEF Credit
    <2>8. transport # "log" =>
            n + Credit(senders[w], "mailing", m)
              <= inboxed[m] + row.tries - mail[m].tries + Credit(s, "mailing", m)
        BY <1>3, <1>4, <2>2, <2>5, <2>7
    <2>9. \A v \in Sender \ {w} : ~(senders[v].holds /\ senders[v].row = m)
        BY <1>6 DEF SendersInv, OneHolder
    <2>10. row.state \notin {"none", "suppressed"}
        BY <2>2
    <2>11. senders[w].row = m
        OBVIOUS
    <2> HIDE DEF m
    <2>12. MailInv'
        BY <1>1, <1>2, <1>4, <2>2, <2>3, <2>4, <2>5, <2>6, <2>8, <2>9, <2>10, <2>11, MailMoves
    <2> QED
        BY <1>5, <2>12
<1>7. CASE ~senders[w].holds
    <2>1. UNCHANGED <<mail, inboxed>>
        BY <1>7 DEF MailAnswered
    <2>2. \A x \in Mail : Credit(senders[w], "mailing", x) \in {0, -1}
        BY <1>7 DEF Credit, OutAt
    <2>3. /\ cuts' \in Nat /\ cuts' = cuts
          /\ \A x \in Mail : cuts' - cuts + Credit(s, "mailing", x) >= Credit(senders[w], "mailing", x)
        BY <1>1, <1>4, <2>2 DEF MailInv
    <2>4. MailInv'
        BY <1>1, <1>4, <2>1, <2>3, MailKeeps
    <2> QED
        BY <1>5, <2>4
<1> QED
    BY <1>6, <1>7

LEMMA MailCutHolds ==
    ASSUME SendersInv, MailInv, NEW w \in Sender, Cut(w)
    PROVE  MailInv'
<1>1. /\ cuts' = cuts + 1 /\ cuts \in Nat /\ cuts' \in Nat
      /\ UNCHANGED <<transport, mail, inboxed>>
    BY DEF Cut, MailInv
<1>2. CASE Goes(w, "sweeps")
    <2>1. PICK s : /\ Sits(s) /\ Alone(w, s) /\ s.pc = "sweeps"
                   /\ senders' = [senders EXCEPT ![w] = s]
                   /\ \A x : Credit(s, "mailing", x) = 0
        BY <1>2, Resting
    <2>2. \A x \in Mail : Credit(senders[w], "mailing", x) \in {-1, 0, 1}
        BY DEF Credit
    <2>3. \A x \in Mail : cuts' - cuts + Credit(s, "mailing", x) >= Credit(senders[w], "mailing", x)
        BY <1>1, <2>1, <2>2
    <2> QED
        BY <1>1, <2>1, <2>3, MailKeeps
<1>3. CASE senders[w].holds /\ senders' = [senders EXCEPT ![w].holds = FALSE]
    <2> DEFINE s == [senders[w] EXCEPT !.holds = FALSE]
    <2>1. senders' = [senders EXCEPT ![w] = s]
        BY <1>3 DEF SendersInv
    <2>2. /\ Sits(s) /\ Alone(w, s) /\ s.pc = senders[w].pc /\ s.row = senders[w].row
          /\ s.arrived = senders[w].arrived /\ ~s.holds
        BY StaysWithRow
    <2> HIDE DEF s
    <2>3. \A x \in Mail : /\ Credit(s, "mailing", x) >= Credit(senders[w], "mailing", x) - 1
                          /\ Credit(s, "mailing", x) \in Int
                          /\ Credit(senders[w], "mailing", x) \in Int
        BY <1>3, <2>2 DEF Credit, OutAt, LostAt
    <2>4. \A x \in Mail : cuts' - cuts + Credit(s, "mailing", x) >= Credit(senders[w], "mailing", x)
        BY <1>1, <2>3
    <2>5. s.pc = "mailing" =>
            /\ s.arrived /\ transport # "log" => inboxed[s.row] > 0
            /\ mail[s.row].state \notin {"none", "suppressed"}
        BY <2>2 DEF MailInv, MailerStands
    <2> QED
        BY <1>1, <2>1, <2>2, <2>4, <2>5, MailKeeps
<1> QED
    BY <1>2, <1>3 DEF Cut
\* What the sending of deliveries leaves alone.
LEMMA HookStepsKeepMail ==
    ASSUME SendersInv, MailInv, NEW w \in Sender,
           \/ \E usable \in BOOLEAN : ClaimHook(w, usable)
           \/ HookArrives(w)
           \/ \E outcome : HookAnswered(w, outcome)
    PROVE  MailInv'
<1>1. UNCHANGED <<transport, mail, cuts, inboxed>> /\ senders[w].pc \in {"hooks", "hooking"}
    BY DEF ClaimHook, HookArrives, HookAnswered, At
<1>2. ASSUME NEW s, Sits(s), Alone(w, s), s.pc # "mailing", senders' = [senders EXCEPT ![w] = s]
      PROVE  MailInv'
    BY <1>1, <1>2, MailIdle
<1>3. CASE Goes(w, "mail") \/ Goes(w, "sweeps")
    <2>1. PICK s : Sits(s) /\ Alone(w, s) /\ s.pc \in {"mail", "sweeps"}
                   /\ senders' = [senders EXCEPT ![w] = s]
        BY <1>3, Resting
    <2> QED
        BY <1>2, <2>1
<1>4. CASE HookArrives(w)
    <2> DEFINE s == [senders[w] EXCEPT !.arrived = TRUE]
    <2>1. senders' = [senders EXCEPT ![w] = s]
        BY <1>4 DEF HookArrives, SendersInv
    <2>2. Sits(s) /\ Alone(w, s) /\ s.pc = senders[w].pc
        BY StaysWithRow
    <2> HIDE DEF s
    <2>3. s.pc # "mailing"
        BY <1>1, <2>2
    <2> QED
        BY <1>2, <2>1, <2>2, <2>3
<1>5. ASSUME NEW d \in ClaimableHooks,
             senders' = [senders EXCEPT ![w] =
                [pc |-> "hooking", row |-> d, arrived |-> FALSE, holds |-> TRUE]]
      PROVE  MailInv'
    <2> DEFINE s == [pc |-> "hooking", row |-> d, arrived |-> FALSE, holds |-> TRUE]
    <2>1. d \in Addressed /\ \A v \in Sender : ~(senders[v].holds /\ senders[v].row = d)
        BY <1>5, Unlocked DEF ClaimableHooks
    <2>2. Sits(s) /\ Alone(w, s) /\ s.pc = "hooking"
        BY <2>1 DEF Sits, SenderRows, Phases, Alone
    <2>3. senders' = [senders EXCEPT ![w] = s]
        BY <1>5
    <2> HIDE DEF s
    <2>4. s.pc # "mailing"
        BY <2>2
    <2> QED
        BY <1>2, <2>2, <2>3, <2>4
<1> QED
    BY <1>3, <1>4, <1>5 DEF ClaimHook, HookAnswered

DeliveryInv == SendersInv /\ HooksInv /\ MailInv

LEMMA DeliveryStarts == DeliveryInit => DeliveryInv
<1> SUFFICES ASSUME DeliveryInit PROVE DeliveryInv
    OBVIOUS
<1>1. /\ deliveries = [d \in Addressed |-> NoDelivery] /\ mail = [m \in Mail |-> NoMail]
      /\ transport \in {"resend", "smtp", "log"} /\ senders = [w \in Sender |-> AtSweeps]
      /\ hooked = [d \in Addressed |-> 0] /\ inboxed = [m \in Mail |-> 0] /\ cuts = 0
    BY DEF DeliveryInit
<1>2. /\ AtSweeps \in SenderRows /\ AtSweeps.pc = "sweeps" /\ ~AtSweeps.holds
      /\ NoDelivery \in HookRows /\ NoDelivery.state = "none" /\ NoDelivery.tries = 0
      /\ NoMail \in MailRows /\ NoMail.state = "none" /\ NoMail.tries = 0 /\ NoMail.secret = FALSE
    BY DeliveryAssumption
    DEF AtSweeps, SenderRows, Phases, NoDelivery, HookRows, NoMail, MailRows, MailStates
<1>3. \A w \in Sender : senders[w] = AtSweeps
    BY <1>1
<1>4. SendersInv
    BY <1>1, <1>2, <1>3 DEF SendersInv, Sits, OneHolder
<1>5. \A x : Spare("hooking", x) = 0 /\ Spare("mailing", x) = 0
    <2> SUFFICES ASSUME NEW x, NEW pc \in {"hooking", "mailing"} PROVE Spare(pc, x) = 0
        OBVIOUS
    <2>1. Lost(pc, x) = {} /\ Out(pc, x) = 0
        BY <1>2, <1>3 DEF Lost, Out, LostAt, OutAt
    <2>2. Cardinality(Lost(pc, x)) = 0
        BY <2>1, FS_EmptySet
    <2> QED
        BY <2>1, <2>2 DEF Spare
<1>6. HooksInv
    BY <1>1, <1>2, <1>3, <1>5 DEF HooksInv, HookRowStands, CallerStands, CallsAreCounted
<1>7. MailInv
    BY <1>1, <1>2, <1>3, <1>5 DEF MailInv, RowStands, BoxStands, MailerStands, CopiesAreCounted
<1> QED
    BY <1>4, <1>6, <1>7 DEF DeliveryInv

LEMMA DeliveryStep ==
    ASSUME DeliveryInv, [DeliveryNext]_deliveryVars
    PROVE  DeliveryInv'
<1> USE DEF DeliveryInv
<1>1. CASE UNCHANGED deliveryVars
    BY <1>1, HooksIdle, MailIdle DEF deliveryVars
<1>2. ASSUME NEW s \in Sink, RegisterSink(s) \/ SetSinkState(s, "active") \/ SetSinkState(s, "paused")
      PROVE  DeliveryInv'
    BY <1>2, HooksIdle, MailIdle DEF RegisterSink, SetSinkState
<1>3. ASSUME NEW n \in Notice, Notify(n)
      PROVE  DeliveryInv'
    BY <1>3, NotifyHolds, MailIdle DEF Notify
<1>4. ASSUME NEW m \in Mail,
             MailDue(m) \/ MailAges(m) \/ SupersedeMail(m)
             \/ (\E sound \in BOOLEAN : QueueMail(m, "pending", sound)) \/ QueueMail(m, "suppressed", TRUE)
      PROVE  DeliveryInv'
    <2>1. UNCHANGED <<deliveries, hooked, cuts, senders>>
        BY <1>4 DEF MailDue, MailAges, SupersedeMail, QueueMail
    <2> QED
        BY <1>4, <2>1, HooksIdle, MailTimeHolds
<1>5. ASSUME NEW d \in Addressed, HookDue(d)
      PROVE  DeliveryInv'
    BY <1>5, HookDueHolds, MailIdle DEF HookDue
<1>6. ASSUME NEW w \in Sender, Cycle(w)
      PROVE  DeliveryInv'
    <2>1. ASSUME NEW purge \in BOOLEAN, Sweep(w, purge) PROVE DeliveryInv'
        <3>1. PICK s : Sits(s) /\ Alone(w, s) /\ s.pc = "hooks" /\ senders' = [senders EXCEPT ![w] = s]
            BY <2>1, Resting DEF Sweep
        <3>2. senders[w].pc # "hooking" /\ UNCHANGED <<deliveries, hooked, cuts>>
            BY <2>1 DEF Sweep, At
        <3> QED
            BY <2>1, <3>1, <3>2, HooksIdle, SweepHolds
    <2>2. CASE \E usable \in BOOLEAN : ClaimHook(w, usable)
        BY <2>2, ClaimHookHolds, HookStepsKeepMail
    <2>3. CASE HookArrives(w)
        BY <2>3, HookArrivesHolds, HookStepsKeepMail
    <2>4. CASE \E outcome : HookAnswered(w, outcome)
        BY <2>4, HookAnsweredHolds, HookStepsKeepMail
    <2>5. CASE ClaimMail(w)
        BY <2>5, ClaimMailHolds
    <2>6. CASE MailArrives(w)
        BY <2>6, MailArrivesHolds
    <2>7. CASE \E outcome \in {"ok", "retry", "refused"} : MailAnswered(w, outcome)
        BY <2>7, MailAnsweredHolds
    <2> QED
        BY <1>6, <2>1, <2>2, <2>3, <2>4, <2>5, <2>6, <2>7 DEF Cycle
<1>7. ASSUME NEW w \in Sender, Cut(w)
      PROVE  DeliveryInv'
    BY <1>7, CutHolds, MailCutHolds
<1> QED
    BY <1>1, <1>2, <1>3, <1>4, <1>5, <1>6, <1>7 DEF DeliveryNext, TimePasses

LEMMA DeliveryInvIsEnough == DeliveryInv => DeliveriesStand
<1> SUFFICES ASSUME DeliveryInv PROVE DeliveriesStand
    OBVIOUS
<1> USE DEF DeliveryInv
<1>1. ASSUME NEW d \in Addressed
      PROVE  /\ deliveries[d].state = "delivered" => hooked[d] > 0
             /\ deliveries[d].tries <= MaxTries
             /\ hooked[d] <= MaxTries + cuts
             /\ deliveries[d].state \in {"delivered", "failed"} => ~Locked(d)
    <2>1. /\ hooked[d] <= deliveries[d].tries + Spare("hooking", d) + cuts
          /\ HookRowStands(d)
        BY DEF HooksInv, CallsAreCounted
    <2>2. /\ deliveries[d].tries \in 0 .. MaxTries /\ hooked[d] \in Nat /\ cuts \in Nat
          /\ MaxTries \in Nat
        BY HookTypes
    <2>3. Spare("hooking", d) \in Int /\ Spare("hooking", d) <= Out("hooking", d)
          /\ Out("hooking", d) \in {0, 1}
        BY SpareIsInt
    <2>4. Out("hooking", d) = 1 => deliveries[d].tries < MaxTries
        BY <2>1 DEF Out, OutAt, HooksInv, CallerStands, HookRowStands
    <2>5. Locked(d) => deliveries[d].state = "pending"
        BY DeliveryAssumption DEF Locked, SendersInv, Sits, HooksInv, CallerStands, Addressed
    <2> QED
        BY <2>1, <2>2, <2>3, <2>4, <2>5 DEF HookRowStands
<1>2. HooksStand
    BY <1>1 DEF HooksStand, SendersInv, OneHolder
<1>3. ASSUME NEW m \in Mail
      PROVE  /\ mail[m].secret = (mail[m].state = "pending")
             /\ inboxed[m] <= MaxTries + cuts
    <2>1. /\ mail[m].tries \in 0 .. MaxTries /\ inboxed[m] \in Nat /\ cuts \in Nat
          /\ MaxTries \in Nat \ {0} /\ RowStands(mail[m]) /\ BoxStands(mail[m], inboxed[m])
        BY MailTypes
    <2>2. mail[m].secret \in BOOLEAN
        BY DEF MailInv, MailRows
    <2>3. mail[m].secret = (mail[m].state = "pending")
        BY <2>1, <2>2 DEF RowStands
    <2>4. Spare("mailing", m) \in Int /\ Spare("mailing", m) <= Out("mailing", m)
          /\ Out("mailing", m) \in {0, 1}
        BY SpareIsInt
    <2>5. Out("mailing", m) = 1 => mail[m].tries < MaxTries
        BY <2>1 DEF Out, OutAt, MailInv, MailerStands, RowStands
    <2>6. transport # "log" => inboxed[m] <= mail[m].tries + Spare("mailing", m) + cuts
        BY DEF MailInv, CopiesAreCounted
    <2>7. transport = "log" => inboxed[m] <= 1
        BY <2>1 DEF BoxStands
    <2> QED
        BY <2>1, <2>3, <2>4, <2>5, <2>6, <2>7
<1>4. MailStands
    BY <1>3, MailTypes DEF MailStands, BoxStands
<1> QED
    BY <1>2, <1>4 DEF DeliveriesStand

\* What the far end saw and what the row says never part by more than the cuts
\* allow (notify.ts, email.ts): marked delivered was seen, marked sent was sent,
\* the cap holds, Resend's key keeps to one copy, and no two workers that can
\* record anything hold one row.
THEOREM DeliveriesAreKept == DeliverySpec => []DeliveriesStand
<1>1. DeliverySpec => []DeliveryInv
    BY DeliveryStarts, DeliveryStep, PTL DEF DeliverySpec
<1> QED
    BY <1>1, DeliveryInvIsEnough, PTL
=============================================================================
