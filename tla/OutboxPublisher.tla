-------------------------- MODULE OutboxPublisher --------------------------
(***************************************************************************)
(* The outbox loop of the jobs worker (apps/jobs-worker) and one of its    *)
(* consumers, the project export.                                          *)
(*                                                                         *)
(* A worker claims an event in a transaction that stays open while the     *)
(* handlers run; each handler, and each inbox row, commits on a connection *)
(* of its own.  The worker may therefore crash between any two of them,    *)
(* and the session that holds the claim may be lost while the worker goes  *)
(* on: the row is then free for another worker.                            *)
(*                                                                         *)
(* Every event here is a "project.export.requested": both handlers accept  *)
(* it.  The order of the claims and the backoff are left out; an event     *)
(* that waits is one no worker has claimed yet.  A replay is one step: it  *)
(* picks published and dead rows, and nothing but a replay changes those.  *)
(***************************************************************************)
EXTENDS Naturals, Sequences

CONSTANTS
    Event,       \* the outbox rows there will ever be, one export job each
    Worker,      \* jobs-worker processes
    MaxAttempts, \* OUTBOX_MAX_ATTEMPTS
    MaxLosses,   \* bound on the times work is cut off (crash, lost session)
    MaxReplays,  \* bound on the operator's replays
    NoEvent      \* the event of an idle worker

ASSUME OutboxAssumption ==
    /\ MaxAttempts \in Nat \ {0}
    /\ MaxLosses \in Nat
    /\ MaxReplays \in Nat
    /\ NoEvent \notin Event

VARIABLES
    outbox,  \* core.outbox
    inbox,   \* core.inbox: the (event, handler) pairs processed
    jobs,    \* core.project_exports; "package" says which run built it
    workers, \* what each worker process is doing
    runs,    \* for the properties: completed calls of each handler's handle()
    losses,  \* for the properties: times work was cut off
    replays  \* replays the operator has applied

vars == <<outbox, inbox, jobs, workers, runs, losses, replays>>

\* buildOutboxHandlers, in the order the dispatcher calls them.
Handlers == <<"log", "project_export">>
Handler == {Handlers[i] : i \in DOMAIN Handlers}

Status == {"absent", "due", "published", "dead"}
Phase == {"idle", "handling", "running", "building", "handled", "settling", "closing"}
WorkerRow == [pc: Phase, event: Event \cup {NoEvent}, next: 1 .. Len(Handlers) + 1,
              skip: SUBSET Handler, holds: BOOLEAN]
Idle == [pc |-> "idle", event |-> NoEvent, next |-> 1, skip |-> {}, holds |-> FALSE]

Init ==
    /\ outbox = [e \in Event |-> [status |-> "absent", attempts |-> 0, skip |-> {}]]
    /\ inbox = {}
    /\ jobs = [e \in Event |-> [state |-> "none", package |-> 0]]
    /\ workers = [w \in Worker |-> Idle]
    /\ runs = [e \in Event |-> [h \in Handler |-> 0]]
    /\ losses = 0
    /\ replays = 0

---------------------------------------------------------------------------
(* The API and the operator *)

\* POST /projects/{id}/exports: the job and its event in one transaction.
Request(e) ==
    /\ outbox[e].status = "absent"
    /\ outbox' = [outbox EXCEPT ![e].status = "due"]
    /\ jobs' = [jobs EXCEPT ![e].state = "queued"]
    /\ UNCHANGED <<inbox, workers, runs, losses, replays>>

\* The row lock of the claiming transaction.
Claimed(e) == \E w \in Worker : workers[w].event = e /\ workers[w].holds

\* replayEvents: back into the queue, with the handlers to leave out this time.
Replay(e, skip) ==
    /\ replays < MaxReplays
    /\ outbox[e].status \in {"published", "dead"}
    /\ outbox' = [outbox EXCEPT ![e] = [status |-> "due", attempts |-> 0, skip |-> skip]]
    /\ replays' = replays + 1
    /\ UNCHANGED <<inbox, jobs, workers, runs, losses>>

---------------------------------------------------------------------------
(* One worker, one event *)

Current(w) == Handlers[workers[w].next]
Done(w) == workers[w].next > Len(Handlers)

\* alreadyProcessed: the consumer side's deduplication.
AlreadyProcessed(e, h) == <<e, h>> \in inbox

Advance(w) == workers' = [workers EXCEPT ![w].next = @ + 1, ![w].pc = "handling"]

\* SELECT ... FOR UPDATE SKIP LOCKED; the row read here is used to the end.
Claim(w, e) ==
    /\ workers[w].pc = "idle"
    /\ outbox[e].status = "due"
    /\ ~Claimed(e)
    /\ workers' = [workers EXCEPT ![w] =
            [pc |-> "handling", event |-> e, next |-> 1, skip |-> outbox[e].skip, holds |-> TRUE]]
    /\ UNCHANGED <<outbox, inbox, jobs, runs, losses, replays>>

\* A handler that is excluded, or has already finished the event, is passed over.
CheckInbox(w) ==
    /\ workers[w].pc = "handling"
    /\ ~Done(w)
    /\ IF \/ Current(w) \in workers[w].skip
          \/ AlreadyProcessed(workers[w].event, Current(w))
       THEN Advance(w)
       ELSE workers' = [workers EXCEPT ![w].pc = "running"]
    /\ UNCHANGED <<outbox, inbox, jobs, runs, losses, replays>>

Handled(w) ==
    /\ runs' = [runs EXCEPT ![workers[w].event][Current(w)] = @ + 1]
    /\ workers' = [workers EXCEPT ![w].pc = "handled"]

\* The event log writes a line and keeps no state.
HandleLog(w) ==
    /\ workers[w].pc = "running"
    /\ Current(w) = "log"
    /\ Handled(w)
    /\ UNCHANGED <<outbox, inbox, jobs, losses, replays>>

\* buildProjectExport reads the job first: a package already built is left alone.
ReadJob(w) ==
    /\ workers[w].pc = "running"
    /\ Current(w) = "project_export"
    /\ IF jobs[workers[w].event].state = "succeeded"
       THEN Handled(w)
       ELSE workers' = [workers EXCEPT ![w].pc = "building"] /\ UNCHANGED runs
    /\ UNCHANGED <<outbox, inbox, jobs, losses, replays>>

StorePackage_Mutation(e) ==
    jobs' = [jobs EXCEPT ![e] = [state |-> "succeeded", package |-> runs[e]["project_export"] + 1]]

\* UPDATE ... WHERE state <> 'succeeded'.
StorePackage(e) ==
    IF jobs[e].state # "succeeded"
    THEN jobs' = [jobs EXCEPT ![e] =
            [state |-> "succeeded", package |-> runs[e]["project_export"] + 1]]
    ELSE UNCHANGED jobs

BuildExport(w) ==
    /\ workers[w].pc = "building"
    /\ StorePackage(workers[w].event)
    /\ Handled(w)
    /\ UNCHANGED <<outbox, inbox, losses, replays>>

\* The receipt before the work it stands for.
Receive_Mutation(w) ==
    /\ workers[w].pc = "running"
    /\ <<workers[w].event, Current(w)>> \notin inbox
    /\ inbox' = inbox \cup {<<workers[w].event, Current(w)>>}
    /\ UNCHANGED <<outbox, jobs, workers, runs, losses, replays>>

\* claimEvent: ON CONFLICT DO NOTHING, after the handler succeeded.
Receive(w) ==
    /\ workers[w].pc = "handled"
    /\ inbox' = inbox \cup {<<workers[w].event, Current(w)>>}
    /\ Advance(w)
    /\ UNCHANGED <<outbox, jobs, runs, losses, replays>>

Delivered(e) ==
    [outbox EXCEPT ![e].status = "published", ![e].attempts = @ + 1]

\* A failing handler swallowed: the event counts as published.
Publish_Mutation(w) ==
    /\ workers[w].pc \in {"handling", "running", "building"}
    /\ outbox' = IF workers[w].holds THEN Delivered(workers[w].event) ELSE outbox
    /\ workers' = [workers EXCEPT ![w] = Idle]
    /\ UNCHANGED <<inbox, jobs, runs, losses, replays>>

\* All handlers are through: marked published, if the claim still stands.
Publish(w) ==
    /\ workers[w].pc = "handling"
    /\ Done(w)
    /\ outbox' = IF workers[w].holds THEN Delivered(workers[w].event) ELSE outbox
    /\ workers' = [workers EXCEPT ![w] = Idle]
    /\ UNCHANGED <<inbox, jobs, runs, losses, replays>>

Attempt_Mutation(e) == outbox

\* An attempt that failed: tried again later, or set aside at the last attempt.
Attempt(e) ==
    [outbox EXCEPT ![e].attempts = @ + 1,
                   ![e].status = IF outbox[e].attempts + 1 >= MaxAttempts THEN "dead" ELSE "due"]

\* A handler, or a query of the dispatcher around it, throws.  If it is the
\* inbox row that could not be written, finished work is cut off.  A worker
\* without its claim cannot record anything.  After the last attempt it goes on
\* to onDeadLetter, with the mark committed.
Fail(w) ==
    LET e == workers[w].event IN
    /\ \/ workers[w].pc = "handling" /\ ~Done(w) /\ UNCHANGED losses
       \/ workers[w].pc \in {"running", "building"} /\ UNCHANGED losses
       \/ workers[w].pc = "handled" /\ losses < MaxLosses /\ losses' = losses + 1
    /\ outbox' = IF workers[w].holds THEN Attempt(e) ELSE outbox
    /\ workers' = [workers EXCEPT ![w] =
            IF workers[w].holds /\ outbox'[e].status = "dead"
            THEN [@ EXCEPT !.pc = "settling", !.next = 1, !.holds = FALSE]
            ELSE Idle]
    /\ UNCHANGED <<inbox, jobs, runs, replays>>

\* onDeadLetter, for each handler in turn; only the export has something to settle.
SettleCheck(w) ==
    /\ workers[w].pc = "settling"
    /\ workers' = [workers EXCEPT ![w] =
            IF Done(w) THEN Idle
            ELSE IF \/ Current(w) \in workers[w].skip
                    \/ AlreadyProcessed(workers[w].event, Current(w))
                    \/ Current(w) # "project_export"
                 THEN [workers[w] EXCEPT !.next = @ + 1]
                 ELSE [workers[w] EXCEPT !.pc = "closing"]]
    /\ UNCHANGED <<outbox, inbox, jobs, runs, losses, replays>>

\* UPDATE ... SET state = 'failed' WHERE state = 'queued'.
CloseJob(e) ==
    IF jobs[e].state = "queued" THEN [jobs EXCEPT ![e].state = "failed"] ELSE jobs

SettleJob(w) ==
    /\ workers[w].pc = "closing"
    /\ jobs' = CloseJob(workers[w].event)
    /\ workers' = [workers EXCEPT ![w].pc = "settling", ![w].next = @ + 1]
    /\ UNCHANGED <<outbox, inbox, runs, losses, replays>>

\* The hook fails: it is logged and the batch goes on.
SettleFails(w) ==
    /\ workers[w].pc \in {"settling", "closing"}
    /\ losses < MaxLosses
    /\ losses' = losses + 1
    /\ workers' = [workers EXCEPT ![w] = Idle]
    /\ UNCHANGED <<outbox, inbox, jobs, runs, replays>>

\* The process dies; its transaction is rolled back.
Crash(w) ==
    /\ workers[w].pc # "idle"
    /\ losses < MaxLosses
    /\ losses' = losses + 1
    /\ workers' = [workers EXCEPT ![w] = Idle]
    /\ UNCHANGED <<outbox, inbox, jobs, runs, replays>>

\* The claiming session is lost while a handler works on.
LoseClaim(w) ==
    /\ workers[w].holds
    /\ losses < MaxLosses
    /\ losses' = losses + 1
    /\ workers' = [workers EXCEPT ![w].holds = FALSE]
    /\ UNCHANGED <<outbox, inbox, jobs, runs, replays>>

Work(w) ==
    \/ \E e \in Event : Claim(w, e)
    \/ CheckInbox(w)
    \/ HandleLog(w)
    \/ ReadJob(w)
    \/ BuildExport(w)
    \/ Receive(w)
    \/ Publish(w)
    \/ Fail(w)
    \/ SettleCheck(w)
    \/ SettleJob(w)

\* Every event published or dead, every replay spent, every worker idle.
Quiet ==
    /\ \A e \in Event : outbox[e].status \in {"published", "dead"}
    /\ replays = MaxReplays
    /\ \A w \in Worker : workers[w].pc = "idle"
    /\ UNCHANGED vars

Next ==
    \/ \E e \in Event : Request(e)
    \/ \E e \in Event, skip \in SUBSET Handler : Replay(e, skip)
    \/ \E w \in Worker : Work(w) \/ SettleFails(w) \/ Crash(w) \/ LoseClaim(w)
    \/ Quiet

\* The loop never stops working (main.ts catches what a batch throws).
Fairness == \A w \in Worker : WF_vars(Work(w))

Spec == Init /\ [][Next]_vars
FairSpec == Spec /\ Fairness

---------------------------------------------------------------------------
(* Properties *)

TypeOK ==
    /\ outbox \in [Event -> [status: Status, attempts: 0 .. MaxAttempts, skip: SUBSET Handler]]
    /\ inbox \subseteq Event \X Handler
    /\ jobs \in [Event -> [state: {"none", "queued", "succeeded", "failed"}, package: Nat]]
    /\ workers \in [Worker -> WorkerRow]
    /\ runs \in [Event -> [Handler -> Nat]]
    /\ losses \in 0 .. MaxLosses
    /\ replays \in 0 .. MaxReplays

\* "The inbox row is written after the handler succeeds": whoever crashes or
\* loses its claim, and whatever is replayed, an event the export is marked
\* done with has its package for good.
WorkBeforeReceipt ==
    \A e \in Event : <<e, "project_export">> \in inbox =>
        jobs[e].state = "succeeded" /\ jobs[e].package > 0

\* An event is published only when every handler it was not excluded from has
\* its receipt: no handler's failure, and no worker that lost its claim, can
\* pass an event off as delivered.
PublishedIsHandled ==
    \A e \in Event : outbox[e].status = "published" =>
        \A h \in Handler \ outbox[e].skip : <<e, h>> \in inbox

\* "The first package stands": two workers building the same job, a replay, or
\* a late dead-letter hook never replace it or take it back.
ExportStands ==
    [][\A e \in Event : jobs[e].state = "succeeded" => jobs'[e] = jobs[e]]_vars

\* Every event is eventually published or set aside: a failing handler costs a
\* bounded number of attempts, and a crash does not lose the event.
EventsSettle ==
    \A e \in Event : outbox[e].status = "due" ~> outbox[e].status \in {"published", "dead"}

=============================================================================
