------------------------------ MODULE Delivery ------------------------------
(***************************************************************************)
(* What the jobs worker sends out: notifications to the webhooks tenants   *)
(* register, and account mail.                                             *)
(*                                                                         *)
(* A worker's cycle sweeps, sends at most one delivery and then at most    *)
(* one mail.  A row is claimed, sent and settled in one transaction, under *)
(* a lock other workers skip; so a cut may fall between what the far end   *)
(* saw and what the row says.  A cut is a crash, a query that throws, or   *)
(* the loss of the session that holds the lock, after which the process    *)
(* goes on sending with nothing to record it in.                           *)
(*                                                                         *)
(* Rows due at once are taken in any order.  Times are phases: a row is    *)
(* due or not, mail is fresh, past its code's expiry, or settled a day.    *)
(***************************************************************************)
EXTENDS Naturals, FiniteSets

CONSTANTS
    Sender,    \* jobs-worker processes
    Notice,    \* notifications
    Sink,      \* registered webhooks
    Mail,      \* mails
    MaxTries,  \* NOTIFY_MAX_ATTEMPTS and EMAIL_MAX_ATTEMPTS
    MaxCuts    \* bound: cuts

\* Deliveries and mails are rows of different tables.
ASSUME DeliveryAssumption ==
    /\ MaxTries \in Nat \ {0} /\ MaxCuts \in Nat
    /\ IsFiniteSet(Sender)
    /\ Mail \cap (Notice \X Sink) = {}

VARIABLES
    sinks,       \* core.notification_sinks
    deliveries,  \* core.notification_deliveries
    transport,   \* EMAIL_TRANSPORT
    mail,        \* core.email_outbox
    senders,     \* what each worker is doing
    hooked,      \* calls that reached the receiver, per delivery
    inboxed,     \* copies of a mail that reached a person (or the test sink)
    cuts

deliveryVars == <<sinks, deliveries, transport, mail, senders, hooked, inboxed, cuts>>

Addressed == Notice \X Sink
NoRow == <<>>

Phases == {"sweeps", "hooks", "hooking", "mail", "mailing"}
AtSweeps == [pc |-> "sweeps", row |-> NoRow, arrived |-> FALSE, holds |-> FALSE]
NoDelivery == [state |-> "none", tries |-> 0, due |-> FALSE]
NoMail == [state |-> "none", tries |-> 0, due |-> FALSE, sound |-> TRUE, secret |-> FALSE, age |-> "fresh"]

DeliveryInit ==
    /\ sinks = [s \in Sink |-> "none"]
    /\ deliveries = [d \in Addressed |-> NoDelivery]
    /\ transport \in {"resend", "smtp", "log"}
    /\ mail = [m \in Mail |-> NoMail]
    /\ senders = [w \in Sender |-> AtSweeps]
    /\ hooked = [d \in Addressed |-> 0]
    /\ inboxed = [m \in Mail |-> 0]
    /\ cuts = 0

Locked(row) == \E w \in Sender : senders[w].row = row /\ senders[w].holds

---------------------------------------------------------------------------
(* The API: receivers, notifications and mail *)

\* POST notification-sinks: one receiver per address.
RegisterSink(s) ==
    /\ sinks[s] = "none"
    /\ sinks' = [sinks EXCEPT ![s] = "active"]
    /\ UNCHANGED <<deliveries, transport, mail, senders, hooked, inboxed, cuts>>

\* POST .../state: a receiver is paused, never deleted.
SetSinkState(s, state) ==
    /\ sinks[s] # "none"
    /\ sinks' = [sinks EXCEPT ![s] = state]
    /\ UNCHANGED <<deliveries, transport, mail, senders, hooked, inboxed, cuts>>

\* The trigger on a new notification: a row for every receiver active then.
Notify(n) ==
    /\ \A s \in Sink : deliveries[<<n, s>>].state = "none"
    /\ \E s \in Sink : sinks[s] = "active"
    /\ deliveries' = [d \in Addressed |->
            IF d[1] = n /\ sinks[d[2]] = "active"
            THEN [state |-> "pending", tries |-> 0, due |-> TRUE] ELSE deliveries[d]]
    /\ UNCHANGED <<sinks, transport, mail, senders, hooked, inboxed, cuts>>

\* A row with its code; a decoy's row has nobody to go to.
QueueMail(m, state, sound) ==
    /\ mail[m].state = "none"
    /\ mail' = [mail EXCEPT ![m] =
            [state |-> state, tries |-> 0, due |-> TRUE, sound |-> sound,
             secret |-> state = "pending", age |-> "fresh"]]
    /\ UNCHANGED <<sinks, deliveries, transport, senders, hooked, inboxed, cuts>>

SettledMail(row, state, tries) ==
    [row EXCEPT !.state = state, !.tries = tries, !.secret = FALSE, !.due = FALSE]

\* A newer code takes the place of this one.  The update waits for the row.
SupersedeMail(m) ==
    /\ mail[m].state = "pending"
    /\ ~Locked(m)
    /\ mail' = [mail EXCEPT ![m] = SettledMail(@, "superseded", @.tries)]
    /\ UNCHANGED <<sinks, deliveries, transport, senders, hooked, inboxed, cuts>>

---------------------------------------------------------------------------
(* Time *)

\* The backoff of a row is over.
HookDue(d) ==
    /\ deliveries[d].state = "pending" /\ ~deliveries[d].due
    /\ deliveries' = [deliveries EXCEPT ![d].due = TRUE]
    /\ UNCHANGED <<sinks, transport, mail, senders, hooked, inboxed, cuts>>

MailDue(m) ==
    /\ mail[m].state = "pending" /\ ~mail[m].due
    /\ mail' = [mail EXCEPT ![m].due = TRUE]
    /\ UNCHANGED <<sinks, deliveries, transport, senders, hooked, inboxed, cuts>>

\* The code of a mail expires; a settled row ages a day.
MailAges(m) ==
    /\ \/ mail[m].state = "pending" /\ mail[m].age = "fresh" /\ mail' = [mail EXCEPT ![m].age = "expired"]
       \/ mail[m].state \notin {"none", "pending", "deleted"} /\ mail[m].age # "dayold"
          /\ mail' = [mail EXCEPT ![m].age = "dayold"]
    /\ UNCHANGED <<sinks, deliveries, transport, senders, hooked, inboxed, cuts>>

---------------------------------------------------------------------------
(* A worker's cycle *)

At(w, pc) == senders[w].pc = pc
Goes(w, pc) == senders' = [senders EXCEPT ![w] = [AtSweeps EXCEPT !.pc = pc]]

\* purge_email_auth_records: pending mail past its code is settled, and what
\* was settled a day ago goes.  (The two statements of one function.)
Purged(row) ==
    CASE row.state = "pending" /\ row.age = "expired" -> SettledMail(row, "expired", row.tries)
      [] row.state \notin {"none", "pending", "deleted"} /\ row.age = "dayold" ->
           [row EXCEPT !.state = "deleted"]
      [] OTHER -> row

\* The sweeps of the cycle; most of the time none is due.  The purge waits for
\* rows that are being sent.
Sweep(w, purge) ==
    /\ At(w, "sweeps")
    /\ purge => \A m \in Mail : Purged(mail[m]) # mail[m] => ~Locked(m)
    /\ mail' = IF purge THEN [m \in Mail |-> Purged(mail[m])] ELSE mail
    /\ Goes(w, "hooks")
    /\ UNCHANGED <<sinks, deliveries, transport, hooked, inboxed, cuts>>

ClaimableHooks ==
    {d \in Addressed : deliveries[d].state = "pending" /\ deliveries[d].due
                       /\ sinks[d[2]] = "active" /\ ~Locked(d)}

\* deliverOnce, up to the send: a secret that cannot be used settles the row.
ClaimHook(w, usable) ==
    /\ At(w, "hooks")
    /\ IF ClaimableHooks = {}
       THEN Goes(w, "mail") /\ UNCHANGED deliveries
       ELSE \E d \in ClaimableHooks :
              IF usable
              THEN /\ senders' = [senders EXCEPT ![w] =
                         [pc |-> "hooking", row |-> d, arrived |-> FALSE, holds |-> TRUE]]
                   /\ UNCHANGED deliveries
              ELSE /\ deliveries' = [deliveries EXCEPT ![d] =
                         [state |-> "failed", tries |-> @.tries + 1, due |-> FALSE]]
                   /\ Goes(w, "mail")
    /\ UNCHANGED <<sinks, transport, mail, hooked, inboxed, cuts>>

\* The receiver sees the call.
HookArrives(w) ==
    /\ At(w, "hooking") /\ ~senders[w].arrived
    /\ senders' = [senders EXCEPT ![w].arrived = TRUE]
    /\ hooked' = [hooked EXCEPT ![senders[w].row] = @ + 1]
    /\ UNCHANGED <<sinks, deliveries, transport, mail, inboxed, cuts>>

\* What send() can make of it.  A redirect or an oversized answer is a failure
\* of a call that arrived; a timeout says nothing about it.
HookOutcomes(arrived) ==
    {"timeout", "network_error"} \cup
    (IF arrived THEN {"ok", "http_error", "response_too_large"} ELSE {"rejected_destination"})

HookRecorded_Endless(row, outcome) ==
    IF outcome = "ok" THEN [state |-> "delivered", tries |-> row.tries + 1, due |-> FALSE]
    ELSE [state |-> IF row.tries >= MaxTries THEN "failed" ELSE "pending",
          tries |-> row.tries + 1, due |-> FALSE]

\* Delivered, tried again after the backoff, or failed at the cap.
HookRecorded(row, outcome) ==
    IF outcome = "ok" THEN [state |-> "delivered", tries |-> row.tries + 1, due |-> FALSE]
    ELSE [state |-> IF row.tries + 1 >= MaxTries THEN "failed" ELSE "pending",
          tries |-> row.tries + 1, due |-> FALSE]

HookAnswered(w, outcome) ==
    /\ At(w, "hooking")
    /\ outcome \in HookOutcomes(senders[w].arrived)
    /\ IF senders[w].holds
       THEN /\ deliveries' = [deliveries EXCEPT ![senders[w].row] = HookRecorded(@, outcome)]
            /\ Goes(w, "mail")
       ELSE Goes(w, "sweeps") /\ UNCHANGED deliveries
    /\ UNCHANGED <<sinks, transport, mail, hooked, inboxed, cuts>>

ClaimableMail == {m \in Mail : mail[m].state = "pending" /\ mail[m].due /\ ~Locked(m)}

\* deliverEmailOnce, up to the send: a code that expired is not sent, and
\* parameters that do not render fail at once.
ClaimMail(w) ==
    /\ At(w, "mail")
    /\ IF ClaimableMail = {}
       THEN Goes(w, "sweeps") /\ UNCHANGED mail
       ELSE \E m \in ClaimableMail :
              IF mail[m].age = "expired" \/ ~mail[m].sound
              THEN /\ mail' = [mail EXCEPT ![m] = SettledMail(@,
                         IF @.age = "expired" THEN "expired" ELSE "failed", @.tries)]
                   /\ Goes(w, "sweeps")
              ELSE /\ senders' = [senders EXCEPT ![w] =
                         [pc |-> "mailing", row |-> m, arrived |-> FALSE, holds |-> TRUE]]
                   /\ UNCHANGED mail
    /\ UNCHANGED <<sinks, deliveries, transport, hooked, inboxed, cuts>>

Copies_Unkeyed(m) == IF transport = "log" THEN inboxed ELSE [inboxed EXCEPT ![m] = @ + 1]

\* What one more accepted message puts in the mailbox: Resend keeps to one per
\* idempotency key, the row's id; the test sink is written with the settle.
Copies(m) ==
    CASE transport = "resend" -> [inboxed EXCEPT ![m] = 1]
      [] transport = "smtp" -> [inboxed EXCEPT ![m] = @ + 1]
      [] transport = "log" -> inboxed

\* The mail server accepts the message.
MailArrives(w) ==
    /\ At(w, "mailing") /\ ~senders[w].arrived
    /\ senders' = [senders EXCEPT ![w].arrived = TRUE]
    /\ inboxed' = Copies(senders[w].row)
    /\ UNCHANGED <<sinks, deliveries, transport, mail, hooked, cuts>>

\* transport.send: "retry" stands for a timeout, a lost connection, 429 and 5xx
\* (4xx of SMTP), "refused" for what fails the same way next time.
MailOutcomes(arrived) ==
    IF transport = "log" THEN (IF arrived THEN {"ok"} ELSE {})
    ELSE IF arrived THEN {"ok", "retry"} ELSE {"retry", "refused"}

MailRecorded(row, outcome) ==
    CASE outcome = "ok" -> SettledMail(row, "sent", row.tries + 1)
      [] outcome = "refused" \/ (outcome = "retry" /\ row.tries + 1 >= MaxTries) ->
           SettledMail(row, "failed", row.tries + 1)
      [] OTHER -> [row EXCEPT !.tries = @ + 1, !.due = FALSE]

MailAnswered(w, outcome) ==
    LET m == senders[w].row IN
    /\ At(w, "mailing")
    /\ outcome \in MailOutcomes(senders[w].arrived)
    /\ IF senders[w].holds
       THEN /\ mail' = [mail EXCEPT ![m] = MailRecorded(@, outcome)]
            /\ inboxed' = IF transport = "log" THEN [inboxed EXCEPT ![m] = @ + 1] ELSE inboxed
       ELSE UNCHANGED <<mail, inboxed>>
    /\ Goes(w, "sweeps")
    /\ UNCHANGED <<sinks, deliveries, transport, hooked, cuts>>

\* A cut: the process dies or a query throws, and the transaction is rolled
\* back; or only the session that holds the lock is lost.
Cut(w) ==
    /\ cuts < MaxCuts
    /\ cuts' = cuts + 1
    /\ \/ Goes(w, "sweeps")
       \/ senders[w].holds /\ senders' = [senders EXCEPT ![w].holds = FALSE]
    /\ UNCHANGED <<sinks, deliveries, transport, mail, hooked, inboxed>>

Cycle(w) ==
    \/ \E purge \in BOOLEAN : Sweep(w, purge)
    \/ \E usable \in BOOLEAN : ClaimHook(w, usable)
    \/ HookArrives(w)
    \/ \E outcome \in HookOutcomes(TRUE) \cup HookOutcomes(FALSE) : HookAnswered(w, outcome)
    \/ ClaimMail(w)
    \/ MailArrives(w)
    \/ \E outcome \in {"ok", "retry", "refused"} : MailAnswered(w, outcome)

TimePasses == (\E d \in Addressed : HookDue(d)) \/ (\E m \in Mail : MailDue(m))

DeliveryNext ==
    \/ \E s \in Sink : RegisterSink(s) \/ SetSinkState(s, "active") \/ SetSinkState(s, "paused")
    \/ \E n \in Notice : Notify(n)
    \/ \E m \in Mail, sound \in BOOLEAN : QueueMail(m, "pending", sound)
    \/ \E m \in Mail : QueueMail(m, "suppressed", TRUE) \/ SupersedeMail(m) \/ MailAges(m)
    \/ TimePasses
    \/ \E w \in Sender : Cycle(w) \/ Cut(w)

DeliverySpec == DeliveryInit /\ [][DeliveryNext]_deliveryVars

\* The loop goes round whatever a cycle throws, every send has its timeout, and
\* time passes.
DeliveryFairness ==
    /\ \A w \in Sender : WF_deliveryVars(Cycle(w))
    /\ WF_deliveryVars(TimePasses)

---------------------------------------------------------------------------
(* Properties *)

\* A delivery is marked delivered only if the receiver saw it, is called again
\* only for an attempt that was recorded or cut off, and no more than the cap
\* allows; only one worker that can record anything works on a row.
HooksStand ==
    /\ \A d \in Addressed :
         /\ deliveries[d].state = "delivered" => hooked[d] > 0
         /\ deliveries[d].tries <= MaxTries
         /\ hooked[d] <= MaxTries + cuts
         /\ deliveries[d].state \in {"delivered", "failed"} => ~Locked(d)
    /\ \A v, w \in Sender : v # w /\ senders[v].holds /\ senders[w].holds => senders[v].row # senders[w].row

\* "Resend's idempotency key stops the retry from sending it twice"; the test
\* sink holds exactly what was settled as sent; and by SMTP a second copy takes
\* an answer lost or a cut.  Mail marked sent was sent, and nothing but a
\* pending row holds a code.
MailStands ==
    \A m \in Mail :
      /\ mail[m].secret = (mail[m].state = "pending")
      /\ mail[m].state = "sent" => inboxed[m] > 0
      /\ transport = "resend" => inboxed[m] <= 1
      /\ transport = "log" => (inboxed[m] > 0 => mail[m].state \in {"sent", "deleted"}) /\ inboxed[m] <= 1
      /\ inboxed[m] <= MaxTries + cuts
      /\ mail[m].state \in {"none", "suppressed"} => inboxed[m] = 0

DeliveriesStand == HooksStand /\ MailStands

\* Every delivery of a receiver that stays active is delivered or given up, and
\* every mail settles, whatever fails and is cut off.
DeliveriesSettle ==
    /\ \A d \in Addressed :
         deliveries[d].state = "pending" ~> deliveries[d].state # "pending" \/ sinks[d[2]] = "paused"
    /\ \A m \in Mail : mail[m].state = "pending" ~> mail[m].state # "pending"
=============================================================================
