------------------------- MODULE MCOutboxPublisher -------------------------
(***************************************************************************)
(* Instances of the jobs worker's work, whose parts share no state; a part *)
(* of a run moves one of them.  "export": events do not interact, so one   *)
(* of them is followed through everything two workers can do to it.        *)
(* "delivery": a delivery to one receiver beside a mail, two workers; over *)
(* SMTP the mail alone, and the transport "log" sends nothing.             *)
(* "ledger": two sweeps over two projects, beside one request.             *)
(***************************************************************************)
EXTENDS OutboxPublisher, Delivery, LedgerSweep

VARIABLE part

mcVars == <<vars, deliveryVars, ledgerSweepVars, part>>

MCInit ==
    /\ Init /\ DeliveryInit /\ LedgerSweepInit /\ part \in {"export", "delivery", "ledger"}
    /\ part = "delivery" <=> transport # "log"
    /\ part # "ledger" => broken = {}
MCNext ==
    /\ \/ part = "export" /\ Next /\ UNCHANGED <<deliveryVars, ledgerSweepVars>>
       \/ part = "delivery" /\ DeliveryNext /\ (transport = "smtp" => UNCHANGED sinks) /\ UNCHANGED <<vars, ledgerSweepVars>>
       \/ part = "ledger" /\ LedgerSweepNext /\ UNCHANGED <<vars, deliveryVars>>
    /\ UNCHANGED part

\* The fairness of the three specifications, each in the part it belongs to.
MCFairness ==
    /\ \A w \in Worker : WF_mcVars(part = "export" /\ Work(w) /\ UNCHANGED <<deliveryVars, ledgerSweepVars, part>>)
    /\ \A w \in Sender : WF_mcVars(part = "delivery" /\ Cycle(w) /\ UNCHANGED <<vars, ledgerSweepVars, part>>)
    /\ WF_mcVars(part = "delivery" /\ TimePasses /\ UNCHANGED <<vars, ledgerSweepVars, part>>)
    /\ \A w \in Sweeper : WF_mcVars(part = "ledger" /\ SweepStep(w) /\ UNCHANGED <<vars, deliveryVars, part>>)
    /\ \A c \in Caller : WF_mcVars(part = "ledger" /\ CallerStep(c) /\ UNCHANGED <<vars, deliveryVars, part>>)

MCSpec == MCInit /\ [][MCNext]_mcVars /\ MCFairness

\* What the jobs worker must bring to an end, each in its part: an event is
\* published or dead, a delivery or a mail settles, and the recorded ledger
\* comes to agree with the project's evidence.
JobsComeToAnEnd ==
    /\ part = "export" => EventsSettle
    /\ part = "delivery" => DeliveriesSettle
    /\ part = "ledger" => LedgersCatchUp
=============================================================================
