---------------------------- MODULE LedgerSweep ----------------------------
(***************************************************************************)
(* Who records the evidence ledger of a project, and when: the sweep of    *)
(* every jobs worker and the API's "recompute".  What the ledger of a      *)
(* project would say now is one value here; EvidenceLedger computes it.    *)
(*                                                                         *)
(* An assessment is a transaction that reads the project, compares with    *)
(* the latest snapshot and may add one.  Snapshots are ordered by the      *)
(* start of their transaction, so one that began earlier and ends later    *)
(* does not become the latest.                                             *)
(***************************************************************************)
EXTENDS Naturals, FiniteSets

CONSTANTS
    Sweeper,     \* jobs-worker processes
    Caller,      \* API requests to recompute
    ProjectId,   \* ids, in their order
    BatchSize,   \* projects of one sweep
    MaxFacts,    \* bound: changes of what a ledger says, and projects opened
    MaxRestarts  \* bound: workers that die

ASSUME LedgerSweepAssumption ==
    /\ ProjectId \subseteq Nat
    /\ BatchSize \in 1 .. 100
    /\ MaxFacts \in Nat /\ MaxRestarts \in Nat
    /\ Sweeper \cap Caller = {}

VARIABLES
    outcome,    \* what computeEvidenceLedger would return for each project
    broken,     \* the projects whose assessment throws
    latest,     \* the outcome of the latest snapshot
    assessing,  \* the transaction of each sweeper and caller
    sweeps,     \* cursor, interval and page of each worker's sweep
    facts,
    restarts

ledgerSweepVars == <<outcome, broken, latest, assessing, sweeps, facts, restarts>>

Absent == "absent"  \* no such project yet, no snapshot yet
NoProject == 0      \* the cursor before the first project
Assessor == Sweeper \cup Caller
Resting == [project |-> NoProject, step |-> "none", fresh |-> Absent, behind |-> {}, overtaken |-> FALSE]
Rested == [due |-> TRUE, running |-> FALSE, cursor |-> NoProject, page |-> {}]

LedgerSweepInit ==
    /\ outcome = [p \in ProjectId |-> Absent]
    /\ broken \in SUBSET ProjectId
    /\ latest = [p \in ProjectId |-> Absent]
    /\ assessing = [a \in Assessor |-> Resting]
    /\ sweeps = [w \in Sweeper |-> Rested]
    /\ facts = 0
    /\ restarts = 0

---------------------------------------------------------------------------
(* The world: projects open, their evidence changes *)

Change(p, o) ==
    /\ facts < MaxFacts
    /\ o # outcome[p]
    /\ facts' = facts + 1
    /\ outcome' = [outcome EXCEPT ![p] = o]
    /\ UNCHANGED <<broken, latest, assessing, sweeps, restarts>>

---------------------------------------------------------------------------
(* One assessment *)

\* withTenant: the transaction begins, after those still open on the project.
Began(p) ==
    [project |-> p, step |-> "reading", fresh |-> Absent, overtaken |-> FALSE,
     behind |-> {b \in Assessor : assessing[b].project = p}]

Ends(a) ==
    [b \in Assessor |->
        IF b = a THEN Resting ELSE [assessing[b] EXCEPT !.behind = @ \ {a}]]

\* computeEvidenceLedger.
Compute(a) ==
    /\ assessing[a].step = "reading"
    /\ assessing[a].project \notin broken
    /\ assessing' = [assessing EXCEPT ![a].fresh = outcome[assessing[a].project], ![a].step = "writing"]
    /\ UNCHANGED <<outcome, broken, latest, sweeps, facts, restarts>>

\* persistEvidenceLedger: those that began before this one can no longer write
\* the latest snapshot.
Persisted(a) ==
    /\ assessing' = [b \in Assessor |->
            [Ends(a)[b] EXCEPT !.overtaken = @ \/ b \in assessing[a].behind]]
    /\ latest' = IF assessing[a].overtaken THEN latest
                 ELSE [latest EXCEPT ![assessing[a].project] = assessing[a].fresh]

\* POST evidence-ledger: the request records whatever it computed.
Recompute(c, p) ==
    /\ c \in Caller /\ assessing[c] = Resting
    /\ facts < MaxFacts /\ facts' = facts + 1
    /\ outcome[p] # Absent
    /\ assessing' = [assessing EXCEPT ![c] = Began(p)]
    /\ UNCHANGED <<outcome, broken, latest, sweeps, restarts>>

Record(c) ==
    /\ c \in Caller /\ assessing[c].step = "writing"
    /\ Persisted(c)
    /\ UNCHANGED <<outcome, broken, sweeps, facts, restarts>>

\* An assessment that throws is rolled back.
Refuse(c) ==
    /\ c \in Caller /\ assessing[c].step = "reading" /\ assessing[c].project \in broken
    /\ assessing' = Ends(c)
    /\ UNCHANGED <<outcome, broken, latest, sweeps, facts, restarts>>

---------------------------------------------------------------------------
(* The sweep *)

\* The interval, counted from the last attempt.
IntervalPasses(w) ==
    /\ ~sweeps[w].due
    /\ sweeps' = [sweeps EXCEPT ![w].due = TRUE]
    /\ UNCHANGED <<outcome, broken, latest, assessing, facts, restarts>>

\* The next projects by id; every open project has claims or snapshots.
Page(after) ==
    {p \in ProjectId : /\ p > after /\ outcome[p] # Absent
                       /\ Cardinality({q \in ProjectId : q > after /\ q < p /\ outcome[q] # Absent}) < BatchSize}

\* Past the last project the sweep starts over, in the same run.
NextPage_Stuck(cursor) == [cursor |-> cursor, page |-> Page(cursor)]

NextPage(cursor) ==
    IF Page(cursor) = {} THEN [cursor |-> NoProject, page |-> Page(NoProject)]
    ELSE [cursor |-> cursor, page |-> Page(cursor)]

\* ledgerRunner.kick: nothing while a sweep is in flight, or before its time.
Kick(w) ==
    /\ ~sweeps[w].running /\ sweeps[w].due
    /\ LET next == NextPage(sweeps[w].cursor)
       IN  sweeps' = [sweeps EXCEPT ![w] =
               [due |-> FALSE, running |-> next.page # {}, cursor |-> next.cursor, page |-> next.page]]
    /\ UNCHANGED <<outcome, broken, latest, assessing, facts, restarts>>

First(page) == CHOOSE p \in page : \A q \in page : p <= q

Take(w) ==
    /\ sweeps[w].running /\ assessing[w] = Resting
    /\ assessing' = [assessing EXCEPT ![w] = Began(First(sweeps[w].page))]
    /\ UNCHANGED <<outcome, broken, latest, sweeps, facts, restarts>>

\* "Failed projects get another attempt after wrap; one failure cannot starve
\* later ids": the cursor moves on whatever became of the project.
MovedOn_OnSuccess(w, p, ok) ==
    LET rest == IF ok THEN sweeps[w].page \ {p} ELSE {} IN
    [sweeps EXCEPT ![w].cursor = IF ok THEN p ELSE @, ![w].page = rest, ![w].running = rest # {}]

MovedOn(w, p, ok) ==
    LET rest == sweeps[w].page \ {p} IN
    [sweeps EXCEPT ![w].cursor = p, ![w].page = rest, ![w].running = rest # {}]

\* A snapshot is added only when it says something new.
Assess(w) ==
    LET p == assessing[w].project IN
    /\ \/ /\ assessing[w].step = "writing"
          /\ IF latest[p] = assessing[w].fresh THEN assessing' = Ends(w) /\ UNCHANGED latest
             ELSE Persisted(w)
          /\ sweeps' = MovedOn(w, p, TRUE)
       \/ /\ assessing[w].step = "reading" /\ p \in broken
          /\ assessing' = Ends(w) /\ UNCHANGED latest
          /\ sweeps' = MovedOn(w, p, FALSE)
    /\ UNCHANGED <<outcome, broken, facts, restarts>>

\* The worker dies; the transaction goes with it, and so does the cursor.
Restart(w) ==
    /\ restarts < MaxRestarts
    /\ restarts' = restarts + 1
    /\ assessing' = Ends(w)
    /\ sweeps' = [sweeps EXCEPT ![w] = Rested]
    /\ UNCHANGED <<outcome, broken, latest, facts>>

CallerStep(c) == Compute(c) \/ Record(c) \/ Refuse(c)
SweepStep(w) == IntervalPasses(w) \/ Kick(w) \/ Take(w) \/ Compute(w) \/ Assess(w)

LedgerSweepNext ==
    \/ \E p \in ProjectId, o \in {"a", "b"} : Change(p, o)
    \/ \E c \in Caller : (\E p \in ProjectId : Recompute(c, p)) \/ CallerStep(c)
    \/ \E w \in Sweeper : SweepStep(w) \/ Restart(w)

\* The loop kicks its runner every cycle and time passes; a request ends.
LedgerSweepFairness ==
    /\ \A w \in Sweeper : WF_ledgerSweepVars(SweepStep(w))
    /\ \A c \in Caller : WF_ledgerSweepVars(CallerStep(c))

---------------------------------------------------------------------------
(* Property *)

\* Once a project's evidence stays as it is, its latest snapshot comes to say
\* so and goes on saying it: whatever other project fails in every sweep,
\* whoever else records late or dies in between.
LedgersCatchUp ==
    <>[](\A p \in ProjectId : p \in broken \/ latest[p] = outcome[p])
=============================================================================
