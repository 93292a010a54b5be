-------------------------- MODULE ProjectLifecycle --------------------------
(***************************************************************************)
(* A project's lifecycle (apps/api/src/routes/lifecycle.ts, the domain's   *)
(* lifecycle guards, migration 0050) with what its moves depend on: the    *)
(* confirmed facts, the gate decision of ReadinessGate, publication of the *)
(* registry entry, which registers a draft, and the blackouts of           *)
(* disclosure-restrictions.ts.                                             *)
(*                                                                         *)
(* A move holds the project's row from its first read, and the blackout    *)
(* lock from its check, until it commits.  Facts and decisions are read    *)
(* without a lock and may change before the update; the trigger of         *)
(* migration 0050 reads them again inside it.                              *)
(*                                                                         *)
(* Abstracted: the update and its commit are one step; the content of the  *)
(* registry entry; parties, registration requests and stakeholder events;  *)
(* what makes a piece of evidence usable for a fact.                       *)
(***************************************************************************)
EXTENDS ReadinessGate

CONSTANTS
    Precondition, \* the offering preconditions (seven in the code)
    Target,       \* states people ask for
    Command,      \* moves and publications that may run at the same time
    Restriction,  \* blackouts that may be recorded
    Covers,       \* the actions each of them names
    Binds,        \* whom each names: people, or everyone
    MaxVersion    \* bound: versions of the project's row

OfferingFamily == {"offering_open", "offering_closed", "active", "branch_vote", "continuing", "divested"}
Suspendable == OfferingFamily \cup {"registered", "closure"}
State == Suspendable \cup {"draft", "suspended", "retired"}

ASSUME LifecycleAssumption ==
    /\ Target \subseteq State
    /\ MaxVersion \in Nat \ {0}
    /\ \A r \in Restriction :
          /\ Covers[r] \subseteq OfferingFamily \cup {"closure", "retired", "publish"}
          /\ Binds[r] \subseteq Person \cup {"everyone"}

VARIABLES
    project,      \* its row: state, prior state, suspender and version
    transitions,  \* core.project_lifecycle_transitions
    facts,        \* core.project_facts, the preconditions
    commands,     \* moves and publications in flight
    restrictions  \* core.disclosure_restrictions

lifecycleVars == <<project, transitions, facts, commands, restrictions>>

NoCommand == [step |-> "idle", kind |-> "move", by |-> "nobody", to |-> "draft", expected |-> 0, at |-> 0]

LifecycleInit ==
    /\ project = [state |-> "draft", prior |-> "draft", suspendedBy |-> "nobody", version |-> 1]
    /\ transitions = <<>>
    /\ facts = [k \in Precondition |-> "pending"]
    /\ commands = [c \in Command |-> NoCommand]
    /\ restrictions = [r \in Restriction |-> "none"]

\* atLifecycleMachine
Moves ==
    {<<"draft", "registered">>, <<"registered", "offering_open">>, <<"offering_open", "offering_closed">>,
     <<"offering_closed", "active">>, <<"active", "branch_vote">>, <<"active", "closure">>,
     <<"branch_vote", "continuing">>, <<"branch_vote", "divested">>, <<"continuing", "active">>,
     <<"continuing", "branch_vote">>, <<"divested", "closure">>, <<"closure", "retired">>}
    \cup (Suspendable \X {"suspended"}) \cup ({"suspended"} \X Suspendable)

\* Rows of the guard table whose condition nothing records: always refused.
Unrecorded ==
    {m \in Moves : m[2] # "suspended" /\ m[1] \notin {"draft", "registered", "suspended"}}

\* A request reads the version it names, then its transaction begins.
Asks(c, p, kind, to) ==
    /\ commands[c] = NoCommand
    /\ kind = "publish" => to = "registered"
    /\ Tick
    /\ commands' = [commands EXCEPT ![c] = [step |-> "asked", kind |-> kind, by |-> p, to |-> to,
                                            expected |-> project.version, at |-> clock + 1]]
    /\ UNCHANGED <<project, transitions, facts, restrictions>>

RowFree == \A c \in Command : commands[c].step \notin {"locked", "judged"}

\* If-Match, for a move; a publication names no version of the project.
VersionMatches_Any(x) == TRUE
VersionMatches(x) == x.kind = "publish" \/ x.expected = project.version

Refused(c) == commands' = [commands EXCEPT ![c] = NoCommand]

\* FOR UPDATE, the version, and the machine.
Locks(c) ==
    LET x == commands[c]
    IN  /\ x.step = "asked" /\ RowFree
        /\ IF VersionMatches(x) /\ (x.kind = "publish" \/ <<project.state, x.to>> \in Moves)
           THEN commands' = [commands EXCEPT ![c].step = "locked"]
           ELSE Refused(c)
        /\ UNCHANGED <<clock, project, transitions, facts, restrictions>>

\* checkRestrictedAction over the active blackouts.
ActionOf(x) == IF x.kind = "publish" THEN "publish" ELSE x.to
Restricted(x) ==
    \E r \in Restriction :
        restrictions[r] = "active" /\ ActionOf(x) \in Covers[r] /\ Binds[r] \cap {"everyone", x.by} # {}

AllConfirmed == \A k \in Precondition : facts[k] = "confirmed"
OfferingMayOpen == AllConfirmed /\ LatestDecision = "go"

\* Back from suspension: to where the project was or to closure, by someone
\* else, and to where it was only on something recorded since.
LastSuspension ==
    LET S == {transitions[i].at : i \in {j \in DOMAIN transitions : transitions[j].to = "suspended"}}
    IN  CHOOSE t \in S : \A u \in S : u <= t
ReviewedSince(t) ==
    \/ reviewedAt > t
    \/ \E i \in DOMAIN assessments : assessments[i].at > t
    \/ \E i \in DOMAIN gateDecisions : gateDecisions[i].at > t
MayResume(x) ==
    /\ x.by # project.suspendedBy
    /\ x.to = "closure" \/ (x.to = project.prior /\ ReviewedSince(LastSuspension))

\* checkLifecycleGuard
MayMove(x) ==
    \/ x.to = "suspended"
    \/ /\ <<project.state, x.to>> # <<"draft", "registered">>
       /\ <<project.state, x.to>> \notin Unrecorded
       /\ project.state = "suspended" => MayResume(x)
       /\ x.to \in OfferingFamily => OfferingMayOpen

\* The blackout lock and check, then the guard on the facts as they are now.
Judges(c) ==
    LET x == commands[c]
    IN  /\ x.step = "locked"
        /\ IF ~Restricted(x) /\ (x.kind = "publish" \/ MayMove(x))
           THEN commands' = [commands EXCEPT ![c].step = "judged"]
           ELSE Refused(c)
        /\ UNCHANGED <<clock, project, transitions, facts, restrictions>>

\* guard_offering_lifecycle, inside the update.
TriggerAllows_Always(to) == TRUE
TriggerAllows(to) == to \in OfferingFamily => OfferingMayOpen

\* A publication moves the project only from draft.
PublicationMoves == project.state = "draft"

\* The update with its trigger, and the history row.
Commits(c) ==
    LET x == commands[c]
        moves == IF x.kind = "publish" THEN PublicationMoves ELSE TriggerAllows(x.to)
    IN  /\ x.step = "judged"
        /\ Refused(c)
        /\ IF moves
           THEN /\ project.version < MaxVersion
                /\ project' = [state |-> x.to,
                               prior |-> IF x.to = "suspended" THEN project.state ELSE "draft",
                               suspendedBy |-> IF x.to = "suspended" THEN x.by ELSE "nobody",
                               version |-> project.version + 1]
                /\ transitions' = Append(transitions, [from |-> project.state, to |-> x.to, by |-> x.by, at |-> x.at])
           ELSE UNCHANGED <<project, transitions>>
        /\ UNCHANGED <<clock, facts, restrictions>>

\* PATCH /projects/:id
ProjectEdited ==
    /\ RowFree /\ project.version < MaxVersion
    /\ project' = [project EXCEPT !.version = @ + 1]
    /\ UNCHANGED <<clock, transitions, facts, commands, restrictions>>

\* POST .../facts/:factKey/confirmations
RecordsFact(k, status) ==
    /\ facts[k] # status
    /\ facts' = [facts EXCEPT ![k] = status]
    /\ UNCHANGED <<clock, project, transitions, commands, restrictions>>

\* POST .../disclosure-restrictions
RestrictionDrafted(r) ==
    /\ restrictions[r] = "none"
    /\ restrictions' = [restrictions EXCEPT ![r] = "draft"]
    /\ UNCHANGED <<clock, project, transitions, facts, commands>>

\* disclosureRestrictionMachine, every move under the blackout lock.
RestrictionMoves ==
    {<<"draft", "active">>, <<"draft", "superseded">>,
     <<"active", "released">>, <<"active", "superseded">>}
BlackoutFree_Always == TRUE
BlackoutFree == \A c \in Command : commands[c].step # "judged"
RestrictionChanges(r, to) ==
    /\ <<restrictions[r], to>> \in RestrictionMoves
    /\ BlackoutFree
    /\ restrictions' = [restrictions EXCEPT ![r] = to]
    /\ UNCHANGED <<clock, project, transitions, facts, commands>>

LifecycleStep ==
    \/ \E c \in Command, p \in Person, kind \in {"move", "publish"}, to \in Target : Asks(c, p, kind, to)
    \/ \E c \in Command : Locks(c) \/ Judges(c) \/ Commits(c)
    \/ ProjectEdited
    \/ \E k \in Precondition, status \in {"pending", "confirmed"} : RecordsFact(k, status)
    \/ \E r \in Restriction : RestrictionDrafted(r)
    \/ \E r \in Restriction, to \in {"active", "released", "superseded"} : RestrictionChanges(r, to)

ProjectsInit == ReviewInit /\ GateInit /\ LifecycleInit
ProjectsNext ==
    \/ GateNext /\ UNCHANGED lifecycleVars
    \/ LifecycleStep /\ UNCHANGED <<proposals, registry, decisions>> /\ UNCHANGED gateVars
projectVars == <<reviewVars, gateVars, lifecycleVars>>

-----------------------------------------------------------------------------
LifecycleTypeOK ==
    /\ GateTypeOK
    /\ project \in [state: State, prior: State, suspendedBy: Person \cup {"nobody"}, version: 1..MaxVersion]
    /\ facts \in [Precondition -> {"pending", "confirmed"}]
    /\ restrictions \in [Restriction -> {"none", "draft", "active", "released", "superseded"}]

\* An offering state is entered, back from suspension too, only while every
\* precondition is confirmed and the latest decision signed is a go, even if
\* one of them changes after the route has read it.
OpensOnBasis ==
    [][project'.state \in OfferingFamily /\ project'.state # project.state =>
          AllConfirmed' /\ LatestDecision' = "go"]_projectVars

\* The history is one path that starts in draft and ends in the project's
\* state, and reading it by its stamps, as the route does, gives that path;
\* it leaves suspension for the state before or for closure, and not by the
\* hand that suspended.
HistoryStands ==
    /\ LifecycleTypeOK
    /\ project.state = IF transitions = <<>> THEN "draft" ELSE transitions[Len(transitions)].to
    /\ \A i \in DOMAIN transitions :
          /\ transitions[i].from = IF i = 1 THEN "draft" ELSE transitions[i - 1].to
          /\ i > 1 => transitions[i].at > transitions[i - 1].at
          /\ transitions[i].from = "suspended" =>
                /\ transitions[i].to \in {transitions[i - 1].from, "closure"}
                /\ transitions[i].by # transitions[i - 1].by

\* While a blackout is active, nobody it binds makes a move it covers, and none
\* was under way when it was activated.
NothingMovesInBlackout ==
    [][\A r \in Restriction :
          restrictions[r] = "active" /\ Len(transitions') > Len(transitions) =>
              LET t == transitions'[Len(transitions')]
              IN  \/ Binds[r] \cap {"everyone", t.by} = {}
                  \/ (IF t.from = "draft" THEN "publish" ELSE t.to) \notin Covers[r]]_projectVars
=============================================================================
