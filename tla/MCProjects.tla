----------------------------- MODULE MCProjects -----------------------------
(***************************************************************************)
(* Scenes over the review registries, the offering gate and the lifecycle: *)
(* reviewing (registries empty), deciding (a policy set and a profile in   *)
(* force), registering (a draft with its preconditions open) and moving (a *)
(* project in its registry entry, with a go on file and a hold that may be *)
(* recorded).  A scene starts where the program gets by the steps of the   *)
(* one before.                                                             *)
(***************************************************************************)
EXTENDS ProjectLifecycle, TLC

CONSTANTS ann, bob, issuer, audit, r1, s1, s2, c1, c2, d1, d2

VARIABLE scene

MCPerson == {ann, bob}
MCDecider == {d1, d2}
MCSession == {s1, s2}
MCCommand == {c1, c2}
MCRestriction == {r1}

Row(kind, version, holder, state, basis, from, until) ==
    [kind |-> kind, key |-> "k", version |-> version, holder |-> holder, state |-> state,
     basis |-> basis, from |-> from, until |-> until]
Policy1 == Row("policy_set", 1, "nobody", "approved", FALSE, 1, 0)
Policy2 == Row("policy_set", 2, "nobody", "approved", FALSE, 1, 0)
Licence == Row("credential", 0, bob, "approved", FALSE, 1, 3)
Profile == Row("jurisdiction_profile", 0, "nobody", "approved", TRUE, 1, 0)
ProfileDown == Row("jurisdiction_profile", 0, "nobody", "suspended", TRUE, 2, 0)
ProfileOld == Row("jurisdiction_profile", 0, "nobody", "stale", TRUE, 0, 0)
MCContent == {Policy1, Policy2, Licence, Profile, ProfileDown, ProfileOld}
MCSeeded == {Policy1, Licence}

MCRequirement == {"permit"}
MCRequires == <<{"permit"}, {}>>
Found(applies, claim, attested, conflict, watched) ==
    [permit |-> [applies |-> applies, claim |-> claim, attested |-> attested,
                 conflict |-> conflict, watched |-> watched]]
Good == Found("yes", "sound", TRUE, FALSE, "no")
Says(decision, conditioned) == [decision |-> decision, conditioned |-> conditioned, on |-> 1]
MCPayload == {Says("go", FALSE), Says("go", TRUE), Says("hold", FALSE)}
Lapsed == Found("yes", "weak", TRUE, FALSE, "no")
MCEvidence == {Good, Lapsed, Found("yes", "sound", TRUE, FALSE, "yes"),
               Found("yes", "undated", TRUE, TRUE, "no"), Found("no", "missing", FALSE, FALSE, "no")}

MCTarget == {"registered", "offering_open", "suspended", "closure"}
MCPrecondition == {issuer, audit}
MCCovers == r1 :> {"offering_open", "publish"}
MCBinds == r1 :> {"everyone"}

Adopted(c, effective) == [content |-> c, proposal |-> 0, effective |-> effective]
Scene ==
    \/ /\ scene = "reviewing"
       /\ ReviewInit /\ GateInit /\ LifecycleInit /\ evidence = Good
    \/ /\ scene = "deciding"
       /\ GateInit /\ LifecycleInit
       /\ clock = 3 /\ proposals = <<>> /\ decisions = [d \in Decider |-> Idle]
       /\ registry = <<Adopted(Policy1, TRUE), Adopted(Profile, TRUE)>>
    \/ /\ scene \in {"registering", "moving"}
       /\ clock = IF scene = "moving" THEN 3 ELSE 5
       /\ proposals = <<>> /\ decisions = [d \in Decider |-> Idle]
       /\ registry = <<Adopted(Policy1, TRUE), Adopted(Profile, TRUE)>>
       /\ evidence = Good /\ reviewedAt = 0 /\ signers = Person
       /\ assessments = <<[policy |-> 1, at |-> 2, results |-> [permit |-> "ok"]]>>
       /\ requests = <<[by |-> ann, payload |-> Says("go", FALSE), at |-> 2, used |-> TRUE],
                       [by |-> bob, payload |-> Says("hold", FALSE), at |-> 2, used |-> FALSE]>>
       /\ gateDecisions = <<[payload |-> requests[1].payload, by |-> ann, at |-> 3, request |-> 1]>>
       /\ sessions = [s \in Session |-> NoSession]
       /\ commands = [c \in Command |-> NoCommand]
       /\ restrictions = [r \in Restriction |-> "none"]
       /\ IF scene = "moving"
          THEN /\ project = [state |-> "registered", prior |-> "draft", suspendedBy |-> "nobody", version |-> 2]
               /\ transitions = <<[from |-> "draft", to |-> "registered", by |-> ann, at |-> 2]>>
               /\ facts = [k \in Precondition |-> "confirmed"]
          ELSE /\ project = [state |-> "draft", prior |-> "draft", suspendedBy |-> "nobody", version |-> 1]
               /\ transitions = <<>>
               /\ facts = [k \in Precondition |-> "pending"]

Symmetry == Permutations(MCDecider) \cup Permutations(MCSession) \cup Permutations(MCCommand)
            \cup Permutations(MCPrecondition)

MCInit == Scene
MCNext ==
    /\ UNCHANGED scene
    /\ \/ scene = "reviewing" /\ ReviewNext /\ UNCHANGED <<gateVars, lifecycleVars>>
       \/ /\ scene = "deciding" /\ GateStep /\ UNCHANGED <<proposals, registry, decisions, lifecycleVars>>
          /\ bob \in signers' /\ UNCHANGED evidence
       \/ /\ scene \in {"registering", "moving"}
          /\ \/ /\ LifecycleStep /\ UNCHANGED gateVars
                /\ scene = "moving" => /\ project'.version = Len(transitions') + 1
                                       /\ \A c \in Command : commands'[c].kind = "move"
             \/ (\E pl \in Payload : pl.decision = "hold" /\ DecisionBegins(s1, bob, 2, pl)) /\ UNCHANGED lifecycleVars
             \/ DecisionCommits(s1) /\ UNCHANGED lifecycleVars
             \/ (\E e \in Evidence : e = Lapsed /\ EvidenceChanges(e)) /\ UNCHANGED lifecycleVars
          /\ UNCHANGED <<proposals, registry, decisions>>
MCSpec == MCInit /\ [][MCNext]_<<projectVars, scene>>
=============================================================================
