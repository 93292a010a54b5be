--------------------------- MODULE Authorization ---------------------------
(***************************************************************************)
(* Who may do what: the roles a subject holds, what of them a session or a *)
(* service token makes effective, the gate every request passes, and the   *)
(* decision on one resource beside the scope that filters lists            *)
(* (server.ts, plugins/session.ts, plugins/authorize.ts and the role table *)
(* of the API contract).                                                   *)
(*                                                                         *)
(* One subject of one tenant; its session is resolved on every request and *)
(* used to its end, whatever is granted or revoked meanwhile.              *)
(***************************************************************************)
EXTENDS Naturals, FiniteSets

CONSTANTS
  Bindable,     \* bindings an administrator may grant: [role, org, project, scoped, countries]
  Project,
  OwnerOf,      \* project |-> organization that owns it
  HostOf,       \* project |-> host country
  MaxBindings   \* bound: bindings held at once

VARIABLES
  kind,       \* what the subject is: "person" or "service"
  held,       \* bindings not revoked (core.role_bindings)
  scopes,     \* scopes of the service's token
  assurance,  \* identity assurance, set by an administrator
  factors,    \* [second, limited]: what the session proved after its first factor
  elevation,  \* [open, expired, overdue, reported]: the subject's break-glass elevation
  request     \* the session of the request in flight, or why there is none

\* A tenant's resource belongs to no project, and a role that may be granted is in the
\* table of levels, where the emergency role is not.
ASSUME BindableAssumption ==
  "none" \notin Project /\ \A b \in Bindable : b.role # "break_glass"

authorizationVars == <<kind, held, scopes, assurance, factors, elevation, request>>

----------------------------------------------------------------------------
(* Levels and roles *)

AssuranceRank == [wallet_only |-> 0, identity_bound |-> 1, high_assurance |-> 2]
satisfiesAssurance(actual, required) == AssuranceRank[actual] >= AssuranceRank[required]

\* A role without an entry needs the most.
minimumAssurance(role) ==
  IF role \in {"public_reader", "protocol_voter", "project_voter"} THEN "wallet_only"
  ELSE IF role \in {"protocol_proposer", "project_proposer", "data_steward", "project_admin",
                    "project_sponsor_operator", "spv_representative", "execution_recorder", "auditor"}
    THEN "identity_bound"
  ELSE "high_assurance"

deriveAuthenticationLevel(second) ==
  CASE second = "passkey" -> 3 [] second \in {"totp", "recovery_code"} -> 2 [] second = "none" -> 1

SERVICE_ONLY_ROLES == {"scan_service", "cre_reporter"}
requiredAuthenticationLevel(role) ==
  IF role = "public_reader" THEN 1 ELSE IF minimumAssurance(role) = "high_assurance" THEN 3 ELSE 2

Reviewers == {"reviewer_cp_qp", "reviewer_lab", "reviewer_legal", "reviewer_assurance"}
Administrators == {"mpc_operator", "security_operator"}
TENANT_WIDE_ROLES ==
  Reviewers \cup Administrators \cup SERVICE_ONLY_ROLES \cup
  {"public_reader", "auditor", "treasury_signer", "gate_approver", "protocol_proposer", "protocol_voter",
   "project_voter", "external_regulated_service_provider", "disclosure_approver"}
WORKSPACE_READERS ==
  Reviewers \cup Administrators \cup
  {"auditor", "project_admin", "project_sponsor_operator", "spv_representative", "data_steward", "gate_approver",
   "issuer_officer", "execution_recorder", "external_regulated_service_provider", "disclosure_approver"}
GOVERNANCE_READERS ==
  WORKSPACE_READERS \cup {"protocol_voter", "project_voter", "protocol_proposer", "project_proposer"}
REGISTRY_APPROVER_ROLES == {"reviewer_assurance"}
BREAK_GLASS_ROLE == "break_glass"

----------------------------------------------------------------------------
(* The role table: which roles may take which actions *)

To(actions, roles) == <<actions, roles>>

ReadPolicies ==
  {To({"project.read", "verification.read", "readiness.read", "registry.read", "authority.read", "project.export"},
      WORKSPACE_READERS),
   To({"evidence.read"}, WORKSPACE_READERS \cup {"scan_service"}),
   To({"governance.read"}, GOVERNANCE_READERS)}

ProjectPolicies ==
  {To({"project.create"}, {"mpc_operator", "project_admin", "project_sponsor_operator"}),
   To({"project.update"}, {"mpc_operator", "project_admin"}),
   To({"project.party.submit"},
      {"project_admin", "project_sponsor_operator", "spv_representative", "issuer_officer", "data_steward"}),
   To({"project.fact.record"}, {"data_steward"}),
   To({"project.registration.request"}, {"project_admin", "project_sponsor_operator"}),
   To({"project.stakeholder.record"}, {"data_steward", "project_sponsor_operator"}),
   To({"source.upload"}, {"data_steward", "project_admin", "project_sponsor_operator", "spv_representative"})}

SourcePolicies ==
  {To({"upload.scan_result"}, {"scan_service"}),
   To({"authority.register", "document.rule.manage"}, {"mpc_operator"}),
   To({"authority.review"}, {"reviewer_legal", "reviewer_assurance", "auditor"}),
   To({"connection.configure"}, Administrators),
   To({"source.collect"}, {"data_steward", "mpc_operator"}),
   To({"cre.report"}, {"data_steward", "mpc_operator", "cre_reporter"}),
   To({"claim.curate"}, {"data_steward"})}

VerificationPolicies ==
  {To({"attestation.dispute"}, Reviewers \cup {"data_steward", "auditor", "mpc_operator", "project_admin"}),
   To({"attestation.sign", "attestation.revoke"}, Reviewers),
   To({"credential.status.change"}, REGISTRY_APPROVER_ROLES \cup {"security_operator"}),
   To({"readiness.recompute"}, {"mpc_operator", "data_steward", "gate_approver"}),
   To({"gate.decide"}, {"gate_approver"})}

PublicationPolicies ==
  {To({"registry.draft", "registry.revoke", "anchor.submit"}, {"mpc_operator"}),
   To({"registry.publish"}, {"disclosure_approver"}),
   To({"disclosure.restrict"}, {"issuer_officer", "mpc_operator"}),
   To({"governance.execution.record"}, {"execution_recorder"}),
   To({"audit.read"}, Administrators \cup {"auditor"}),
   To({"audit.export"}, {"auditor", "security_operator"})}

\* Each space has its roles; the action a route declares holds for either.
GovernancePolicies ==
  {To({"governance.propose", "governance.protocol.propose"}, {"protocol_proposer"}),
   To({"governance.propose", "governance.project.propose"}, {"project_proposer"}),
   To({"governance.vote", "governance.protocol.vote"}, {"protocol_voter"}),
   To({"governance.vote", "governance.project.vote"}, {"project_voter"}),
   To({"governance.administer", "governance.protocol.administer"}, {"protocol_proposer", "mpc_operator"}),
   To({"governance.administer", "governance.project.administer"}, {"project_proposer", "mpc_operator"})}

AdminPolicies ==
  {To({"admin.subject.manage", "admin.wallet.manage", "admin.role.propose", "admin.role.approve",
       "admin.mfa_reset.propose", "admin.mfa_reset.approve", "admin.subject_suspension.propose",
       "admin.subject_suspension.approve", "admin.notification.manage"}, Administrators),
   To({"admin.read"}, Administrators \cup {"auditor"})}

ACCOUNT_ACTION_POLICIES ==
  {To({"admin.invitation.manage", "admin.email_change.propose", "admin.email_change.approve"}, Administrators)}

ControlPolicies ==
  {To({"review_registry.read"}, Administrators \cup REGISTRY_APPROVER_ROLES \cup {"auditor"}),
   To({"review_registry.propose"}, {"mpc_operator"}),
   To({"review_registry.approve"}, REGISTRY_APPROVER_ROLES),
   To({"project.lifecycle.suspend"}, Administrators \cup {"issuer_officer"}),
   To({"project.lifecycle.advance"}, {"issuer_officer", "gate_approver"}),
   To({"connection.security_review", "break_glass.request", "break_glass.approve", "break_glass.incident",
       "break_glass.release"}, {"security_operator"}),
   To({"break_glass.read"}, {"security_operator", "auditor"}),
   To({"break_glass.quarantine"}, {BREAK_GLASS_ROLE})}

Policies ==
  ReadPolicies \cup ProjectPolicies \cup SourcePolicies \cup VerificationPolicies \cup PublicationPolicies
  \cup GovernancePolicies \cup AdminPolicies \cup ACCOUNT_ACTION_POLICIES \cup ControlPolicies
Action == UNION {p[1] : p \in Policies}
ACTION_POLICIES == [a \in Action |-> UNION {p[2] : p \in {q \in Policies : a \in q[1]}}]

----------------------------------------------------------------------------
(* The session of a request *)

\* What of a role takes effect: a service's roles through a token, any other in
\* a session at its level, and none in one that a recovery code restored.
Meets(s, role) ==
  IF s.principal = "service" THEN role \in SERVICE_ONLY_ROLES
  ELSE /\ role \notin SERVICE_ONLY_ROLES
       /\ ~s.limited
       /\ s.aal >= requiredAuthenticationLevel(role)

resolveBreakGlassElevation ==
  elevation.open /\ ~elevation.expired /\ (elevation.reported \/ ~elevation.overdue)

EmergencyBinding == [role |-> BREAK_GLASS_ROLE, org |-> "none", project |-> "none", scoped |-> FALSE, countries |-> {}]

resolveAuthority(s) ==
  LET bindings == {b \in held : Meets(s, b.role)}
      elevated == /\ \E b \in bindings : b.role = "security_operator"
                  /\ resolveBreakGlassElevation /\ Meets(s, BREAK_GLASS_ROLE)
      countries == UNION {b.countries : b \in bindings}
  IN [principal |-> s.principal, assurance |-> s.assurance, limited |-> s.limited, aal |-> s.aal,
      bindings |-> bindings \cup (IF elevated THEN {EmergencyBinding} ELSE {}),
      narrowed |-> {b.role : b \in held \ bindings},
      \* read only for sessions with a binding limited by jurisdiction
      hosts |-> {p \in Project : HostOf[p] \in countries}]

resolveSession(f) ==
  resolveAuthority([principal |-> "person", assurance |-> assurance, limited |-> f.limited,
                    aal |-> deriveAuthenticationLevel(f.second)])

resolveServiceSession ==
  resolveAuthority([principal |-> "service", assurance |-> assurance, limited |-> FALSE, aal |-> 0])

----------------------------------------------------------------------------
(* Scopes and decisions *)

\* A person's organization reaches the projects it owns; a tenant's role, all.
baseScopeOf(b) ==
  IF b.project # "none" THEN {b.project}
  ELSE IF b.role \in TENANT_WIDE_ROLES THEN Project
  ELSE {p \in Project : OwnerOf[p] = b.org}

\* Mutant: the scope of lists forgets that a binding is limited to countries.
withinJurisdiction_Forgotten(s, b, scope) == scope

withinJurisdiction(s, b, scope) ==
  IF b.scoped THEN {p \in scope : p \in s.hosts /\ HostOf[p] \in b.countries} ELSE scope

usableBindings(s, action) ==
  {b \in s.bindings : /\ b.role \in ACTION_POLICIES[action]
                      /\ satisfiesAssurance(s.assurance, minimumAssurance(b.role))}
holdsActionRole(s, action) == usableBindings(s, action) # {}

visibleProjectScope(s, action) ==
  UNION {withinJurisdiction(s, b, baseScopeOf(b)) : b \in usableBindings(s, action)}

clearance(s) == IF s.assurance = "wallet_only" THEN {"public"} ELSE {"public", "restricted"}

\* A project's resource, or one of the whole tenant (project "none").
jurisdictionMatches(s, b, r) ==
  b.scoped => \/ r.project = "none" /\ r.filtered
              \/ r.project # "none" /\ r.project \in s.hosts /\ HostOf[r.project] \in b.countries

ResourceConditions(s, r) ==
  /\ r.sensitivity \in clearance(s)
  /\ r.conditions

authorize(s, action, b, r) ==
  /\ b.role \in ACTION_POLICIES[action]
  /\ satisfiesAssurance(s.assurance, minimumAssurance(b.role))
  /\ r.project # "none" => r.project \in baseScopeOf(b)
  /\ jurisdictionMatches(s, b, r)
  /\ ResourceConditions(s, r)

\* Without a binding one is a public reader, which no action names.
PUBLIC_READER == [role |-> "public_reader", org |-> "none", project |-> "none", scoped |-> FALSE, countries |-> {}]
assertAuthorized(s, action, r) ==
  \E b \in (IF s.bindings = {} THEN {PUBLIC_READER} ELSE s.bindings) : authorize(s, action, b, r)

\* The actions a screen offers.
sessionView(s) ==
  IF s.principal = "person" /\ (s.aal = 1 \/ s.limited) THEN {} ELSE {a \in Action : holdsActionRole(s, a)}

----------------------------------------------------------------------------
(* The gate of the request hook *)

Route == [session : {TRUE}, first : BOOLEAN, limited : BOOLEAN, scope : {"none", "scan_result", "cre_report"}]
           \cup {[session |-> FALSE, first |-> FALSE, limited |-> FALSE, scope |-> "none"]}

NoSession(why) == [principal |-> "none", why |-> why]
InFlight == request.principal # "none"

gate(route) ==
  IF ~route.session THEN NoSession("not read")
  ELSE IF kind = "service" THEN
    IF route.scope \notin scopes THEN NoSession("refused") ELSE resolveServiceSession
  ELSE LET s == resolveSession(factors) IN
    IF s.aal = 1 /\ ~route.first THEN NoSession("refused")
    ELSE IF s.limited /\ ~route.limited THEN NoSession("refused")
    ELSE s

AuthorizationInit ==
  /\ kind \in {"person", "service"}
  /\ held = {}
  /\ IF kind = "service" THEN scopes \in {{"scan_result"}, {"cre_report"}} /\ assurance = "high_assurance"
     ELSE scopes = {} /\ assurance \in DOMAIN AssuranceRank
  /\ factors = [second |-> "none", limited |-> FALSE]
  /\ elevation = [open |-> FALSE, expired |-> FALSE, overdue |-> FALSE, reported |-> FALSE]
  /\ request = NoSession("idle")

Arrive(route) ==
  /\ ~InFlight
  /\ request' = gate(route)
  /\ UNCHANGED <<kind, held, scopes, assurance, factors, elevation>>

Respond ==
  /\ request # NoSession("idle")
  /\ request' = NoSession("idle")
  /\ UNCHANGED <<kind, held, scopes, assurance, factors, elevation>>

\* Two people grant or revoke a binding; the CLI gives services theirs.
BindingChanges ==
  /\ \/ \E b \in Bindable \ held : held' = held \cup {b} /\ Cardinality(held') <= MaxBindings
     \/ \E b \in held : held' = held \ {b}
  /\ UNCHANGED <<kind, scopes, assurance, factors, elevation, request>>

\* A second factor is proved, or a recovery code is used in its place.
FactorProved ==
  /\ kind = "person"
  /\ factors' \in {[second |-> f, limited |-> FALSE] : f \in {"totp", "passkey"}}
                  \cup {[second |-> "recovery_code", limited |-> TRUE]}
  /\ UNCHANGED <<kind, held, scopes, assurance, elevation, request>>

\* A break-glass elevation is approved, runs out, is due a report, gets it, is released.
ElevationChanges ==
  /\ \/ ~elevation.open /\ elevation' = [open |-> TRUE, expired |-> FALSE, overdue |-> FALSE, reported |-> FALSE]
     \/ elevation.open /\ \/ elevation' = [elevation EXCEPT !.expired = TRUE]
                          \/ elevation' = [elevation EXCEPT !.overdue = TRUE]
                          \/ elevation' = [elevation EXCEPT !.reported = TRUE]
                          \/ elevation' = [elevation EXCEPT !.open = FALSE]
  /\ kind = "person" /\ \E b \in held : b.role = "security_operator"
  /\ UNCHANGED <<kind, held, scopes, assurance, factors, request>>

AuthorizationNext ==
  \/ \E route \in Route : Arrive(route)
  \/ Respond \/ BindingChanges \/ FactorProved \/ ElevationChanges

AuthorizationSpec == AuthorizationInit /\ [][AuthorizationNext]_authorizationVars

----------------------------------------------------------------------------
Resource(p, sensitivity) == [project |-> p, sensitivity |-> sensitivity, conditions |-> TRUE, filtered |-> FALSE]

\* A list shows the projects its reader may open: the scope that filters lists and
\* the decision on one project, written apart, never differ (authorize.ts:203),
\* and what may be decided at all is on the menu.
ListsMatchDecisions(s) ==
  \A a \in Action : LET scope == visibleProjectScope(s, a) IN
    \A p \in Project :
      /\ assertAuthorized(s, a, Resource(p, "public")) <=> p \in scope
      /\ assertAuthorized(s, a, Resource(p, "restricted")) => p \in scope /\ a \in sessionView(s)

\* A higher sign-in level never takes away what a lower one allowed (session.ts:60).
NarrowedNotWidened ==
  LET second(f) == resolveSession([second |-> f, limited |-> f = "recovery_code"])
      weaker == {<<"none", "totp">>, <<"recovery_code", "totp">>, <<"totp", "passkey">>}
  IN \A pair \in weaker, a \in Action :
       visibleProjectScope(second(pair[1]), a) \subseteq visibleProjectScope(second(pair[2]), a)

\* A service acts in no person's role and a person in no service's, whatever they
\* are bound to; the emergency role is there with the standing one it rests on.
RolesInTheirPlace(s) ==
  LET roles == {b.role : b \in s.bindings} IN
  /\ IF s.principal = "service" THEN \A p \in Project : ~assertAuthorized(s, "claim.curate", Resource(p, "public"))
     ELSE \A p \in Project : ~assertAuthorized(s, "upload.scan_result", Resource(p, "restricted"))
  /\ BREAK_GLASS_ROLE \in roles => "security_operator" \in roles
  /\ s.aal = 2 => \A a \in {"registry.publish", "gate.decide", "attestation.sign", "break_glass.quarantine"} :
                     ~holdsActionRole(s, a)

DecisionsAgree ==
  /\ InFlight => ListsMatchDecisions(request) /\ RolesInTheirPlace(request)
  /\ kind = "person" /\ held # {} => NarrowedNotWidened
=============================================================================
