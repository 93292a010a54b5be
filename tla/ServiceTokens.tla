--------------------------- MODULE ServiceTokens ---------------------------
(***************************************************************************)
(* The tokens of one service, one tenant and one label (service-tokens.ts):*)
(* issued, rotated and revoked by an operator's command, or registered by  *)
(* each deployment from the value its secret store holds.                  *)
(*                                                                         *)
(* A deployment reads under a lock that only deployments take, so a        *)
(* command may commit between its reading and its writing.  A token's      *)
(* life is "full" (its own term), "overlap" (shortened by a successor) or  *)
(* "over"; LEAST(expires_at, ...) only ever moves it forward.              *)
(***************************************************************************)
EXTENDS Naturals, Sequences, FiniteSets

CONSTANTS
  Value,      \* token values a secret store may hold; a command makes its own
  MaxTokens   \* bound: tokens in the table

VARIABLES
  tokens,    \* core.service_tokens: [value, life, revoked, from, issued]
  deploy,    \* the deployment that holds the lock: what it read
  subject,   \* the service's subject exists, with its one role
  clock      \* issued_at: the start of the transaction that inserted

serviceTokenVars == <<tokens, deploy, subject, clock>>

NoDeploy == [pc |-> "idle"]
Fresh == "made by the command"

ServiceTokensInit ==
  /\ tokens = <<>>
  /\ deploy = NoDeploy
  /\ subject = FALSE
  /\ clock = 0

Live(t) == ~tokens[t].revoked /\ tokens[t].life # "over"
LiveTokens == {t \in DOMAIN tokens : Live(t)}

\* Mutant: the end of the old token is set, not brought forward.
Shortened_Set(life, overlap) == overlap

\* With no overlap the old token ends at once.
Shortened(life, overlap) == IF life = "full" THEN overlap ELSE life
Retired(ts, overlap) ==
  [t \in DOMAIN tokens |->
     IF t \in ts THEN [tokens[t] EXCEPT !.life = Shortened(tokens[t].life, overlap)] ELSE tokens[t]]
Overlap == {"overlap", "over"}

insertToken(rows, value, from, issued) ==
  Append(rows, [value |-> value, life |-> "full", revoked |-> FALSE, from |-> from, issued |-> issued])

MayInsert == Len(tokens) < MaxTokens

createServiceSubject ==
  /\ ~subject
  /\ subject' = TRUE
  /\ UNCHANGED <<tokens, deploy, clock>>

\* A further token beside the others.
issueServiceToken ==
  /\ subject /\ MayInsert
  /\ clock' = clock + 1
  /\ tokens' = insertToken(tokens, Fresh, 0, clock')
  /\ UNCHANGED <<deploy, subject>>

rotateServiceToken(t) ==
  /\ Live(t) /\ MayInsert
  /\ clock' = clock + 1
  /\ \E overlap \in Overlap : tokens' = insertToken(Retired({t}, overlap), Fresh, t, clock')
  /\ UNCHANGED <<deploy, subject>>

revokeServiceToken(t) ==
  /\ ~tokens[t].revoked
  /\ tokens' = [tokens EXCEPT ![t].revoked = TRUE]
  /\ UNCHANGED <<deploy, subject, clock>>

\* Its term runs out.
Expires(t) ==
  /\ tokens[t].life # "over"
  /\ tokens' = [tokens EXCEPT ![t].life = "over"]
  /\ UNCHANGED <<deploy, subject, clock>>

superseded(t) ==
  \E n \in DOMAIN tokens \ {t} : tokens[n].from = t \/ tokens[n].issued > tokens[t].issued

\* ensureServiceToken, up to its writing: the value is known, and then stands or
\* is refused, or it is new, and those it will follow are read.
EnsureReads(value) ==
  /\ deploy.pc = "idle"
  /\ clock' = clock + 1
  /\ LET known == {t \in DOMAIN tokens : tokens[t].value = value} IN
     deploy' = IF \E t \in known : ~Live(t) \/ superseded(t) THEN [pc |-> "refused", value |-> value]
               ELSE IF known # {} THEN [pc |-> "unchanged", value |-> value]
               ELSE [pc |-> "writing", value |-> value, previous |-> LiveTokens, started |-> clock']
  /\ UNCHANGED <<tokens, subject>>

\* The successor names the newest it follows.
Newest(ts) == CHOOSE t \in ts : \A u \in ts : tokens[t].issued >= tokens[u].issued
EnsureWrites ==
  /\ deploy.pc = "writing" /\ MayInsert
  /\ \E overlap \in Overlap :
       tokens' = insertToken(Retired(deploy.previous, overlap), deploy.value,
                             IF deploy.previous = {} THEN 0 ELSE Newest(deploy.previous), deploy.started)
  /\ deploy' = [pc |-> IF deploy.previous = {} THEN "registered" ELSE "rotated", value |-> deploy.value]
  /\ subject' = TRUE
  /\ UNCHANGED clock

DeployEnds ==
  /\ deploy.pc \in {"refused", "unchanged", "registered", "rotated"}
  /\ deploy' = NoDeploy
  /\ UNCHANGED <<tokens, subject, clock>>

DeployFails ==
  /\ deploy.pc = "writing"
  /\ deploy' = NoDeploy
  /\ UNCHANGED <<tokens, subject, clock>>

ServiceTokensNext ==
  \/ createServiceSubject \/ issueServiceToken
  \/ \E t \in DOMAIN tokens : rotateServiceToken(t) \/ revokeServiceToken(t) \/ Expires(t)
  \/ \E v \in Value : EnsureReads(v)
  \/ EnsureWrites \/ DeployEnds \/ DeployFails

ServiceTokensSpec == ServiceTokensInit /\ [][ServiceTokensNext]_serviceTokenVars

----------------------------------------------------------------------------
\* No deployment or rotation leaves the service without a token: one is cut short
\* only for another that is live at that moment and still has its full term.
ShortenedForAnother ==
  \A t \in DOMAIN tokens : tokens[t].life = "full" /\ tokens'[t].life = "overlap" =>
    \E n \in DOMAIN tokens' : n # t /\ tokens'[n].life = "full" /\ ~tokens'[n].revoked

\* What was revoked or has ended is not brought back, by the next deployment
\* least of all: a value is in the table once and its row only loses.
EndedStays ==
  \A t \in DOMAIN tokens :
    /\ tokens[t].revoked => tokens'[t].revoked
    /\ tokens[t].life = "over" => tokens'[t].life = "over"
    /\ ~Live(t) => \A n \in DOMAIN tokens' \ DOMAIN tokens : tokens'[n].value = tokens[t].value => tokens[t].value = Fresh

TokensHandOver == [][ShortenedForAnother /\ EndedStays]_serviceTokenVars
=============================================================================
