--------------------------- MODULE DocumentGraph ---------------------------
(***************************************************************************)
(* Documents of a project, which version replaces which, what rests on     *)
(* what, and who has to look again when a document is replaced, revoked or *)
(* expires.  Requests are apps/api/src/routes/documents.ts, uploads.ts     *)
(* (promotion) and document-revocation.ts; most of the effects are         *)
(* triggers of migrations 0045 and 0072.                                   *)
(*                                                                         *)
(* A request is a transaction under READ COMMITTED: each of its steps sees *)
(* what is committed by then, and its own writes appear at its commit.     *)
(* Steps that no other request can tell apart are joined.  A request that  *)
(* is refused, or is the victim of a deadlock, leaves no trace.            *)
(***************************************************************************)
EXTENDS Naturals, FiniteSets

CONSTANTS Docs,        \* documents (rows of core.object_uploads)
          Txs,         \* requests that may be under way at once
          MaxRequests, \* bound: requests begun in a behaviour
          MaxDay,      \* bound: days that pass
          InitDocs,    \* documents a behaviour may start from
          InitLinks,   \* links it may start from
          LinkRequests, ReplaceRequests, TypeRequests, DateRequests
                       \* bound: the links, replacements, types and dates asked for

VARIABLES
  doc,         \* the row of each document
  links,       \* active rows of core.document_links
  recorded,    \* rows of core.document_impacts, open or closed
  open,        \* those still open
  rule,        \* core.document_link_rules: no rule, active or retired
  tx,          \* the requests under way
  advisory,    \* holder of the lock core.document_links:<project>
  today,       \* current_date
  begun,       \* requests begun so far
  overlapped   \* two requests have been under way at once

documentVars == <<doc, links, recorded, open, rule, tx, advisory, today, begun, overlapped>>

None  == "none"
Types == {"untyped", "source", "result"}   \* the rule makes results rest on sources
Kinds == {"depends_on", "references"}
UNUSABLE_STATES == {"scanned_infected", "rejected"}

usable(d)    == doc[d].state \notin UNUSABLE_STATES
replaces(d)  == doc[d].supersedes

(* The promoted document that replaced d, if any.                          *)
document_successor(d) == {s \in Docs : replaces(s) = d /\ doc[s].state = "promoted"}
replaced(d) == document_successor(d) # {}

-----------------------------------------------------------------------------
(* Walks over links.                                                       *)

(* A recursive query: what is reached from ds along pairs takes at most as  *)
(* many rounds as there are documents.                                     *)
Step(pairs, ds) == {p[2] : p \in {q \in pairs : q[1] \in ds}}
Reach(pairs, ds) ==
  LET grow[n \in 0..Cardinality(Docs)] ==
        IF n = 0 THEN ds ELSE grow[n - 1] \cup Step(pairs, grow[n - 1])
  IN grow[Cardinality(Docs)]

Downward(ls) == {<<l.up, l.down>> : l \in ls}
Upward(ls)   == {<<l.down, l.up>> : l \in ls}
Carrying(ls) == {l \in ls : l.kind = "depends_on"}

document_link_would_cycle(ls, up, down) == up \in Reach(Downward(Carrying(ls)), {down})

(* depends_on travels on, references is flagged and stops.                 *)
document_impact_targets(ls, origin) ==
  LET onward == Downward({l \in Carrying(ls) : l.down # origin})
  IN Step(Downward(ls), Reach(onward, {origin})) \ {origin}

Above(ls, d) == Reach(Upward(ls), {d})

HasLoop(ls) == \E l \in Carrying(ls) : document_link_would_cycle(ls, l.up, l.down)

(* Later versions of d, promoted or not, in rows as they are in ds.        *)
Successors(ds, d) == {s \in Docs : ds[s].supersedes = d}
LaterIn(ds, d) ==
  Reach({<<ds[s].supersedes, s>> : s \in Docs \ Successors(ds, None)}, Successors(ds, d))
LaterVersions(d) == LaterIn(doc, d)

DocumentRows ==
  [state : {"scanned_clean", "promoted", "scanned_infected"}, type : Types, validUntil : 0..MaxDay,
   supersedes : Docs \cup {None}, revoked : BOOLEAN]
LiveSuccessors(ds, d) == {s \in Successors(ds, d) : ds[s].state \notin UNUSABLE_STATES}

(* The walks of impacts stop after 64 links (0045:575, documents.ts:355).  *)
MaxWalk == 64
ASSUME DocumentsAssumption ==
  /\ IsFiniteSet(Docs) /\ Cardinality(Docs) <= MaxWalk /\ None \notin Docs \cup Txs
  /\ MaxDay \in Nat

(* What is asked for is of the shape the routes parse, and a behaviour     *)
(* starts from sound versions and links, none of them revoked.             *)
ASSUME RequestsAssumption ==
  /\ LinkRequests \subseteq [up : Docs, down : Docs, kind : Kinds]
  /\ ReplaceRequests \subseteq [doc : Docs, target : Docs]
  /\ TypeRequests \subseteq [doc : Docs, type : Types]
  /\ DateRequests \subseteq [doc : Docs, day : 0..MaxDay]
ASSUME StartsAssumption ==
  /\ \A ds \in InitDocs :
       /\ ds \in [Docs -> DocumentRows]
       /\ \A d \in Docs : /\ ~ds[d].revoked /\ d \notin LaterIn(ds, d)
                          /\ Cardinality(LiveSuccessors(ds, d)) <= 1
       /\ \A l \in UNION InitLinks :
            ds[l.up].state \notin UNUSABLE_STATES /\ ds[l.down].state \notin UNUSABLE_STATES
  /\ \A ls \in InitLinks :
       /\ ls \subseteq [up : Docs, down : Docs, kind : Kinds, origin : {"user", "rule", "carried_over"}]
       /\ ~HasLoop(ls)

-----------------------------------------------------------------------------
(* Impacts.  One row per document, origin, cause and validity date.        *)

Impact(d, o, cause, date) == [doc |-> d, origin |-> o, cause |-> cause, date |-> date]

record_document_impacts(ls, origin, cause) ==
  LET date == IF cause = "expired" THEN doc[origin].validUntil ELSE 0
      self == IF cause = "expired" THEN {origin} ELSE {}
  IN {Impact(d, origin, cause, date) :
        d \in self \cup {t \in document_impact_targets(ls, origin) :
                           usable(t) /\ ~doc[t].revoked}}

Expired(d) == doc[d].validUntil # 0 /\ doc[d].validUntil < today

detect_document_expiry(ls, ds) ==
  UNION {record_document_impacts(ls, d, "expired") :
           d \in {e \in ds : Expired(e) /\ usable(e) /\ ~doc[e].revoked /\ ~replaced(e)}}

(* A recorded impact is raised again.                                      *)
Record_Again(impacts) ==
  /\ recorded' = recorded \cup impacts
  /\ open' = open \cup impacts

(* ON CONFLICT DO NOTHING: what was recorded, and perhaps closed, is kept. *)
Record(impacts) ==
  /\ recorded' = recorded \cup impacts
  /\ open' = open \cup (impacts \ recorded)

-----------------------------------------------------------------------------
(* Requests under way, and the row locks they hold.                        *)

idle == [op |-> "idle", update |-> {}, share |-> {}]
running(t) == tx[t].op # "idle"
Others(t) == {s \in Txs \ {t} : running(s)}

(* FOR SHARE keeps nobody out.                                             *)
MayUpdate_IgnoresShare(t, ds) == \A s \in Others(t) : tx[s].update \cap ds = {}

(* Links are inserted without the project's lock.                          *)
MayInsertLinks_NoLock(t) == TRUE

MayUpdate(t, ds) == \A s \in Others(t) : (tx[s].update \cup tx[s].share) \cap ds = {}
MayShare(t, ds)  == \A s \in Others(t) : tx[s].update \cap ds = {}
MayInsertLinks(t) == advisory \in {None, t}

(* Who sets what a document replaces holds the project's lock on versions  *)
(* to the commit; a promotion finds it set.                                *)
MaySetVersion(t) ==
  \A s \in Others(t) : tx[s].op \in {"walked", "carried"} => replaces(tx[s].self) # None

Begin(t) ==
  /\ ~running(t)
  /\ begun < MaxRequests
  /\ begun' = begun + 1
  /\ overlapped' = (overlapped \/ Others(t) # {})
  /\ UNCHANGED today

Proceed(t) == running(t) /\ UNCHANGED <<today, begun, overlapped>>

(* The request ends; its locks are released.                               *)
End(t) ==
  /\ tx' = [tx EXCEPT ![t] = idle]
  /\ advisory' = IF advisory = t THEN None ELSE advisory

Abort(t) ==
  /\ Proceed(t) /\ End(t)
  /\ UNCHANGED <<doc, links, recorded, open, rule>>

(* A request whose statements no other one can come between.               *)
AtOnce(t) == Begin(t) /\ UNCHANGED <<tx, advisory>>

-----------------------------------------------------------------------------
(* Links.                                                                  *)

Linkable(d) == usable(d) /\ ~doc[d].revoked /\ ~replaced(d)

(* The ends are locked FOR SHARE and read; a revocation in flight is waited *)
(* for.  A promotion locks only the new version, so it is not.             *)
CreateLinkCheck(t, up, down, kind) ==
  /\ Begin(t)
  /\ up # down
  /\ MayShare(t, {up, down})
  /\ Linkable(up) /\ Linkable(down)
  /\ tx' = [tx EXCEPT ![t] = [op |-> "link", update |-> {}, share |-> {up, down},
                              link |-> [up |-> up, down |-> down, kind |-> kind,
                                        origin |-> "user"]]]
  /\ UNCHANGED <<doc, links, recorded, open, rule, advisory>>

Linked(ls, up, down) == \E l \in ls : l.up = up /\ l.down = down

Insertable(ls, l) ==
  /\ ~Linked(ls, l.up, l.down)
  /\ l.kind = "depends_on" => ~document_link_would_cycle(ls, l.up, l.down)

checkExpiryAround(ls, d) == detect_document_expiry(ls, Above(ls, d))

CreateLinkInsert(t) ==
  /\ Proceed(t)
  /\ tx[t].op = "link"
  /\ MayInsertLinks(t)
  /\ Insertable(links, tx[t].link)
  /\ links' = links \cup {tx[t].link}
  /\ Record(checkExpiryAround(links', tx[t].link.down))
  /\ End(t)
  /\ UNCHANGED <<doc, rule>>

(* A link is removed once; the impacts raised through it stay open.        *)
RemoveLink(t, l) ==
  /\ AtOnce(t)
  /\ l \in links
  /\ links' = links \ {l}
  /\ UNCHANGED <<doc, recorded, open, rule>>

-----------------------------------------------------------------------------
(* Type rules.                                                             *)

RulePairs(ds) ==
  {p \in Docs \X Docs :
     /\ p[1] # p[2]
     /\ doc[p[1]].type = "source" /\ doc[p[2]].type = "result"
     /\ Linkable(p[1]) /\ Linkable(p[2])
     /\ p[1] \in ds \/ p[2] \in ds}

RuleLinks(pairs) ==
  {[up |-> p[1], down |-> p[2], kind |-> "depends_on", origin |-> "rule"] : p \in pairs}

(* Row by row: a pair that is linked, or would close a loop with what was  *)
(* inserted before it, is skipped.  The order is that of the uploads; any  *)
(* order that leaves no insertable pair out is allowed here.               *)
apply_document_link_rule(before, after, pairs) ==
  LET made == after \ before IN
  /\ before \subseteq after
  /\ made \subseteq RuleLinks(pairs)
  /\ \A k \in made : \A l \in after \ {k} : <<k.up, k.down>> # <<l.up, l.down>>
  /\ ~HasLoop(after)
  /\ \A l \in RuleLinks(pairs) \ made : ~Insertable(after, l)

CreateRuleCheck(t) ==
  /\ Begin(t)
  /\ rule # "active"
  /\ \A s \in Others(t) : tx[s].op # "rule"
  /\ tx' = [tx EXCEPT ![t] = [op |-> "rule", update |-> {}, share |-> {},
                              pairs |-> RulePairs(Docs)]]
  /\ UNCHANGED <<doc, links, recorded, open, rule, advisory>>

(* The pairs come from one snapshot; each insert waits for the rows' locks *)
(* (the foreign keys) but reads neither end again.                         *)
CreateRuleInsert(t) ==
  /\ Proceed(t)
  /\ tx[t].op = "rule"
  /\ MayInsertLinks(t)
  /\ MayShare(t, {p[1] : p \in tx[t].pairs} \cup {p[2] : p \in tx[t].pairs})
  /\ \E made \in SUBSET RuleLinks(tx[t].pairs) :
       /\ apply_document_link_rule(links, links \cup made, tx[t].pairs)
       /\ links' = links \cup made
       /\ Record(UNION {detect_document_expiry(links', Above(links', l.up)) : l \in made})
  /\ rule' = "active"
  /\ End(t)
  /\ UNCHANGED doc

RetireRule(t) ==
  /\ AtOnce(t)
  /\ rule = "active"
  /\ rule' = "retired"
  /\ UNCHANGED <<doc, links, recorded, open>>

-----------------------------------------------------------------------------
(* A new version takes effect: apply_document_supersede, in its order.     *)

Touching(ls, d) == {l \in ls : l.up = d \/ l.down = d}
Renamed(l, p, n) == [l EXCEPT !.up = IF l.up = p THEN n ELSE l.up,
                              !.down = IF l.down = p THEN n ELSE l.down,
                              !.origin = "carried_over"]

(* 1 and 2: who rested on the previous version, and its own open impacts.  *)
SupersedeWalk(p) ==
  [walked |-> record_document_impacts(links, p, "superseded"),
   revised |-> {i \in open : i.doc = p}]

(* 3: the links carried over; one that exists or would close a loop is     *)
(* skipped.  The first insert takes the advisory lock until the commit.    *)
Carried(p, n) ==
  {Renamed(l, p, n) : l \in Touching(links, p) \ Touching(links, n)}
CarriedLinks(p, n) == {l \in Carried(p, n) : Insertable(links, l)}

SupersedeCarry(t) ==
  /\ Proceed(t)
  /\ tx[t].op = "walked"
  /\ LET n == tx[t].next
         moved == CarriedLinks(n.supersedes, tx[t].self)
     IN /\ moved # {} => MayInsertLinks(t)
        /\ ~HasLoop(links \cup moved)
        /\ tx' = [tx EXCEPT ![t] = [op |-> "carried", update |-> tx[t].update, share |-> {},
                                    self |-> tx[t].self, next |-> n, moved |-> moved,
                                    effect |-> tx[t].effect]]
        /\ advisory' = IF moved # {} THEN t ELSE advisory
  /\ UNCHANGED <<doc, links, recorded, open, rule>>

(* 4: the previous version's links are removed, and the request commits.  *)
(* A profile update (of a document already promoted) checks expiry; the    *)
(* promotion route does not.                                               *)
SupersedeCommit(t) ==
  \E d \in Docs :
    /\ Proceed(t)
    /\ tx[t].op = "carried" /\ tx[t].self = d
    /\ doc' = [doc EXCEPT ![d] = tx[t].next]
    /\ links' = (links \ Touching(links, tx[t].next.supersedes)) \cup tx[t].moved
    /\ LET expired == IF doc[d].state = "promoted" THEN checkExpiryAround(links, d)' ELSE {}
           new == (tx[t].effect.walked \cup expired) \ recorded
       IN /\ recorded' = recorded \cup new
          /\ open' = (open \ tx[t].effect.revised) \cup new
    /\ End(t)
    /\ UNCHANGED rule

TakesEffect(before, after) ==
  /\ after.state = "promoted" /\ after.supersedes # None
  /\ ~(before.state = "promoted" /\ before.supersedes # None)

(* Promotion of an upload that passed its scan: its row is locked, the one *)
(* it replaces is not.                                                     *)
PromoteDocument(t, d) ==
  /\ Begin(t)
  /\ MayUpdate(t, {d})
  /\ doc[d].state = "scanned_clean"
  /\ LET next == [doc[d] EXCEPT !.state = "promoted"] IN
     IF TakesEffect(doc[d], next)
     THEN /\ tx' = [tx EXCEPT ![t] =
                      [op |-> "walked", update |-> {d}, share |-> {}, self |-> d,
                       next |-> next, effect |-> SupersedeWalk(next.supersedes)]]
          /\ UNCHANGED doc
     ELSE /\ doc' = [doc EXCEPT ![d] = next]
          /\ UNCHANGED tx
  /\ UNCHANGED <<links, recorded, open, rule, advisory>>

(* assertReplaceable: the target is locked, usable, not replaced by a live *)
(* upload, and not a later version of d.                                   *)
assertReplaceable(t, d, target) ==
  /\ target # d
  /\ MayUpdate(t, {target})
  /\ usable(target)
  /\ ~\E s \in Docs \ {d} : replaces(s) = target /\ usable(s)
  /\ target \notin LaterVersions(d)

Editable(t, d) == MayUpdate(t, {d}) /\ usable(d) /\ ~doc[d].revoked

(* PATCH document-profile naming the document this one replaces.           *)
SetSupersedes(t, d, target) ==
  /\ Begin(t)
  /\ Editable(t, d)
  /\ doc[d].supersedes = None
  /\ MaySetVersion(t)
  /\ assertReplaceable(t, d, target)
  /\ LET next == [doc[d] EXCEPT !.supersedes = target] IN
     IF TakesEffect(doc[d], next)
     THEN /\ tx' = [tx EXCEPT ![t] =
                      [op |-> "walked", update |-> {d, target}, share |-> {}, self |-> d,
                       next |-> next, effect |-> SupersedeWalk(target)]]
          /\ UNCHANGED doc
     ELSE /\ doc' = [doc EXCEPT ![d] = next]
          /\ UNCHANGED tx
  /\ UNCHANGED <<links, rule, advisory>>
  /\ IF doc' = doc THEN UNCHANGED <<recorded, open>> ELSE Record(checkExpiryAround(links, d)')

(* PATCH document-profile setting the type: the active rule is applied to  *)
(* pairs with this document.                                               *)
SetType(t, d, type) ==
  /\ AtOnce(t)
  /\ Editable(t, d)
  /\ type # doc[d].type
  /\ doc' = [doc EXCEPT ![d].type = type]
  /\ rule = "active" => MayInsertLinks(t)
  /\ \E made \in SUBSET IF rule = "active" THEN RuleLinks(RulePairs({d})') ELSE {} :
       /\ rule = "active" => apply_document_link_rule(links, links \cup made, RulePairs({d})')
       /\ links' = links \cup made
  /\ Record(checkExpiryAround(links, d)')
  /\ UNCHANGED rule

(* PATCH document-profile setting the validity date, past or future.       *)
SetValidUntil(t, d, day) ==
  /\ AtOnce(t)
  /\ Editable(t, d)
  /\ day # doc[d].validUntil
  /\ doc' = [doc EXCEPT ![d].validUntil = day]
  /\ UNCHANGED <<links, rule>>
  /\ Record(checkExpiryAround(links, d)')

-----------------------------------------------------------------------------
(* Revocation, judgement, expiry.                                          *)

RevokeDocument(t, d) ==
  /\ AtOnce(t)
  /\ MayUpdate(t, {d})
  /\ doc[d].state = "promoted" /\ ~doc[d].revoked
  /\ doc' = [doc EXCEPT ![d].revoked = TRUE]
  /\ Record(record_document_impacts(links, d, "revoked"))
  /\ UNCHANGED <<links, rule>>

(* All the named impacts are open, or nothing changes; "not applicable"    *)
(* needs a link to judge.                                                  *)
ResolveImpacts(t, impacts, resolution) ==
  /\ AtOnce(t)
  /\ impacts # {} /\ impacts \subseteq open
  /\ resolution = "not_applicable" => \A i \in impacts : i.doc # i.origin
  /\ open' = open \ impacts
  /\ UNCHANGED <<doc, links, recorded, rule>>

(* The hourly sweep of the jobs worker reads, then commits.                *)
SweepRead(t) ==
  /\ Begin(t)
  /\ tx' = [tx EXCEPT ![t] = [op |-> "sweep", update |-> {}, share |-> {},
                              found |-> detect_document_expiry(links, Docs)]]
  /\ UNCHANGED <<doc, links, recorded, open, rule, advisory>>

SweepCommit(t) ==
  /\ Proceed(t)
  /\ tx[t].op = "sweep"
  /\ Record(tx[t].found)
  /\ End(t)
  /\ UNCHANGED <<doc, links, rule>>

NextDay ==
  /\ today < MaxDay
  /\ today' = today + 1
  /\ UNCHANGED <<doc, links, recorded, open, rule, tx, advisory, begun, overlapped>>

DocumentInit ==
  /\ doc \in InitDocs
  /\ links \in InitLinks
  /\ recorded = {} /\ open = {}
  /\ rule = None
  /\ tx = [t \in Txs |-> idle]
  /\ advisory = None
  /\ today = 1
  /\ begun = 0
  /\ overlapped = FALSE

RequestBegins(t) ==
  \/ \E r \in LinkRequests : CreateLinkCheck(t, r.up, r.down, r.kind)
  \/ \E l \in links : RemoveLink(t, l)
  \/ CreateRuleCheck(t)
  \/ RetireRule(t)
  \/ \E d \in Docs : PromoteDocument(t, d) \/ RevokeDocument(t, d)
  \/ \E r \in ReplaceRequests : SetSupersedes(t, r.doc, r.target)
  \/ \E r \in TypeRequests : SetType(t, r.doc, r.type)
  \/ \E r \in DateRequests : SetValidUntil(t, r.doc, r.day)
  \/ \E i \in open, r \in {"no_change_needed", "not_applicable"} : ResolveImpacts(t, {i}, r)
  \/ SweepRead(t)

RequestGoesOn(t) ==
  \/ CreateLinkInsert(t)
  \/ CreateRuleInsert(t)
  \/ SupersedeCarry(t)
  \/ SupersedeCommit(t)
  \/ SweepCommit(t)
  \/ Abort(t)

DocumentNext == (\E t \in Txs : RequestBegins(t) \/ RequestGoesOn(t)) \/ NextDay
DocumentSpec == DocumentInit /\ [][DocumentNext]_documentVars

-----------------------------------------------------------------------------
(* Properties.                                                             *)

(* Shapes; every open impact is on record, and nobody holds the links' lock *)
(* after the end of its request (pg_advisory_xact_lock, 0045:303).         *)
DocumentTypeOK ==
  /\ doc \in [Docs -> DocumentRows]
  /\ \A l \in links : l.up \in Docs /\ l.down \in Docs /\ l.kind \in Kinds
  /\ open \subseteq recorded
  /\ advisory # None => advisory \in Txs /\ running(advisory)

(* No document rests on itself through others, whichever links are added,  *)
(* made by a rule or carried over at the same time (0045:291).             *)
NoLoops == ~HasLoop(links)

(* A document has one live successor at most and no chain of versions      *)
(* comes back to where it began, so every document has a latest version    *)
(* (0045:59, documents.ts:278).                                            *)
VersionsAreLines ==
  \A d \in Docs : /\ Cardinality(LiveSuccessors(doc, d)) <= 1
                  /\ d \notin LaterVersions(d)

(* The graph keeps its shape whatever requests run at the same time.       *)
GraphInOrder == DocumentTypeOK /\ NoLoops /\ VersionsAreLines

Told(d, o, cause, date) == Impact(d, o, cause, date) \in recorded

(* A link a person made cannot land on a revoked document after its        *)
(* impacts were walked: what rests on a revoked document was told so, or   *)
(* is revoked itself (documents.ts:644).                                   *)
RevocationSeesLinks ==
  \A l \in links :
    l.origin = "user" /\ doc[l.up].revoked /\ ~doc[l.down].revoked
      => Told(l.down, l.up, "revoked", 0)

(* As long as requests come one at a time: once an expiry is known,        *)
(* everything that rests on the expired document, however many links down, *)
(* has been told of it, whether the link or the expiry came first          *)
(* (checkExpiryAround, documents.ts:339).  Links carried over to a new     *)
(* version wait for the sweep.                                             *)
ExpiryFollowsLinks ==
  ~overlapped =>
    \A o \in Docs :
      \A d \in document_impact_targets({l \in links : l.origin # "carried_over"}, o) :
        Told(o, o, "expired", doc[o].validUntil) /\ ~doc[o].revoked /\ ~replaced(o)
          /\ ~doc[d].revoked
        => Told(d, o, "expired", doc[o].validUntil)

(* Whoever comes first, the link or the change, what rests on a document   *)
(* is told when it is revoked or expires.                                  *)
ImpactsFollowLinks == RevocationSeesLinks /\ ExpiryFollowsLinks

(* The documents a tenant relies on form sound lines of versions, and what *)
(* rests on them hears when one falls.                                     *)
DocumentsStand == GraphInOrder /\ ImpactsFollowLinks

(* An impact that was judged, or answered by a new version, is never       *)
(* raised again by a sweep, a link or another request (0045:439).          *)
JudgementsStand == [][open' \ open \subseteq recorded' \ recorded]_documentVars

=============================================================================
