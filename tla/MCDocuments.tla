---------------------------- MODULE MCDocuments ----------------------------
(***************************************************************************)
(* Instances of UploadScan and DocumentGraph.  They share no variable: a   *)
(* behaviour explores one part and leaves the other at its initial state.  *)
(***************************************************************************)
EXTENDS UploadScan, DocumentGraph

CONSTANTS
  ContentOne,                 \* the content of every upload request in part "race"
  DocOld, DocNew, DocA, DocB  \* the new document replaces the old, the others rest on them

VARIABLE part  \* "race": two requests for one content; "queue": a content each; "graph"

MCRow(state, type, validUntil, supersedes) ==
  [state |-> state, type |-> type, validUntil |-> validUntil,
   supersedes |-> supersedes, revoked |-> FALSE]

\* DocOld may have a validity date; DocNew replaces it and waits for promotion, or is
\* promoted and replaces nothing yet.
MCInitDocs ==
  {[d \in {DocOld, DocNew, DocA, DocB} |->
      CASE d = DocOld -> MCRow("promoted", "source", v, None)
        [] d = DocNew -> MCRow(s[1], "untyped", 0, s[2])
        [] d = DocA -> MCRow("promoted", "result", 0, None)
        [] d = DocB -> MCRow("promoted", "untyped", 0, None)] :
     v \in {0, 1}, s \in {<<"scanned_clean", DocOld>>, <<"promoted", None>>}}

MCLink(x) == [up |-> x[1], down |-> x[2], kind |-> x[3]]
MCUserLink(x) == [up |-> x[1], down |-> x[2], kind |-> x[3], origin |-> "user"]
MCInitLinks == {{}, {MCUserLink(<<DocOld, DocA, "depends_on">>)},
                {MCUserLink(<<DocOld, DocA, "depends_on">>), MCUserLink(<<DocB, DocNew, "depends_on">>)}}
MCLinkRequests == {MCLink(x) : x \in {<<DocOld, DocA, "depends_on">>, <<DocA, DocB, "depends_on">>,
                                      <<DocB, DocOld, "depends_on">>, <<DocOld, DocB, "references">>}}
MCReplaceRequests == {[doc |-> x[1], target |-> x[2]] : x \in {<<DocNew, DocOld>>, <<DocOld, DocNew>>}}
MCTypeRequests == {[doc |-> DocNew, type |-> "source"], [doc |-> DocB, type |-> "result"]}
MCDateRequests == {[doc |-> DocOld, day |-> 1], [doc |-> DocOld, day |-> 2]}

\* Requests differ in nothing else: the first may as well be the least.
FirstRequest == CHOOSE r \in Requests : TRUE
Kind(r) == IF request[r].via = "stream" THEN 3 ELSE IF request[r].sens = "internal" THEN 1 ELSE 2

InitUploads ==
  /\ UploadScanInit
  /\ \/ /\ part = "race" /\ \A r \in Requests : request[r].content = ContentOne
        /\ \A r \in Requests \ {FirstRequest} : Kind(FirstRequest) <= Kind(r)
     \/ /\ part = "queue"
        /\ \A r \in Requests : request[r].via = "base64" /\ request[r].sens = "internal"
        /\ \E r, q \in Requests : request[r].content # request[q].content
        /\ scannerUp /\ tokenOk
  /\ DocumentInit
  /\ doc = CHOOSE d \in InitDocs : TRUE
  /\ links = {}

InitGraph ==
  /\ part = "graph"
  /\ DocumentInit
  /\ UploadScanInit
  /\ scannerUp /\ tokenOk
  /\ \A r \in Requests : request[r].content = ContentOne /\ request[r].via = "stream"

\* In part "queue" nothing crashes and nothing goes down, in part "race" one
\* thing does.
Calm == crashes' + outages' <= IF part = "queue" THEN 0 ELSE 1

MCInit == InitUploads \/ InitGraph
MCNext == \/ part # "graph" /\ UploadScanNext /\ Calm /\ UNCHANGED <<documentVars, part>>
          \/ part = "graph" /\ DocumentNext /\ UNCHANGED <<uploadScanVars, part>>
MCSpec == MCInit /\ [][MCNext]_<<uploadScanVars, documentVars, part>> /\ UploadScanFairness
=============================================================================
