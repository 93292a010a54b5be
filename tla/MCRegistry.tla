----------------------------- MODULE MCRegistry -----------------------------
(***************************************************************************)
(* Instances of RegistryAnchor, RegistryPublication and SafeMoves, which   *)
(* share no state; a part of a run moves one of them.  "contract": three   *)
(* batch ids, the zero word, two roots and two accounts.  "entry": one     *)
(* entry of either kind, two drafts, two people, two publish requests and  *)
(* as many batch requests as the run gives.  "signer" and "safe": a row    *)
(* sent by the worker's signer, beside another holder of its role, or by   *)
(* a Safe, and moved to another chain.                                     *)
(***************************************************************************)
EXTENDS RegistryAnchor, RegistryPublication, SafeMoves, TLC

CONSTANTS
    b1, b2, b3, r1, r2, zero, admin, key, d1, d2, p1, p2,
    InstanceParts  \* the parts of the run

VARIABLE part

MCBatchId == {zero, b1, b2, b3}
MCRoot == {zero, r1, r2}
MCAccount == {admin, key}
MCDraft == {d1, d2}
MCPerson == {p1, p2}
MCRequest == {r1, r2}

\* Drafts are interchangeable, and so are roots, whose names requests and workers borrow.
Interchangeable == Permutations(MCDraft) \cup Permutations(MCRequest)

\* The contract treats batch ids alike: the first submitted may as well be b1.
InOrder(s) ==
    LET submitted == {s[i] : i \in DOMAIN s}
    IN  (b2 \in submitted => b1 \in submitted) /\ (b3 \in submitted => b2 \in submitted)

MCInit ==
    /\ Init /\ PublicationInit /\ SafeMovesInit /\ part \in InstanceParts
    /\ part # "entry" => subject.type = "project"
    /\ part # "contract" => submitters = {admin} /\ pausers = {admin}
\* Batches read nothing of the evidence: they are built while it rests.
BatchesApart == subject'.evidence > 0 => batched' = {} /\ builds' = [b \in Builder |-> {}]
MoveParts ==
    /\ part \in {"signer", "safe"} /\ SafeMovesNext
    /\ IF part = "signer" THEN UNCHANGED uploads
       ELSE UNCHANGED sends /\ \A t \in DOMAIN txs' : txs'[t].nonce # 0
    /\ UNCHANGED <<vars, publicationVars>>
MCNext ==
    /\ \/ part = "contract" /\ Next /\ InOrder(batchIds') /\ UNCHANGED <<publicationVars, safeMoveVars>>
       \/ part = "entry" /\ PublicationNext /\ BatchesApart /\ UNCHANGED <<vars, safeMoveVars>>
       \/ MoveParts
    /\ UNCHANGED part
MCSpec == MCInit /\ [][MCNext]_<<vars, publicationVars, safeMoveVars, part>>
=============================================================================
