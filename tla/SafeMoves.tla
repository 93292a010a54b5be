----------------------------- MODULE SafeMoves -----------------------------
(***************************************************************************)
(* One anchoring row on a chain whose contract is written by a Safe or by  *)
(* the signer of the worker, and its move to another chain                 *)
(* (anchor-submitter.ts, safe-client.ts, the resubmit route).              *)
(*                                                                         *)
(* A transaction of the old chain is a sequence number in txs.  Uploads    *)
(* are the Safe transactions the service knows, by nonce; proposals are    *)
(* the rows the worker keeps of them.  What the submitter does with one    *)
(* send is in AnchorSubmitter: here a send has an outcome, whichever.      *)
(* Moves are carried out beside the steps of the same worker and of its    *)
(* replicas, which ask the Safe service at once and write what they were   *)
(* told by the row's id alone, whatever became of it meanwhile.            *)
(***************************************************************************)
EXTENDS Naturals, Sequences, FiniteSets

CONSTANTS
  Worker,     \* workers of the old chain
  MaxTxs,     \* bound: transactions on the old chain
  MaxUploads  \* bound: Safe transactions uploaded

VARIABLES
  row,        \* [state, chain, tx, moveTo]: the row of chain.transactions
  sends,      \* transaction |-> how its ledger row is settled (chain.anchor_sends)
  proposals,  \* chain.anchor_proposals: [upload, state, history]
  uploads,    \* nonce |-> what became of the Safe transaction
  txs,        \* [nonce, did, stage]: transactions on the old chain; nonce is the Safe
              \* transaction it executes, or 0; did is "store", "nothing" or "revert"
  answers,    \* worker |-> what the Safe service told it of a proposal
  check,      \* the move in progress: what the worker read and asked
  onNew       \* the new chain holds the batch

safeMoveVars == <<row, sends, proposals, uploads, txs, answers, check, onNew>>

NoAnswer == [of |-> 0, kind |-> "none", tx |-> 0]
NoCheck == [pc |-> "idle", row |-> <<>>, hashes |-> {}, safeHashes |-> {}, unmapped |-> FALSE,
            unknown |-> FALSE, found |-> 0, untouched |-> FALSE]

SafeMovesInit ==
  /\ row = [state |-> "created", chain |-> "old", tx |-> 0, moveTo |-> "none"]
  /\ sends = <<>> /\ proposals = <<>> /\ uploads = <<>> /\ txs = <<>>
  /\ answers = [w \in Worker |-> NoAnswer]
  /\ check = NoCheck
  /\ onNew = FALSE

MOVABLE_STATES == {"failed", "dropped", "reverted", "reconciliation_required"}

----------------------------------------------------------------------------
(* The old chain *)

Landed(t) == txs[t].stage \in {"mined", "final"}
Storing == {t \in DOMAIN txs : Landed(t) /\ txs[t].did = "store"}
Anchored == Storing # {}
SendsOf(settled) == {t \in DOMAIN sends : sends[t] = settled}

SpentIn(n) == {t \in DOMAIN txs : n # 0 /\ txs[t].nonce = n /\ Landed(t) /\ txs[t].did # "revert"}

\* A transaction is mined: it stores the batch, which it cannot where it is
\* already; or reverts; or a Safe's inner call fails.  The last two
\* differ in the Safe's nonce, which only a revert leaves unspent.
Mine(t) ==
  /\ txs[t].stage = "out"
  /\ \E did \in {"store", "revert"} \cup (IF txs[t].nonce # 0 THEN {"nothing"} ELSE {}) :
       /\ did = "store" => ~Anchored
       /\ SpentIn(txs[t].nonce) # {} => did = "revert"
       /\ txs' = [txs EXCEPT ![t].stage = "mined", ![t].did = did]
       /\ uploads' = [n \in DOMAIN uploads |->
                        IF txs[t].nonce = n /\ did # "revert" THEN "executed" ELSE uploads[n]]
  /\ UNCHANGED <<row, sends, proposals, answers, check, onNew>>

\* A reorganisation takes it out again, and gives a Safe its nonce back.
Reorg(t) ==
  /\ txs[t].stage = "mined"
  /\ txs' = [txs EXCEPT ![t].stage = "out", ![t].did = "nothing"]
  /\ uploads' = [n \in DOMAIN uploads |->
                   IF txs[t].nonce = n /\ txs[t].did # "revert" THEN "pending" ELSE uploads[n]]
  /\ UNCHANGED <<row, sends, proposals, answers, check, onNew>>

Finalize(t) ==
  /\ txs[t].stage = "mined"
  /\ txs' = [txs EXCEPT ![t].stage = "final"]
  /\ UNCHANGED <<row, sends, proposals, uploads, answers, check, onNew>>

\* Its nonce is taken for good: it will never be mined.
Overtaken(t) ==
  /\ txs[t].stage = "out"
  /\ txs' = [txs EXCEPT ![t].stage = "gone"]
  /\ UNCHANGED <<row, sends, proposals, uploads, answers, check, onNew>>

Broadcast(nonce) == txs' = Append(txs, [nonce |-> nonce, did |-> "nothing", stage |-> "out"])
MayBroadcast == Len(txs) < MaxTxs

\* Another holder of the submitter role, unknown to the tables.
OutsiderSends ==
  /\ MayBroadcast /\ Broadcast(0)
  /\ UNCHANGED <<row, sends, proposals, uploads, answers, check, onNew>>

----------------------------------------------------------------------------
(* The signer's path *)

\* Every UPDATE of the row carries updated_at with it.
Touch == check' = [check EXCEPT !.untouched = FALSE]
RowBecomes(state, t) == row' = [row EXCEPT !.state = state, !.tx = t] /\ Touch

OnOld(state) == row.chain = "old" /\ row.state = state

\* reconcileBeforeSend: a batch that is there is followed; otherwise the send
\* is in the ledger before it leaves, whether its answer comes back or not.
Send ==
  /\ OnOld("created")
  /\ IF Anchored
     THEN (\E t \in Storing : RowBecomes("submitted", t)) /\ UNCHANGED <<sends, txs>>
     ELSE /\ MayBroadcast /\ Broadcast(0)
          /\ LET new == Len(txs) + 1 IN
             /\ sends' = [t \in DOMAIN sends \cup {new} |-> IF t = new THEN "open" ELSE sends[t]]
             /\ RowBecomes("submitted", new) \/ UNCHANGED <<row, check>>
  /\ UNCHANGED <<proposals, uploads, answers, onNew>>

\* The cap on attempts, counted over sends only.
GiveUp ==
  /\ OnOld("created") /\ DOMAIN sends # {}
  /\ RowBecomes("failed", row.tx)
  /\ UNCHANGED <<sends, proposals, uploads, txs, answers, onNew>>

\* settleSends: by the receipt at once, by the nonce once that is for good.
Settle(t) ==
  /\ sends[t] = "open"
  /\ sends' = [sends EXCEPT ![t] = IF Landed(t) THEN "receipt" ELSE "nonce_consumed"]
  /\ Landed(t) \/ txs[t].stage = "gone"
  /\ UNCHANGED <<row, proposals, uploads, txs, answers, check, onNew>>

OperatorSettles(t) ==
  /\ sends[t] = "open"
  /\ sends' = [sends EXCEPT ![t] = "operator"]
  /\ UNCHANGED <<row, proposals, uploads, txs, answers, check, onNew>>

\* trackPending: a transaction that is not seen is dropped, one that stored
\* nothing is reverted or, where another anchored, that one is followed.
Track ==
  /\ OnOld("submitted")
  /\ \/ /\ txs[row.tx].stage \in {"out", "gone"}
        /\ RowBecomes("dropped", row.tx)
     \/ /\ Landed(row.tx) /\ txs[row.tx].did # "store"
        /\ IF Anchored THEN \E t \in Storing : RowBecomes("submitted", t)
           ELSE \E s \in {"reverted", "reconciliation_required"} : RowBecomes(s, row.tx)
     \/ /\ txs[row.tx].stage = "final" /\ txs[row.tx].did = "store"
        /\ RowBecomes("confirmed", row.tx)
  /\ UNCHANGED <<sends, proposals, uploads, txs, answers, onNew>>

----------------------------------------------------------------------------
(* The Safe's path *)

OpenProposals == {p \in DOMAIN proposals : proposals[p].state = "proposed"}
Upload == Len(uploads) < MaxUploads /\ uploads' = Append(uploads, "pending")

\* proposeToSafe: past every nonce in use, and uploaded before it is recorded.
ProposeToSafe ==
  /\ OnOld("created") /\ OpenProposals = {}
  /\ Upload
  /\ proposals' = Append(proposals, [upload |-> Len(uploads) + 1, state |-> "proposed", history |-> {}])
  /\ RowBecomes("proposed", row.tx)
  /\ UNCHANGED <<sends, txs, answers, onNew>>

\* The answer is lost, or the worker dies: uploaded, and nothing recorded.
ProposalLost ==
  /\ OnOld("created") /\ OpenProposals = {}
  /\ Upload
  /\ UNCHANGED <<row, sends, proposals, txs, answers, check, onNew>>

\* The owners execute a Safe transaction: one that reverts as a whole keeps its nonce.
OwnersExecute(n) ==
  /\ uploads[n] = "pending"
  /\ MayBroadcast /\ Broadcast(n)
  /\ UNCHANGED <<row, sends, proposals, uploads, answers, check, onNew>>

\* Another transaction takes the nonce.
OwnersReplace(n) ==
  /\ uploads[n] = "pending"
  /\ uploads' = [uploads EXCEPT ![n] = "replaced"]
  /\ UNCHANGED <<row, sends, proposals, txs, answers, check, onNew>>

\* A reorganisation takes that one out.
ReplacementGone(n) ==
  /\ uploads[n] = "replaced"
  /\ uploads' = [uploads EXCEPT ![n] = "pending"]
  /\ UNCHANGED <<row, sends, proposals, txs, answers, check, onNew>>

\* status(): an execution with its hash, whatever became of it, or that
\* another one took the nonce; else nothing to act on.
StatusesOf(n) ==
  {[kind |-> "executed", tx |-> t] : t \in {u \in DOMAIN txs : txs[u].nonce = n /\ Landed(u)}}
  \cup (IF uploads[n] = "replaced" THEN {[kind |-> "replaced", tx |-> 0]} ELSE {})

\* trackProposals asks of every open proposal, holding no lock.
AskStatus(w, p) ==
  /\ answers[w] = NoAnswer /\ p \in OpenProposals
  /\ \E a \in StatusesOf(proposals[p].upload) :
       answers' = [answers EXCEPT ![w] = [of |-> p, kind |-> a.kind, tx |-> a.tx]]
  /\ UNCHANGED <<row, sends, proposals, uploads, txs, check, onNew>>

\* Both write by id alone; every hash seen of a proposal is kept for good.
TrackProposal(w) ==
  LET a == answers[w] IN
  /\ a.kind = "executed"
  /\ proposals' = [proposals EXCEPT ![a.of].state = "executed", ![a.of].history = @ \cup {a.tx}]
  /\ RowBecomes("submitted", a.tx)
  /\ answers' = [answers EXCEPT ![w] = NoAnswer]
  /\ UNCHANGED <<sends, uploads, txs, onNew>>

closeUnexecutable(w) ==
  /\ answers[w].kind = "replaced"
  /\ proposals' = [proposals EXCEPT ![answers[w].of].state = "rejected"]
  /\ RowBecomes("failed", row.tx)
  /\ answers' = [answers EXCEPT ![w] = NoAnswer]
  /\ UNCHANGED <<sends, uploads, txs, onNew>>

----------------------------------------------------------------------------
(* Resubmission and moves *)

\* POST /anchor-batches/:batchId/resubmit on the row's own chain.
ResubmitHere ==
  /\ row.chain = "old" /\ row.state \in MOVABLE_STATES
  /\ row' = [row EXCEPT !.state = "created", !.tx = 0, !.moveTo = "none"] /\ Touch
  /\ UNCHANGED <<sends, proposals, uploads, txs, answers, onNew>>

\* The same, by a deployment of the new chain: a request, which stands when asked again.
RequestMove ==
  /\ row.chain = "old" /\ row.state \in MOVABLE_STATES /\ row.moveTo = "none"
  /\ row' = [row EXCEPT !.moveTo = "new"] /\ Touch
  /\ UNCHANGED <<sends, proposals, uploads, txs, answers, onNew>>

\* dropStaleMoveRequests
DropStaleRequest ==
  /\ row.chain = "old" /\ row.moveTo # "none" /\ row.state \notin MOVABLE_STATES
  /\ row' = [row EXCEPT !.moveTo = "none"] /\ Touch
  /\ UNCHANGED <<sends, proposals, uploads, txs, answers, onNew>>

Histories == UNION {proposals[p].history : p \in DOMAIN proposals}
TrackedHashes ==
  SendsOf("receipt") \cup Histories
  \cup (IF row.tx # 0 /\ row.tx \notin SendsOf("nonce_consumed") THEN {row.tx} ELSE {})
\* A proposal that was executed or rejected, and no hash says how.
UnmappedExecution ==
  \E p \in DOMAIN proposals : proposals[p].state \in {"executed", "rejected"} /\ proposals[p].history = {}

\* Mutant: sends that left and were never heard of again do not count.
NothingOpen_ButSends == OpenProposals = {}

\* Nothing of ours is on its way to the old chain.
NothingOpen == SendsOf("open") = {} /\ OpenProposals = {}

\* processChainMoves: one statement reads the request and all that bears on it.
ReadRequest ==
  /\ check.pc = "idle" /\ row.chain = "old" /\ row.moveTo = "new" /\ row.state \in MOVABLE_STATES
  /\ NothingOpen
  /\ check' = [NoCheck EXCEPT !.pc = "asking", !.row = row, !.hashes = TrackedHashes,
                              !.safeHashes = Histories, !.unmapped = UnmappedExecution,
                              !.unknown = UnmappedExecution \/ SendsOf("operator") # {},
                              !.untouched = TRUE]
  /\ UNCHANGED <<row, sends, proposals, uploads, txs, answers, onNew>>

\* Its signer has transactions pending, a question fails, a receipt is not final
\* yet: the request waits for the next run.
Waits ==
  /\ check.pc \in {"asking", "searching"}
  /\ check' = NoCheck
  /\ UNCHANGED <<row, sends, proposals, uploads, txs, answers, onNew>>

\* Receipts of all it knows: of what it does not see, nothing is known.
AskReceipts ==
  /\ check.pc = "asking"
  /\ LET seen == {t \in check.hashes : Landed(t)} IN
     /\ \A t \in seen : txs[t].stage = "final"
     /\ check' = [check EXCEPT !.pc = "searching",
          !.unknown = @ \/ seen # check.hashes
                        \/ \E t \in seen \cap check.safeHashes : txs[t].did = "revert"]
  /\ UNCHANGED <<row, sends, proposals, uploads, txs, answers, onNew>>

\* Every contract this deployment used on the chain is asked for the batch.
SearchContracts ==
  /\ check.pc = "searching"
  /\ IF Anchored THEN \E t \in Storing : check' = [check EXCEPT !.pc = "deciding", !.found = t]
     ELSE check' = [check EXCEPT !.pc = "deciding"]
  /\ UNCHANGED <<row, sends, proposals, uploads, txs, answers, onNew>>

\* applyMove: only if the row is as it was read, and nothing of ours came to light.
StillAsRead ==
  /\ check.untouched
  /\ NothingOpen
  /\ SendsOf("receipt") \subseteq check.hashes
  /\ Histories \subseteq check.safeHashes
  /\ ~check.unmapped => ~UnmappedExecution

\* Where the batch is on the old chain, its row follows it there; a send or an
\* execution that may have stored it unseen is for a person; else the row starts
\* again on the other chain.
RefusedOnChain(t) == [row EXCEPT !.state = "submitted", !.tx = t, !.moveTo = "none"]
Refused == [row EXCEPT !.state = "reconciliation_required", !.moveTo = "none"]
Moved == [state |-> "created", chain |-> "new", tx |-> 0, moveTo |-> "none"]
MoveOutcome ==
  IF check.found # 0 THEN RefusedOnChain(check.found) ELSE IF check.unknown THEN Refused ELSE Moved

ApplyMove ==
  /\ check.pc = "deciding"
  /\ row' = IF StillAsRead THEN MoveOutcome ELSE row
  /\ check' = NoCheck
  /\ UNCHANGED <<sends, proposals, uploads, txs, answers, onNew>>

\* The new chain's worker anchors the row it is given.
AnchorOnNew ==
  /\ row.chain = "new" /\ row.state = "created"
  /\ onNew' = TRUE
  /\ RowBecomes("confirmed", 0)
  /\ UNCHANGED <<sends, proposals, uploads, txs, answers>>

ChainSteps == OutsiderSends \/ \E t \in DOMAIN txs : Mine(t) \/ Reorg(t) \/ Finalize(t) \/ Overtaken(t)
SignerSteps == Send \/ GiveUp \/ Track \/ (\E t \in DOMAIN sends : Settle(t) \/ OperatorSettles(t))
SafeSteps ==
  \/ ProposeToSafe \/ ProposalLost
  \/ \E n \in DOMAIN uploads : OwnersExecute(n) \/ OwnersReplace(n) \/ ReplacementGone(n)
  \/ \E w \in Worker : TrackProposal(w) \/ closeUnexecutable(w) \/ (\E p \in DOMAIN proposals : AskStatus(w, p))
MoveSteps ==
  \/ ResubmitHere \/ RequestMove \/ DropStaleRequest
  \/ ReadRequest \/ Waits \/ AskReceipts \/ SearchContracts \/ ApplyMove \/ AnchorOnNew

SafeMovesNext == ChainSteps \/ SignerSteps \/ SafeSteps \/ MoveSteps
SafeMovesSpec == SafeMovesInit /\ [][SafeMovesNext]_safeMoveVars

----------------------------------------------------------------------------
\* A batch that was moved is not anchored on both chains by anything the worker
\* sent or has on file as proposed: only by another holder of the role, or by
\* an upload whose record was lost, which no search of the old chain can rule
\* out before it is executed (registry.ts:745, anchor-submitter.ts:2130).
KnownTxs == DOMAIN sends \cup {t \in DOMAIN txs : \E p \in DOMAIN proposals : proposals[p].upload = txs[t].nonce}
NotAnchoredTwice == onNew => Storing \cap KnownTxs = {}
=============================================================================
