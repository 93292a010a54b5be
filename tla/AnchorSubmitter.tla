--------------------------- MODULE AnchorSubmitter ---------------------------
(***************************************************************************)
(* apps/anchor-worker/src/anchor-submitter.ts: the workers that put the    *)
(* batches of one chain on it and follow them, on the path where the       *)
(* worker signs (EOA).  Each worker handles one row at a time inside one   *)
(* database transaction that holds the row lock; a submission also holds   *)
(* the chain's spend lock until it commits.  What a database transaction   *)
(* writes appears at its commit; what it does to the network and to the    *)
(* send ledger (its own connection) does not wait for it.  So a worker's   *)
(* step is split wherever another actor's step, a reorg or a crash between *)
(* two of its effects, or between a read and its use, makes a difference.  *)
(*                                                                         *)
(* Left out: last_error and the retry clocks (a retry that is due may      *)
(* happen, or not), contract_address (one contract), gas amounts (a send   *)
(* reserves and costs one unit; fee quotes and the fee cap only delay).    *)
(***************************************************************************)
EXTENDS AnchorChain

CONSTANTS
    Worker,       \* processes running the loop of main.ts on this chain
    Depth,        \* ANCHOR_CONFIRMATIONS
    MaxAttempts,  \* ANCHOR_MAX_ATTEMPTS
    DailyCap      \* ANCHOR_DAILY_SPEND_CAP_WEI, in sends

ASSUME SubmitterAssumption ==
    /\ Depth \in Nat \ {0}
    /\ MaxAttempts \in Nat
    /\ DailyCap \in Nat

VARIABLES
    rows,         \* chain.transactions
    ledger,       \* chain.anchor_sends: state of each send
    gas,          \* chain.gas_spend: hashes with a recorded receipt
    gasToday,     \* those recorded since UTC midnight
    reorgEvents,  \* chain.reorg_events: <<row, block>> observations overturned
    worker        \* what each process is in the middle of

dbVars == <<rows, ledger, gas, gasToday, reorgEvents>>
vars == <<blocks, chain, finalized, broadcast, dbVars, worker>>

NoBlock == [height |-> 0, hash |-> 0]

Tracked == {"submitted", "included", "confirmed"}
Resubmittable == {"dropped", "reconciliation_required", "failed", "reverted"}
RowState == {"created"} \cup Tracked \cup Resubmittable

RowRecord == [state: RowState, attempts: Nat, hash: Tx \cup {NoTx},
              block: [height: Nat, hash: Nat],
              watched: BOOLEAN,   \* confirmed and before its reorg_watch_until
              searching: BOOLEAN, \* chain_search_failed_since is set
              retry: BOOLEAN]     \* retry_after is set

NewRow == [state |-> "created", attempts |-> 0, hash |-> NoTx, block |-> NoBlock,
           watched |-> FALSE, searching |-> FALSE, retry |-> FALSE]

Idle == [pc |-> "idle"]
Pending == [kind |-> "pending"]
Unknown == [kind |-> "unknown"]
Receipt(n) == [kind |-> "receipt", ok |-> blocks[chain[n]].ok,
               block |-> [height |-> n, hash |-> chain[n]]]

Init ==
    /\ ChainInit
    /\ rows = [r \in Row |-> NewRow]
    /\ ledger = [s \in Send |-> "none"]
    /\ gas = {} /\ gasToday = {}
    /\ reorgEvents = {}
    /\ worker = [w \in Worker |-> Idle]

-----------------------------------------------------------------------------
(* Locks: FOR NO KEY UPDATE SKIP LOCKED on the row, and the advisory lock   *)
(* of the chain's spend, each held to the end of the worker's transaction.  *)

RowHolders == {"reading", "admitted", "signed", "sent", "observed"}
SpendHolders == {"reading", "admitted", "signed", "sent"}

RowFree(r) == \A w \in Worker : worker[w].pc \in RowHolders => worker[w].row # r
SpendFree == \A w \in Worker : worker[w].pc \notin SpendHolders

\* clearFailedSearch: a search answered, or a decision ended its episode.
Searched(row) == [row EXCEPT !.searching = FALSE, !.retry = FALSE]

SetRow(r, new) == rows' = [rows EXCEPT ![r] = new]
SetWorker(w, new) == worker' = [worker EXCEPT ![w] = new]

-----------------------------------------------------------------------------
(* Admission (checkSubmitAllowed) over the two ledgers.  Each is read by a *)
(* statement of its own: what another connection commits in between is     *)
(* seen by the second and not by the first.                                *)

OpenSends == {s \in Send : ledger[s] = "open" /\ s \notin gas}

InFlight_None == 0
InFlight == Cardinality(OpenSends)

\* The start of submitPending: the spend lock, then spentTodayWei.
ReadSpent(w, r) ==
    /\ worker[w] = Idle
    /\ rows[r].state = "created"
    /\ RowFree(r)
    /\ SpendFree
    /\ SetWorker(w, [pc |-> "reading", row |-> r, spent |-> Cardinality(gasToday)])
    /\ UNCHANGED <<chainVars, dbVars>>

HasRoom(spent) == spent + InFlight + 1 =< DailyCap

\* inFlightSends and the guard.  DAILY_SPEND_CAP_REACHED leaves the row as it
\* is; MAX_ATTEMPTS_REACHED is the only refusal that ends it.
Admit(w) ==
    LET r == worker[w].row
        exhausted == rows[r].attempts >= MaxAttempts
    IN
    /\ worker[w].pc = "reading"
    /\ \/ /\ HasRoom(worker[w].spent)
          /\ ~exhausted
          /\ SetWorker(w, [pc |-> "admitted", row |-> r])
          /\ UNCHANGED rows
       \/ /\ HasRoom(worker[w].spent)
          /\ exhausted
          /\ SetRow(r, [rows[r] EXCEPT !.state = "failed"])
          /\ SetWorker(w, Idle)
       \/ /\ ~HasRoom(worker[w].spent)
          /\ SetWorker(w, Idle)
          /\ UNCHANGED rows
    /\ UNCHANGED <<chainVars, ledger, gas, gasToday, reorgEvents>>

-----------------------------------------------------------------------------
(* A failed chain search keeps the row, until searches have failed for too  *)
(* long since the first failure.                                            *)

SearchFailed(r) ==
    {[rows[r] EXCEPT !.searching = TRUE, !.retry = TRUE]} \cup
    {new \in {Searched([rows[r] EXCEPT !.state = "reconciliation_required"])} :
        rows[r].searching}

\* The row a worker may send for, once admitted.
Admitted(w, r) == worker[w].pc = "admitted" /\ worker[w].row = r

\* reconcileBeforeSend, when the contract cannot be searched.
ReconcileFails(w, r) ==
    /\ Admitted(w, r)
    /\ \E new \in SearchFailed(r) : SetRow(r, new)
    /\ SetWorker(w, Idle)
    /\ UNCHANGED <<chainVars, ledger, gas, gasToday, reorgEvents>>

\* The transaction that stored the batch, if it can be adopted: it carries
\* our root.
Adopted(r) == {TxAt(n) : n \in {m \in StoredAt(r) : RootOf(TxAt(m)) = "ours"}}

\* reconcileBeforeSend, when the batch is already on chain: its transaction
\* is adopted if it carries our root and its log is found; otherwise a
\* person decides.
Reconcile(w, r) ==
    /\ Admitted(w, r)
    /\ StoredAt(r) # {}
    /\ \/ \E tx \in Adopted(r) :
             SetRow(r, Searched([rows[r] EXCEPT !.state = "submitted", !.hash = tx]))
       \/ SetRow(r, Searched([rows[r] EXCEPT !.state = "reconciliation_required"]))
    /\ SetWorker(w, Idle)
    /\ UNCHANGED <<chainVars, ledger, gas, gasToday, reorgEvents>>

\* The batch is not on chain, but simulating, signing or recording the send
\* in the ledger fails: an attempt is counted and nothing is broadcast.
PrepareFails(w, r) ==
    /\ Admitted(w, r)
    /\ StoredAt(r) = {}
    /\ SetRow(r, Searched([rows[r] EXCEPT !.attempts = @ + 1]))
    /\ SetWorker(w, Idle)
    /\ UNCHANGED <<chainVars, ledger, gas, gasToday, reorgEvents>>

RecordSend_Late(s) == ledger
RecordSend(s) == [ledger EXCEPT ![s] = IF @ = "none" THEN "open" ELSE @]

\* prepareSubmitRoot and recordSend: signed, and in the ledger on a
\* connection of its own before it can reach the network.
Sign(w, s) ==
    /\ Admitted(w, s.row)
    /\ StoredAt(s.row) = {}
    /\ PendingNonce(s.nonce)
    /\ ledger' = RecordSend(s)
    /\ SetWorker(w, [pc |-> "signed", row |-> s.row, tx |-> s])
    /\ UNCHANGED <<chainVars, rows, gas, gasToday, reorgEvents>>

\* broadcast: the network may have the transaction although the answer was
\* lost, and refuses a nonce already used.
Broadcast(w, reached, answered) ==
    /\ worker[w].pc = "signed"
    /\ answered => reached
    /\ reached => worker[w].tx.nonce >= NonceAfter(HeadBlock)
    /\ broadcast' = broadcast \cup {s \in {worker[w].tx} : reached}
    /\ SetWorker(w, [pc |-> "sent", row |-> worker[w].row, tx |-> worker[w].tx,
                     ok |-> answered])
    /\ UNCHANGED <<blocks, chain, finalized, dbVars>>

\* The end of submitPending: submitted with the hash, or still created.
CommitSend(w) ==
    LET r == worker[w].row
        counted == Searched([rows[r] EXCEPT !.attempts = @ + 1])
    IN
    /\ worker[w].pc = "sent"
    /\ SetRow(r, IF worker[w].ok
                 THEN [counted EXCEPT !.state = "submitted", !.hash = worker[w].tx]
                 ELSE counted)
    /\ SetWorker(w, Idle)
    /\ UNCHANGED <<chainVars, ledger, gas, gasToday, reorgEvents>>

-----------------------------------------------------------------------------
(* Recording a receipt: the gas ledger keeps the first record of a hash,    *)
(* and the send it belongs to is settled.                                   *)

SettledByReceipt(tx) == [s \in Send |-> IF s = tx /\ ledger[s] = "open"
                                        THEN "receipt" ELSE ledger[s]]

RecordReceipt(tx) ==
    /\ gas' = gas \cup {tx}
    /\ gasToday' = IF tx \in gas THEN gasToday ELSE gasToday \cup {tx}
    /\ ledger' = SettledByReceipt(tx)

\* stillRechecked: a confirmed row is asked about while it is watched, and
\* after that until the read that failed last has been repeated.
StillRechecked(r) ==
    rows[r].state = "confirmed" => rows[r].watched \/ rows[r].searching \/ rows[r].retry

\* trackPending, first half: what the node says of the row's transaction.
Observe(w, r) ==
    /\ worker[w] = Idle
    /\ rows[r].state \in Tracked
    /\ StillRechecked(r)
    /\ RowFree(r)
    /\ \E obs \in IF MinedAt(rows[r].hash) = {} THEN {Pending, Unknown}
                  ELSE {Receipt(n) : n \in MinedAt(rows[r].hash)} :
          SetWorker(w, [pc |-> "observed", row |-> r, obs |-> obs, head |-> HeadBlock])
    /\ UNCHANGED <<chainVars, dbVars>>

Observed(w, kind) == worker[w].pc = "observed" /\ worker[w].obs.kind = kind

DeepEnough(head, height) == head - height + 1 >= Depth
Final(head, height) == DeepEnough(head, height) /\ height =< finalized

\* A block seen earlier is gone when the same transaction shows up elsewhere.
Overturned(r, block) ==
    reorgEvents \cup {e \in {<<r, rows[r].block.hash>>} :
                        rows[r].block # NoBlock /\ rows[r].block.hash # block.hash}

\* trackPending on a successful receipt: the final head is read now, after
\* the observation.
TrackIncluded(w) ==
    /\ Observed(w, "receipt")
    /\ LET r == worker[w].row
           block == worker[w].obs.block
           state == IF Final(worker[w].head, block.height) THEN "confirmed" ELSE "included"
           same == rows[r].state = state /\ rows[r].block.hash = block.hash
       IN  /\ worker[w].obs.ok
           /\ RecordReceipt(rows[r].hash)
           /\ reorgEvents' = Overturned(r, block)
           /\ SetRow(r, Searched(
                IF same THEN rows[r]
                ELSE [rows[r] EXCEPT !.state = state, !.block = block,
                                     !.watched = (state = "confirmed")]))
           /\ SetWorker(w, Idle)
           /\ UNCHANGED chainVars

\* The finality tag cannot be read: the cost is recorded, the row waits.
\* The retry it schedules keeps a confirmed row claimed past its watch.
FinalityUnavailable(w) ==
    /\ Observed(w, "receipt")
    /\ worker[w].obs.ok
    /\ RecordReceipt(rows[worker[w].row].hash)
    /\ SetRow(worker[w].row, [Searched(rows[worker[w].row]) EXCEPT !.retry = TRUE])
    /\ SetWorker(w, Idle)
    /\ UNCHANGED <<chainVars, reorgEvents>>

\* Another transaction stored our root for the batch: the one to follow.
AnchoringTx(r) == Adopted(r) \ {rows[r].hash}

Follow_KeepsBlock(row, tx) == [row EXCEPT !.state = "submitted", !.hash = tx,
                                          !.watched = FALSE]
Follow(row, tx) == [row EXCEPT !.state = "submitted", !.hash = tx,
                               !.block = NoBlock, !.watched = FALSE]

\* trackPending on a reverted receipt: a duplicate is followed, a failed
\* search waits, and anything else (nothing found) is a revert.
TrackReverted(w) ==
    /\ Observed(w, "receipt")
    /\ ~worker[w].obs.ok
    /\ LET r == worker[w].row IN
       /\ RecordReceipt(rows[r].hash)
       /\ \/ \E tx \in AnchoringTx(r) : SetRow(r, Searched(Follow(rows[r], tx)))
          \/ \E new \in SearchFailed(r) : SetRow(r, new)
          \/ SetRow(r, Searched([rows[r] EXCEPT !.state = "reverted", !.watched = FALSE,
                                   !.block = worker[w].obs.block]))
    /\ SetWorker(w, Idle)
    /\ UNCHANGED <<chainVars, reorgEvents>>

\* trackPending when no block holds the transaction: what was seen mined is
\* overturned; what never was is dropped once the node stops knowing it.
TrackUnmined(w) ==
    /\ worker[w].pc = "observed" /\ worker[w].obs.kind # "receipt"
    /\ LET r == worker[w].row
           unknown == worker[w].obs.kind = "unknown"
       IN  IF rows[r].state = "submitted"
           THEN /\ unknown
                /\ SetRow(r, Searched([rows[r] EXCEPT !.state = "dropped"]))
                /\ UNCHANGED reorgEvents
           ELSE /\ reorgEvents' = Overturned(r, NoBlock)
                /\ LET gone == [rows[r] EXCEPT !.block = NoBlock, !.watched = FALSE]
                   IN  SetRow(r, IF unknown
                          THEN Searched([gone EXCEPT !.state = "reconciliation_required"])
                          ELSE [gone EXCEPT !.state = "submitted"])
    /\ SetWorker(w, Idle)
    /\ UNCHANGED <<chainVars, ledger, gas, gasToday>>

-----------------------------------------------------------------------------
(* settleSends: the signer's nonce at a block deep enough and final is read *)
(* first, the receipt of the send afterwards.                               *)

SettledDepth_Head == HeadBlock
SettledDepth ==
    LET atDepth == HeadBlock - Depth + 1
    IN  IF atDepth < finalized THEN atDepth ELSE finalized

\* takenBelow when the head, the finality tag or the nonce could not be read.
Unread == 0

SettleRead(w, s) ==
    /\ worker[w] = Idle
    /\ ledger[s] = "open"
    /\ \E taken \in {Unread} \cup {NonceAfter(n) : n \in {SettledDepth} \cap Nat} :
          SetWorker(w, [pc |-> "settling", tx |-> s, taken |-> taken])
    /\ UNCHANGED <<chainVars, dbVars>>

IsConsumed_OffByOne(s, taken) == s.nonce + 1 < taken
IsConsumed(s, taken) == s.nonce < taken

Settle(w) ==
    LET s == worker[w].tx IN
    /\ worker[w].pc = "settling"
    /\ IF MinedAt(s) # {} THEN RecordReceipt(s)
       ELSE /\ ledger' = IF IsConsumed(s, worker[w].taken) /\ ledger[s] = "open"
                         THEN [ledger EXCEPT ![s] = "nonce_consumed"] ELSE ledger
            /\ UNCHANGED <<gas, gasToday>>
    /\ SetWorker(w, Idle)
    /\ UNCHANGED <<chainVars, rows, reorgEvents>>

-----------------------------------------------------------------------------
(* A crash, or any failed read before the row is written: the database     *)
(* transaction rolls back; the network and the send ledger do not.  Also a *)
(* pass that leaves the row as it is (nothing mined yet).                  *)

Crash(w) ==
    /\ worker[w] # Idle
    /\ SetWorker(w, Idle)
    /\ UNCHANGED <<chainVars, dbVars>>

\* POST /anchor-batches/:id/resubmit, on the row's own chain.
Resubmit(r) ==
    /\ rows[r].state \in Resubmittable
    /\ RowFree(r)
    /\ SetRow(r, NewRow)
    /\ UNCHANGED <<chainVars, ledger, gas, gasToday, reorgEvents, worker>>

\* reorg_watch_until passes.
WatchEnds(r) ==
    /\ rows[r].watched
    /\ SetRow(r, [rows[r] EXCEPT !.watched = FALSE])
    /\ UNCHANGED <<chainVars, ledger, gas, gasToday, reorgEvents, worker>>

\* UTC midnight: what was spent before no longer counts.
NewDay ==
    /\ gasToday # {}
    /\ gasToday' = {}
    /\ UNCHANGED <<chainVars, rows, ledger, gas, reorgEvents, worker>>

SubmitPending(w) ==
    \/ \E r \in Row : \/ ReadSpent(w, r)
                      \/ ReconcileFails(w, r)
                      \/ Reconcile(w, r)
                      \/ PrepareFails(w, r)
    \/ Admit(w)
    \/ \E s \in Send : Sign(w, s)
    \/ \E reached, answered \in BOOLEAN : Broadcast(w, reached, answered)
    \/ CommitSend(w)

Track(w) == TrackIncluded(w) \/ FinalityUnavailable(w) \/ TrackReverted(w) \/ TrackUnmined(w)

SettleSends(w) == Settle(w) \/ \E s \in Send : SettleRead(w, s)

WorkerNext(w) ==
    \/ SubmitPending(w)
    \/ \E r \in Row : Observe(w, r)
    \/ Track(w)
    \/ SettleSends(w)
    \/ Crash(w)

Environment ==
    \/ ChainNext /\ UNCHANGED <<dbVars, worker>>
    \/ \E r \in Row : Resubmit(r) \/ WatchEnds(r)
    \/ NewDay

Next == Environment \/ \E w \in Worker : WorkerNext(w)

Spec == Init /\ [][Next]_vars

(***************************************************************************)
(* Fairness of one worker's loop (main.ts): a step it started ends, and    *)
(* each open send and each row it claims is reached again and again, the   *)
(* node answering and no crash coming in between infinitely often.         *)
(* Nothing is assumed of the chain, of the calendar or of people.          *)
(***************************************************************************)
SettlesWithNonce(w, s) == Settle(w) /\ worker[w].tx = s /\ worker[w].taken # Unread

TracksWithAnswers(w) ==
    \/ TrackIncluded(w) \/ TrackUnmined(w)
    \/ TrackReverted(w) /\ ~rows'[worker[w].row].searching

Fairness ==
    \A w \in Worker :
        /\ WF_vars(worker[w] # Idle /\ WorkerNext(w))
        /\ SF_vars(TracksWithAnswers(w))
        /\ \A r \in Row : SF_vars(Observe(w, r))
        /\ \A s \in Send :
              /\ SF_vars(SettleRead(w, s) /\ worker'[w].taken # Unread)
              /\ SF_vars(SettlesWithNonce(w, s))

LiveSpec == Spec /\ Fairness

-----------------------------------------------------------------------------

TypeOK ==
    /\ ChainTypeOK
    /\ rows \in [Row -> RowRecord]
    /\ ledger \in [Send -> {"none", "open", "receipt", "nonce_consumed"}]
    /\ gas \in SUBSET Tx
    /\ gasToday \in SUBSET gas
    /\ reorgEvents \in SUBSET (Row \X (1..Len(blocks)))
    /\ DOMAIN worker = Worker

(***************************************************************************)
(* deployment.md: "A send lost between broadcast and the ledger cannot     *)
(* happen": whatever crashes, a transaction the network holds is in        *)
(* chain.anchor_sends.                                                     *)
(***************************************************************************)
LedgerBeforeNetwork == \A s \in broadcast : ledger[s] # "none"

(***************************************************************************)
(* A settled send can cost nothing more than the gas ledger holds: one     *)
(* released because its nonce was taken is not mined, and the block that   *)
(* took its nonce can no longer be replaced.  The order of the two reads   *)
(* of settleSend and the depth of the nonce read are what make it so.      *)
(***************************************************************************)
ReleasedNeverMined ==
    \A s \in Send : ledger[s] = "nonce_consumed" =>
        /\ MinedAt(s) = {}
        /\ \E n \in 1..finalized : /\ IsSend(TxAt(n)) /\ TxAt(n) # s
                                   /\ TxAt(n).nonce = s.nonce

\* Every mined transaction of the signer is counted: at its cost once the
\* receipt is recorded, at its reservation until then.
CostsAccounted == \A s \in Send : MinedAt(s) # {} => s \in gas \/ ledger[s] = "open"

\* What settlement wrote down is what the chain did: no cost is lost, whether the receipt came
\* or the nonce went to another transaction.
SettledAsMined == ReleasedNeverMined /\ CostsAccounted

(***************************************************************************)
(* The daily cap bounds what a day can cost: the sends whose receipts were *)
(* recorded today and those that can still be mined never exceed it.       *)
(***************************************************************************)
SpendWithinCap == Cardinality((gasToday \cap Send) \cup OpenSends) =< DailyCap

(***************************************************************************)
(* What the public proof shows for a row: a row with a block names the     *)
(* transaction of its own batch and root that this very block executed.    *)
(* The row may change its hash (adoption, following a duplicate) and its   *)
(* block (reorgs), never to a pair that did not exist.                     *)
(***************************************************************************)
ProofNamesRealAnchor ==
    /\ TypeOK
    /\ \A r \in Row :
        /\ rows[r].hash # NoTx => rows[r].hash.row = r /\ RootOf(rows[r].hash) = "ours"
        /\ rows[r].block # NoBlock =>
              /\ blocks[rows[r].block.hash].tx = rows[r].hash
              /\ blocks[rows[r].block.hash].ok <=> rows[r].state # "reverted"

(***************************************************************************)
(* Every reservation ends: a send whose nonce is taken for good, by itself *)
(* or by another, does not hold the cap closed forever.                    *)
(***************************************************************************)
NonceTaken(s) == SettledDepth >= 1 /\ s.nonce < NonceAfter(SettledDepth)

ReservationsEnd == \A s \in Send : (ledger[s] = "open" /\ NonceTaken(s)) ~> ledger[s] # "open"

(***************************************************************************)
(* A confirmation that a reorg undid is noticed while the row is watched,  *)
(* and past its watch too when the last read of it failed.                 *)
(***************************************************************************)
Stale(r) == /\ rows[r].state = "confirmed"
            /\ rows[r].block.hash \notin {chain[n] : n \in 1..HeadBlock}

StaleNoticed ==
    \A r \in Row : (Stale(r) /\ (rows[r].watched \/ rows[r].retry))
                      ~> (~Stale(r) \/ ~(rows[r].watched \/ rows[r].retry))

\* The tracker comes round to everything it left open.
OpenIsSettled == ReservationsEnd /\ StaleNoticed

=============================================================================
