------------------------ MODULE AnchorSubmitterProofs ------------------------
(***************************************************************************)
(* Proofs about AnchorSubmitter, for any number of rows, workers, nonces,  *)
(* quotes, outsiders and blocks: the send ledger is ahead of the network,  *)
(* a row with a block names a transaction that block executed, and what    *)
(* settlement writes down is what the chain did.                           *)
(***************************************************************************)
EXTENDS AnchorSubmitter, SequenceTheorems, FiniteSetTheorems, TLAPS

LedgerState == {"none", "open", "receipt", "nonce_consumed"}

\* What a worker holds signed is in the ledger although nothing has been
\* broadcast yet: LedgerBeforeNetwork alone does not survive Broadcast.
SignedInLedger ==
    \A w \in Worker : worker[w].pc \in {"signed", "sent"} =>
        worker[w].tx \in Send /\ ledger[worker[w].tx] # "none"

LedgerInv ==
    /\ ledger \in [Send -> LedgerState]
    /\ DOMAIN worker = Worker
    /\ broadcast \in SUBSET Send
    /\ SignedInLedger
    /\ LedgerBeforeNetwork

\* No step takes a send out of the ledger.
LedgerGrows ==
    /\ ledger' \in [Send -> LedgerState]
    /\ \A s \in Send : ledger[s] # "none" => ledger'[s] # "none"

LEMMA ReceiptKeepsSends ==
    ASSUME ledger \in [Send -> LedgerState], NEW tx, RecordReceipt(tx)
    PROVE  LedgerGrows
  BY DEF LedgerState, LedgerGrows, RecordReceipt, SettledByReceipt

\* A step that does not sign or broadcast cannot break the invariant.
LEMMA QuietStep ==
    ASSUME LedgerInv, LedgerGrows, UNCHANGED broadcast,
           DOMAIN worker' = Worker,
           \A w \in Worker : worker'[w].pc \in {"signed", "sent"} =>
               worker[w].pc \in {"signed", "sent"} /\ worker'[w].tx = worker[w].tx
    PROVE  LedgerInv'
  <1>1. SignedInLedger'
    BY DEF LedgerInv, LedgerGrows, SignedInLedger
  <1>2. LedgerBeforeNetwork'
    BY DEF LedgerInv, LedgerGrows, LedgerBeforeNetwork
  <1> QED BY <1>1, <1>2 DEF LedgerInv, LedgerGrows

\* A worker goes on to a state in which it holds nothing signed.
LEMMA WorkerStep ==
    ASSUME LedgerInv, LedgerGrows \/ UNCHANGED ledger, UNCHANGED broadcast,
           NEW w \in Worker, NEW new, new.pc \notin {"signed", "sent"},
           SetWorker(w, new)
    PROVE  LedgerInv'
  <1>1. LedgerGrows
    BY DEF LedgerInv, LedgerGrows
  <1> QED BY <1>1, QuietStep DEF LedgerInv, SetWorker

LEMMA LedgerInit == Init => LedgerInv
  BY DEF Init, ChainInit, LedgerInv, LedgerState, SignedInLedger,
         LedgerBeforeNetwork, Idle

LEMMA LedgerEnvironment == ASSUME LedgerInv, Environment PROVE LedgerInv'
  <1>1. UNCHANGED <<ledger, worker>>
    BY DEF Environment, dbVars, Resubmit, WatchEnds, NewDay
  <1>2. UNCHANGED broadcast
    BY DEF Environment, ChainNext, MineSend, MineOutsider, MineEmpty, Produce,
           Finalize, Reorg, Resubmit, WatchEnds, NewDay, chainVars
  <1> QED BY <1>1, <1>2, QuietStep DEF LedgerInv, LedgerGrows

LEMMA LedgerWorker ==
    ASSUME LedgerInv, NEW w \in Worker, WorkerNext(w)
    PROVE  LedgerInv'
  <1> USE DEF Idle
  <1>0. ledger \in [Send -> LedgerState] /\ DOMAIN worker = Worker
    BY DEF LedgerInv
  <1>1. ASSUME NEW r \in Row, ReadSpent(w, r) PROVE LedgerInv'
    <2>1. UNCHANGED <<ledger, broadcast>>
      BY <1>1 DEF ReadSpent, chainVars, dbVars
    <2>2. SetWorker(w, [pc |-> "reading", row |-> r, spent |-> Cardinality(gasToday)])
      BY <1>1 DEF ReadSpent
    <2> QED BY <2>1, <2>2, WorkerStep
  <1>2. ASSUME Admit(w) PROVE LedgerInv'
    <2>1. UNCHANGED <<ledger, broadcast>>
      BY <1>2 DEF Admit, chainVars
    <2>2. \/ SetWorker(w, [pc |-> "admitted", row |-> worker[w].row])
          \/ SetWorker(w, Idle)
      BY <1>2 DEF Admit
    <2> QED BY <2>1, <2>2, WorkerStep
  <1>3. ASSUME NEW r \in Row, ReconcileFails(w, r) \/ Reconcile(w, r) \/ PrepareFails(w, r)
        PROVE  LedgerInv'
    <2>1. UNCHANGED <<ledger, broadcast>> /\ SetWorker(w, Idle)
      BY <1>3 DEF ReconcileFails, Reconcile, PrepareFails, chainVars
    <2> QED BY <2>1, WorkerStep
  <1>4. ASSUME NEW s \in Send, Sign(w, s) PROVE LedgerInv'
    <2>1. LedgerGrows /\ ledger'[s] # "none"
      BY <1>0, <1>4 DEF Sign, RecordSend, LedgerGrows, LedgerState
    <2>2. worker' = [worker EXCEPT ![w] = [pc |-> "signed", row |-> s.row, tx |-> s]]
      BY <1>4 DEF Sign, SetWorker
    <2>3. SignedInLedger'
      BY <1>0, <2>1, <2>2 DEF LedgerInv, SignedInLedger, LedgerGrows
    <2>4. LedgerBeforeNetwork' /\ broadcast' = broadcast
      BY <1>4, <2>1 DEF Sign, chainVars, LedgerInv, LedgerGrows, LedgerBeforeNetwork
    <2> QED BY <1>0, <2>1, <2>2, <2>3, <2>4 DEF LedgerInv, LedgerGrows
  <1>5. ASSUME NEW reached \in BOOLEAN, NEW answered \in BOOLEAN,
               Broadcast(w, reached, answered)
        PROVE  LedgerInv'
    <2>1. worker[w].tx \in Send /\ ledger[worker[w].tx] # "none"
      BY <1>5 DEF LedgerInv, SignedInLedger, Broadcast
    <2>2. ledger' = ledger
      BY <1>5 DEF Broadcast, dbVars
    <2>3. LedgerBeforeNetwork' /\ broadcast' \in SUBSET Send
      BY <1>5, <2>1, <2>2 DEF Broadcast, LedgerInv, LedgerBeforeNetwork
    <2>4. worker' = [worker EXCEPT ![w] = [pc |-> "sent", row |-> worker[w].row,
                                           tx |-> worker[w].tx, ok |-> answered]]
      BY <1>5 DEF Broadcast, SetWorker
    <2>5. SignedInLedger'
      BY <1>0, <2>1, <2>2, <2>4 DEF LedgerInv, SignedInLedger
    <2> QED BY <1>0, <2>2, <2>3, <2>4, <2>5 DEF LedgerInv
  <1>6. ASSUME CommitSend(w) \/ TrackUnmined(w) \/ Crash(w) PROVE LedgerInv'
    <2>1. UNCHANGED <<ledger, broadcast>> /\ SetWorker(w, Idle)
      BY <1>6 DEF CommitSend, TrackUnmined, Crash, chainVars, dbVars
    <2> QED BY <2>1, WorkerStep
  <1>7. ASSUME NEW r \in Row, Observe(w, r) PROVE LedgerInv'
    <2>1. UNCHANGED <<ledger, broadcast>>
      BY <1>7 DEF Observe, chainVars, dbVars
    <2>2. PICK obs : SetWorker(w, [pc |-> "observed", row |-> r, obs |-> obs,
                                   head |-> HeadBlock])
      BY <1>7 DEF Observe
    <2> QED BY <2>1, <2>2, WorkerStep
  <1>8. ASSUME TrackIncluded(w) \/ FinalityUnavailable(w) \/ TrackReverted(w)
        PROVE  LedgerInv'
    <2>1. RecordReceipt(rows[worker[w].row].hash)
      BY <1>8 DEF TrackIncluded, FinalityUnavailable, TrackReverted
    <2>2. UNCHANGED broadcast /\ SetWorker(w, Idle)
      BY <1>8 DEF TrackIncluded, FinalityUnavailable, TrackReverted, chainVars
    <2> QED BY <1>0, <2>1, <2>2, ReceiptKeepsSends, WorkerStep
  <1>9. ASSUME NEW s \in Send, SettleRead(w, s) PROVE LedgerInv'
    <2>1. UNCHANGED <<ledger, broadcast>>
      BY <1>9 DEF SettleRead, chainVars, dbVars
    <2>2. PICK taken : SetWorker(w, [pc |-> "settling", tx |-> s, taken |-> taken])
      BY <1>9 DEF SettleRead
    <2> QED BY <2>1, <2>2, WorkerStep
  <1>10. ASSUME Settle(w) PROVE LedgerInv'
    <2>1. UNCHANGED broadcast /\ SetWorker(w, Idle)
      BY <1>10 DEF Settle, chainVars
    <2>2. \/ RecordReceipt(worker[w].tx)
          \/ UNCHANGED ledger
          \/ ledger' = [ledger EXCEPT ![worker[w].tx] = "nonce_consumed"]
      BY <1>10 DEF Settle
    <2>3. LedgerGrows \/ UNCHANGED ledger
      BY <1>0, <2>2, ReceiptKeepsSends DEF LedgerGrows, LedgerState
    <2> QED BY <2>1, <2>3, WorkerStep
  <1> QED
    BY <1>1, <1>2, <1>3, <1>4, <1>5, <1>6, <1>7, <1>8, <1>9, <1>10
       DEF WorkerNext, SubmitPending, Track, SettleSends

LEMMA LedgerStep == LedgerInv /\ [Next]_vars => LedgerInv'
  <1> SUFFICES ASSUME LedgerInv, [Next]_vars PROVE LedgerInv'
    OBVIOUS
  <1>1. CASE Next
    BY <1>1, LedgerEnvironment, LedgerWorker DEF Next
  <1>2. CASE UNCHANGED vars
    BY <1>2 DEF vars, dbVars, LedgerInv, SignedInLedger, LedgerBeforeNetwork
  <1> QED BY <1>1, <1>2

(***************************************************************************)
(* Whatever is lost, restarted or repeated, a transaction the network has  *)
(* is in chain.anchor_sends: recordSend commits before broadcast.          *)
(***************************************************************************)
THEOREM SendsAreLedgered == Spec => []LedgerBeforeNetwork
  <1>1. LedgerInv => LedgerBeforeNetwork
    BY DEF LedgerInv
  <1> QED BY LedgerInit, LedgerStep, <1>1, PTL DEF Spec

-----------------------------------------------------------------------------
(* Rows and the workers that hold them.                                     *)

\* What a row says of its batch and of the block it names, whatever it went through.
RowOK(r, row) ==
    /\ row \in RowRecord
    /\ row.hash # NoTx => row.hash.row = r /\ RootOf(row.hash) = "ours"
    /\ row.block # NoBlock =>
          /\ row.block.hash \in 1..Len(blocks)
          /\ blocks[row.block.hash].tx = row.hash
          /\ blocks[row.block.hash].ok <=> row.state # "reverted"
    /\ row.state \in Tracked => row.hash # NoTx
    /\ row.state = "created" => row.hash = NoTx /\ row.block = NoBlock

\* The receipt a worker has in hand: a block that really executed the row's transaction.
ReceiptOK(obs, hash) ==
    /\ obs.block \in [height: Nat, hash: 1..Len(blocks)]
    /\ blocks[obs.block.hash] = [tx |-> hash, ok |-> obs.ok]
    /\ obs.ok \in BOOLEAN

\* What a worker in state st knows of the row it has locked stays true until it commits.
WorkerOK(st) ==
    /\ st.pc \in RowHolders => st.row \in Row
    /\ st.pc \in SpendHolders => rows[st.row].state = "created"
    /\ st.pc \in {"signed", "sent"} => st.tx \in Send /\ st.tx.row = st.row
    /\ st.pc = "settling" => st.tx \in Send
    /\ st.pc = "observed" =>
          /\ rows[st.row].state \in Tracked
          /\ st.obs.kind = "receipt" => ReceiptOK(st.obs, rows[st.row].hash)

OneHolder ==
    \A v, w \in Worker : v # w /\ worker[v].pc \in RowHolders /\ worker[w].pc \in RowHolders
        => worker[v].row # worker[w].row

AnchorInv ==
    /\ TypeOK
    /\ \A r \in Row : RowOK(r, rows[r])
    /\ \A w \in Worker : WorkerOK(worker[w])
    /\ OneHolder

\* No block is ever forgotten or changed.
BlocksKept ==
    /\ Len(blocks) <= Len(blocks')
    /\ \A b \in 1..Len(blocks) : blocks'[b] = blocks[b]

LEMMA NoTxIsNone == NoTx \notin Tx /\ ~IsSend(NoTx)
  <1>1. DOMAIN NoTx = {"row"}
    BY DEF NoTx
  <1>2. \A s \in Send : "nonce" \in DOMAIN s
    BY DEF Send
  <1>3. \A o \in Outsiders : "root" \in DOMAIN o
    BY ChainAssumption
  <1> QED BY <1>1, <1>2, <1>3 DEF Tx, IsSend

LEMMA SendsAreOurs == \A s \in Send : IsSend(s) /\ RootOf(s) = "ours"
  BY DEF Send, IsSend, RootOf

LEMMA ProduceTyped ==
    ASSUME ChainTypeOK, NEW tx \in Tx \cup {NoTx}, NEW ok \in BOOLEAN, Produce(tx, ok)
    PROVE  /\ ChainTypeOK'
           /\ BlocksKept
           /\ Len(blocks') = Len(blocks) + 1
           /\ blocks'[Len(blocks) + 1] = [tx |-> tx, ok |-> ok]
           /\ Len(chain') = Len(chain) + 1
           /\ \A n \in 1..Len(chain) : chain'[n] = chain[n]
           /\ chain'[Len(chain) + 1] = Len(blocks) + 1
  <1> DEFINE new == [tx |-> tx, ok |-> ok]
  <1>1. new \in Block
    BY DEF Block
  <1>2. blocks \in Seq(Block) /\ blocks' = Append(blocks, new)
    BY DEF ChainTypeOK, Produce
  <1> HIDE DEF new
  <1>3. /\ blocks' \in Seq(Block)
        /\ Len(blocks') = Len(blocks) + 1
        /\ blocks'[Len(blocks) + 1] = new
        /\ \A b \in 1..Len(blocks) : blocks'[b] = blocks[b]
    BY <1>1, <1>2, AppendProperties
  <1>4. Len(blocks) \in Nat
    BY <1>2, LenProperties
  <1>5. /\ Len(blocks) + 1 \in 1..Len(blocks')
        /\ chain \in Seq(1..Len(blocks'))
    <2>1. chain \in Seq(1..Len(blocks)) /\ 1..Len(blocks) \subseteq 1..Len(blocks')
      BY <1>3, <1>4 DEF ChainTypeOK
    <2>2. \A S, T : S \subseteq T => Seq(S) \subseteq Seq(T)
      BY SeqMonotonic
    <2> QED BY <1>3, <1>4, <2>1, <2>2
  <1>6. chain' = Append(chain, Len(blocks) + 1)
    BY DEF Produce
  <1>7. /\ chain' \in Seq(1..Len(blocks'))
        /\ Len(chain') = Len(chain) + 1
        /\ chain'[Len(chain) + 1] = Len(blocks) + 1
        /\ \A n \in 1..Len(chain) : chain'[n] = chain[n]
    BY <1>5, <1>6, AppendProperties
  <1>8. finalized' \in 0..Len(chain') /\ broadcast' \in SUBSET Send
    BY <1>5, <1>7, LenProperties DEF ChainTypeOK, Produce
  <1> QED BY <1>3, <1>4, <1>7, <1>8 DEF ChainTypeOK, BlocksKept, new

LEMMA ReorgTyped ==
    ASSUME ChainTypeOK, NEW n, Reorg(n)
    PROVE  /\ ChainTypeOK'
           /\ BlocksKept
           /\ n \in finalized..Len(chain) /\ Len(chain') = n
           /\ \A m \in 1..n : chain'[m] = chain[m]
  <1>1. /\ chain \in Seq(1..Len(blocks))
        /\ n \in finalized..(Len(chain) - 1)
        /\ chain' = SubSeq(chain, 1, n)
        /\ UNCHANGED <<blocks, finalized, broadcast>>
    BY DEF ChainTypeOK, Reorg, HeadBlock
  <1>2. finalized \in Nat /\ Len(chain) \in Nat /\ n \in Nat /\ Len(blocks) \in Nat
    BY <1>1, LenProperties DEF ChainTypeOK
  <1>3. \A i \in 1..n : chain[i] \in 1..Len(blocks)
    BY <1>1, <1>2, ElementOfSeq
  <1>4. /\ chain' \in Seq(1..Len(blocks))
        /\ Len(chain') = IF 1 <= n THEN n - 1 + 1 ELSE 0
        /\ \A i \in 1..(n - 1 + 1) : chain'[i] = chain[1 + i - 1]
    BY <1>1, <1>2, <1>3, SubSeqProperties
  <1>5. Len(chain') = n /\ \A i \in 1..n : chain'[i] = chain[i]
    BY <1>2, <1>4
  <1> QED BY <1>1, <1>2, <1>4, <1>5 DEF ChainTypeOK, BlocksKept

LEMMA FinalizeTyped ==
    ASSUME ChainTypeOK, Finalize
    PROVE  ChainTypeOK' /\ BlocksKept
  <1>1. finalized \in 0..Len(chain) /\ Len(chain) \in Nat /\ Len(blocks) \in Nat
    BY LenProperties DEF ChainTypeOK
  <1>2. UNCHANGED <<blocks, chain, broadcast>> /\ finalized' = finalized + 1
        /\ finalized < Len(chain)
    BY DEF Finalize, HeadBlock
  <1> QED BY <1>1, <1>2 DEF ChainTypeOK, BlocksKept

LEMMA ChainStep ==
    ASSUME ChainTypeOK, ChainNext
    PROVE  ChainTypeOK' /\ BlocksKept
  <1>1. ASSUME NEW s \in Send, MineSend(s) PROVE ChainTypeOK' /\ BlocksKept
    BY <1>1, ProduceTyped DEF MineSend, Tx
  <1>2. ASSUME NEW o \in Outsiders, MineOutsider(o) PROVE ChainTypeOK' /\ BlocksKept
    <2>1. (StoredAt(o.row) = {}) \in BOOLEAN
      OBVIOUS
    <2> QED BY <1>2, <2>1, ProduceTyped DEF MineOutsider, Tx
  <1>3. CASE MineEmpty
    BY <1>3, ProduceTyped DEF MineEmpty
  <1> QED BY <1>1, <1>2, <1>3, FinalizeTyped, ReorgTyped DEF ChainNext

LedgersTyped ==
    /\ ledger \in [Send -> LedgerState]
    /\ gas \in SUBSET Tx
    /\ gasToday \in SUBSET gas
    /\ reorgEvents \in SUBSET (Row \X (1..Len(blocks)))

Free(w, r) == \A v \in Worker \ {w} : worker[v].pc \in RowHolders => worker[v].row # r

\* A row is rewritten by the one who holds it, or in what no holder depends on.
LEMMA RowSet ==
    ASSUME AnchorInv, UNCHANGED chainVars, LedgersTyped',
           NEW r \in Row, NEW new, RowOK(r, new), SetRow(r, new),
           DOMAIN worker' = Worker,
           \A v \in Worker :
             \/ worker'[v] = Idle
             \/ /\ worker'[v] = worker[v]
                /\ \/ worker[v].pc \in RowHolders => worker[v].row # r
                   \/ new.state = rows[r].state /\ new.hash = rows[r].hash
    PROVE  AnchorInv'
  <1>1. rows \in [Row -> RowRecord] /\ new \in RowRecord
    BY DEF AnchorInv, TypeOK, RowOK
  <1>2. /\ rows' \in [Row -> RowRecord] /\ rows'[r] = new
        /\ \A q \in Row : q # r => rows'[q] = rows[q]
    BY <1>1 DEF SetRow
  <1>3. TypeOK'
    BY <1>2 DEF AnchorInv, TypeOK, ChainTypeOK, chainVars, LedgersTyped, LedgerState
  <1>4. ASSUME NEW q \in Row PROVE RowOK(q, rows[q])'
    BY <1>2 DEF AnchorInv, RowOK, chainVars
  <1>5. ASSUME NEW v \in Worker PROVE WorkerOK(worker[v])'
    <2>1. CASE worker'[v] = Idle
      BY <2>1 DEF WorkerOK, Idle, RowHolders, SpendHolders
    <2>2. CASE /\ worker'[v] = worker[v]
               /\ \/ worker[v].pc \in RowHolders => worker[v].row # r
                  \/ new.state = rows[r].state /\ new.hash = rows[r].hash
      <3>1. worker'[v].pc \in RowHolders =>
              /\ worker[v].row \in Row
              /\ rows'[worker[v].row].state = rows[worker[v].row].state
              /\ rows'[worker[v].row].hash = rows[worker[v].row].hash
        BY <1>2, <2>2 DEF AnchorInv, WorkerOK
      <3>2. WorkerOK(worker[v]) /\ blocks' = blocks
        BY DEF AnchorInv, chainVars
      <3>3. \A pc : pc \in SpendHolders \cup {"observed"} => pc \in RowHolders
        BY DEF SpendHolders, RowHolders
      <3>4. worker[v].pc \in RowHolders => worker[v].row \in Row
        BY <3>2 DEF WorkerOK
      <3>5. worker[v].pc \in SpendHolders => rows'[worker[v].row].state = "created"
        BY <3>1, <3>2, <3>3, <2>2 DEF WorkerOK
      <3>6. worker[v].pc = "observed" =>
              /\ rows'[worker[v].row].state \in Tracked
              /\ worker[v].obs.kind = "receipt" =>
                    ReceiptOK(worker[v].obs, rows'[worker[v].row].hash)
        BY <3>1, <3>2, <3>3, <2>2 DEF WorkerOK
      <3> QED BY <2>2, <3>2, <3>4, <3>5, <3>6 DEF WorkerOK, ReceiptOK
    <2> QED BY <2>1, <2>2
  <1>6. OneHolder'
    BY DEF AnchorInv, OneHolder, Idle, RowHolders
  <1> QED BY <1>3, <1>4, <1>5, <1>6 DEF AnchorInv

\* The end of a transaction that rewrites the row it holds.
LEMMA RowCommit ==
    ASSUME AnchorInv, UNCHANGED chainVars, LedgersTyped',
           NEW w \in Worker, worker[w].pc \in RowHolders, SetWorker(w, Idle),
           NEW r, r = worker[w].row, NEW new, RowOK(r, new), SetRow(r, new)
    PROVE  AnchorInv'
  <1>1. r \in Row
    BY DEF AnchorInv, WorkerOK
  <1>2. DOMAIN worker' = Worker /\ worker'[w] = Idle
        /\ \A v \in Worker : v # w => worker'[v] = worker[v]
    BY DEF SetWorker, AnchorInv, TypeOK
  <1>3. \A v \in Worker : v # w /\ worker[v].pc \in RowHolders => worker[v].row # r
    BY DEF AnchorInv, OneHolder
  <1> QED BY <1>1, <1>2, <1>3, RowSet

\* A worker goes on, or ends its transaction, and the rows stay as they are.
LEMMA WorkerSet ==
    ASSUME AnchorInv, UNCHANGED <<blocks, chain, finalized, rows>>,
           broadcast' \in SUBSET Send, LedgersTyped',
           NEW w \in Worker, NEW st, SetWorker(w, st), WorkerOK(st),
           st.pc \in RowHolders => Free(w, st.row)
    PROVE  AnchorInv'
  <1>1. DOMAIN worker' = Worker /\ worker'[w] = st
        /\ \A v \in Worker : v # w => worker'[v] = worker[v]
    BY DEF SetWorker, AnchorInv, TypeOK
  <1>2. TypeOK'
    BY <1>1 DEF AnchorInv, TypeOK, ChainTypeOK, LedgersTyped, LedgerState
  <1>3. \A r \in Row : RowOK(r, rows[r])'
    BY DEF AnchorInv, RowOK
  <1>4. \A v \in Worker : WorkerOK(worker[v])'
    BY <1>1 DEF AnchorInv, WorkerOK, ReceiptOK
  <1>5. OneHolder'
    BY <1>1 DEF AnchorInv, OneHolder, Free
  <1> QED BY <1>2, <1>3, <1>4, <1>5 DEF AnchorInv

LEMMA LedgersStay ==
    ASSUME AnchorInv, UNCHANGED <<blocks, ledger, gas, reorgEvents>>, gasToday' \subseteq gasToday
    PROVE  LedgersTyped'
  BY DEF AnchorInv, TypeOK, LedgersTyped, LedgerState

LEMMA LedgersRecord ==
    ASSUME AnchorInv, UNCHANGED blocks, NEW tx \in Tx, RecordReceipt(tx),
           reorgEvents' \in SUBSET (Row \X (1..Len(blocks)))
    PROVE  LedgersTyped'
  BY DEF AnchorInv, TypeOK, LedgersTyped, LedgerState, RecordReceipt, SettledByReceipt

LEMMA SearchedOK ==
    ASSUME NEW r, NEW row, RowOK(r, row)
    PROVE  RowOK(r, Searched(row))
  BY DEF RowOK, Searched, RowRecord

LEMMA SearchFailedOK ==
    ASSUME AnchorInv, NEW r \in Row, rows[r].state # "reverted", NEW new \in SearchFailed(r)
    PROVE  RowOK(r, new)
  <1>1. RowOK(r, rows[r])
    BY DEF AnchorInv
  <1>2. ASSUME new = [rows[r] EXCEPT !.searching = TRUE, !.retry = TRUE]
        PROVE  RowOK(r, new)
    BY <1>1, <1>2 DEF RowOK, RowRecord
  <1>3. ASSUME NEW moved, moved = [rows[r] EXCEPT !.state = "reconciliation_required"]
        PROVE  RowOK(r, Searched(moved))
    <2>1. moved \in RowRecord /\ moved.state = "reconciliation_required"
          /\ moved.hash = rows[r].hash /\ moved.block = rows[r].block
      BY <1>1, <1>3 DEF RowOK, RowRecord, RowState, Resubmittable
    <2>2. RowOK(r, moved)
      BY <1>1, <2>1 DEF RowOK, Tracked
    <2> QED BY <2>2, SearchedOK
  <1> QED BY <1>2, <1>3 DEF SearchFailed

LEMMA AdoptedIsOurs ==
    ASSUME AnchorInv, NEW r, NEW tx \in Adopted(r)
    PROVE  tx \in Tx /\ tx # NoTx /\ tx.row = r /\ RootOf(tx) = "ours"
  <1>1. PICK n \in 1..Len(chain) : /\ tx = TxAt(n) /\ tx # NoTx /\ tx.row = r
                                   /\ RootOf(tx) = "ours"
    BY DEF Adopted, StoredAt, HeadBlock
  <1>2. chain \in Seq(1..Len(blocks)) /\ blocks \in Seq(Block)
    BY DEF AnchorInv, TypeOK, ChainTypeOK
  <1>3. blocks[chain[n]] \in Block
    BY <1>2, ElementOfSeq
  <1> QED BY <1>1, <1>3 DEF TxAt, Block

LEMMA AnchorStart == Init => AnchorInv
  <1> SUFFICES ASSUME Init PROVE AnchorInv
    OBVIOUS
  <1>1. NewRow \in RowRecord
    BY DEF NewRow, RowRecord, RowState, NoBlock
  <1>2. <<>> \in Seq(Block) /\ Len(<<>>) = 0
    BY EmptySeq
  <1>3. ChainTypeOK
    BY <1>2, EmptySeq DEF Init, ChainInit, ChainTypeOK
  <1>4. TypeOK
    BY <1>1, <1>3 DEF Init, TypeOK
  <1>5. \A r \in Row : RowOK(r, rows[r])
    BY <1>1 DEF Init, RowOK, NewRow, Tracked
  <1> QED BY <1>4, <1>5 DEF AnchorInv, Init, WorkerOK, OneHolder, Idle, RowHolders, SpendHolders

\* The chain moves under rows and workers: they name blocks, and blocks stay.
LEMMA ChainKeepsAnchor ==
    ASSUME AnchorInv, ChainNext, UNCHANGED <<dbVars, worker>>
    PROVE  AnchorInv'
  <1>1. ChainTypeOK' /\ BlocksKept
    BY ChainStep DEF AnchorInv, TypeOK
  <1>2. Len(blocks) \in Nat /\ Len(blocks') \in Nat
    BY <1>1, LenProperties DEF AnchorInv, TypeOK, ChainTypeOK
  <1>3. 1..Len(blocks) \subseteq 1..Len(blocks')
    BY <1>1, <1>2 DEF BlocksKept
  <1>4. TypeOK'
    BY <1>1, <1>3 DEF AnchorInv, TypeOK, dbVars
  <1>5. \A r \in Row : RowOK(r, rows[r])'
    BY <1>1, <1>3 DEF AnchorInv, RowOK, BlocksKept, dbVars
  <1>6. ASSUME NEW w \in Worker PROVE WorkerOK(worker[w])'
    <2>1. \A obs, hash : ReceiptOK(obs, hash) => ReceiptOK(obs, hash)'
      BY <1>1, <1>3 DEF ReceiptOK, BlocksKept
    <2> QED BY <2>1 DEF AnchorInv, WorkerOK, dbVars
  <1> QED BY <1>4, <1>5, <1>6 DEF AnchorInv, OneHolder

LEMMA AnchorEnvironment == ASSUME AnchorInv, Environment PROVE AnchorInv'
  <1>0. DOMAIN worker = Worker /\ \A r \in Row : RowOK(r, rows[r]) /\ rows[r] \in RowRecord
    BY DEF AnchorInv, TypeOK
  <1>1. CASE ChainNext /\ UNCHANGED <<dbVars, worker>>
    BY <1>1, ChainKeepsAnchor
  <1>2. ASSUME NEW r \in Row, Resubmit(r) PROVE AnchorInv'
    <2>1. RowOK(r, NewRow)
      BY DEF RowOK, NewRow, RowRecord, RowState, NoBlock, Tracked
    <2>2. UNCHANGED chainVars /\ LedgersTyped'
      BY <1>2, LedgersStay DEF Resubmit, chainVars
    <2>3. UNCHANGED worker /\ SetRow(r, NewRow)
          /\ \A v \in Worker : worker[v].pc \in RowHolders => worker[v].row # r
      BY <1>2 DEF Resubmit, RowFree
    <2> QED BY <1>0, <2>1, <2>2, <2>3, RowSet
  <1>3. ASSUME NEW r \in Row, WatchEnds(r) PROVE AnchorInv'
    <2> DEFINE new == [rows[r] EXCEPT !.watched = FALSE]
    <2>1. RowOK(r, new) /\ new.state = rows[r].state /\ new.hash = rows[r].hash
      BY <1>0 DEF RowOK, RowRecord
    <2>2. UNCHANGED chainVars /\ LedgersTyped'
      BY <1>3, LedgersStay DEF WatchEnds, chainVars
    <2>3. UNCHANGED worker /\ SetRow(r, new)
      BY <1>3 DEF WatchEnds
    <2> HIDE DEF new
    <2> QED BY <1>0, <2>1, <2>2, <2>3, RowSet
  <1>4. CASE NewDay
    <2>1. UNCHANGED <<chainVars, rows, worker>> /\ LedgersTyped'
      BY <1>4, LedgersStay DEF NewDay, chainVars
    <2> QED BY <2>1 DEF AnchorInv, TypeOK, ChainTypeOK, LedgersTyped, LedgerState, chainVars,
                        RowOK, WorkerOK, ReceiptOK, OneHolder
  <1> QED BY <1>1, <1>2, <1>3, <1>4 DEF Environment

\* Taking a row, and the steps of a submission that leave it as it is.
LEMMA AnchorSubmits ==
    ASSUME AnchorInv, NEW w \in Worker,
           \/ \E r \in Row : ReadSpent(w, r)
           \/ Admit(w) /\ UNCHANGED rows
           \/ \E s \in Send : Sign(w, s)
           \/ \E reached, answered \in BOOLEAN : Broadcast(w, reached, answered)
    PROVE  AnchorInv'
  <1> USE DEF RowHolders, SpendHolders
  <1>0. /\ broadcast \in SUBSET Send
        /\ WorkerOK(worker[w])
        /\ worker[w].pc \in RowHolders => Free(w, worker[w].row)
    BY DEF AnchorInv, TypeOK, ChainTypeOK, OneHolder, Free
  <1>1. ASSUME NEW r \in Row, ReadSpent(w, r) PROVE AnchorInv'
    <2> DEFINE st == [pc |-> "reading", row |-> r, spent |-> Cardinality(gasToday)]
    <2>1. WorkerOK(st) /\ Free(w, st.row)
      BY <1>1 DEF ReadSpent, WorkerOK, Free, RowFree
    <2>2. SetWorker(w, st) /\ UNCHANGED <<chainVars, dbVars>>
      BY <1>1 DEF ReadSpent
    <2> HIDE DEF st
    <2>3. LedgersTyped'
      BY <2>2, LedgersStay DEF chainVars, dbVars
    <2> QED BY <1>0, <2>1, <2>2, <2>3, WorkerSet DEF chainVars, dbVars
  <1>2. CASE Admit(w) /\ UNCHANGED rows
    <2>1. PICK st : /\ st \in {[pc |-> "admitted", row |-> worker[w].row], Idle}
                    /\ SetWorker(w, st)
      BY <1>2 DEF Admit
    <2>2. worker[w].pc = "reading" /\ UNCHANGED <<chainVars, ledger, gas, gasToday, reorgEvents>>
      BY <1>2 DEF Admit
    <2>3. WorkerOK(st) /\ (st.pc \in RowHolders => Free(w, st.row))
      BY <1>0, <2>1, <2>2 DEF WorkerOK, Idle
    <2>4. LedgersTyped'
      BY <2>2, LedgersStay DEF chainVars
    <2> QED BY <1>0, <1>2, <2>1, <2>2, <2>3, <2>4, WorkerSet DEF chainVars
  <1>3. ASSUME NEW s \in Send, Sign(w, s) PROVE AnchorInv'
    <2> DEFINE st == [pc |-> "signed", row |-> s.row, tx |-> s]
    <2>1. /\ worker[w].pc = "admitted" /\ worker[w].row = s.row
          /\ SetWorker(w, st) /\ ledger' = RecordSend(s)
          /\ UNCHANGED <<chainVars, rows, gas, gasToday, reorgEvents>>
      BY <1>3 DEF Sign, Admitted
    <2>2. WorkerOK(st) /\ Free(w, st.row)
      BY <1>0, <2>1 DEF WorkerOK
    <2> HIDE DEF st
    <2>3. LedgersTyped'
      BY <2>1 DEF AnchorInv, TypeOK, LedgersTyped, LedgerState, RecordSend, chainVars
    <2> QED BY <1>0, <2>1, <2>2, <2>3, WorkerSet DEF chainVars
  <1>4. ASSUME NEW reached \in BOOLEAN, NEW answered \in BOOLEAN,
               Broadcast(w, reached, answered)
        PROVE  AnchorInv'
    <2> DEFINE st == [pc |-> "sent", row |-> worker[w].row, tx |-> worker[w].tx,
                      ok |-> answered]
    <2>1. /\ worker[w].pc = "signed" /\ SetWorker(w, st)
          /\ broadcast' = broadcast \cup {s \in {worker[w].tx} : reached}
          /\ UNCHANGED <<blocks, chain, finalized, dbVars>>
      BY <1>4 DEF Broadcast
    <2>2. WorkerOK(st) /\ Free(w, st.row)
      BY <1>0, <2>1 DEF WorkerOK
    <2> HIDE DEF st
    <2>3. LedgersTyped'
      BY <2>1, LedgersStay DEF dbVars
    <2>4. broadcast' \in SUBSET Send
      BY <1>0, <2>1 DEF WorkerOK
    <2> QED BY <2>1, <2>2, <2>3, <2>4, WorkerSet DEF dbVars
  <1> QED BY <1>1, <1>2, <1>3, <1>4

\* The ends of a submission that write the row.
LEMMA AnchorSubmissionEnds ==
    ASSUME AnchorInv, NEW w \in Worker,
           \/ Admit(w) /\ rows' # rows
           \/ \E r \in Row : ReconcileFails(w, r) \/ Reconcile(w, r) \/ PrepareFails(w, r)
           \/ CommitSend(w)
    PROVE  AnchorInv'
  <1> DEFINE r == worker[w].row
  <1>1. worker[w].pc \in SpendHolders /\ SetWorker(w, Idle)
        /\ UNCHANGED <<chainVars, ledger, gas, gasToday, reorgEvents>>
    BY DEF Admit, ReconcileFails, Reconcile, PrepareFails, CommitSend, Admitted, SpendHolders
  <1>2. worker[w].pc \in RowHolders /\ LedgersTyped'
    BY <1>1, LedgersStay DEF SpendHolders, RowHolders, chainVars
  <1>3. /\ r \in Row /\ RowOK(r, rows[r]) /\ rows[r] \in RowRecord
        /\ rows[r].state = "created" /\ rows[r].hash = NoTx /\ rows[r].block = NoBlock
    BY <1>1, <1>2 DEF AnchorInv, TypeOK, WorkerOK, RowOK
  <1> HIDE DEF r
  <1>4. ASSUME NEW tx \in Tx, tx # NoTx, tx.row = r, RootOf(tx) = "ours",
               NEW row, RowOK(r, row), row.block = NoBlock
        PROVE  RowOK(r, [row EXCEPT !.state = "submitted", !.hash = tx])
    BY <1>4 DEF RowOK, RowRecord, RowState, Tracked
  <1>5. RowOK(r, [rows[r] EXCEPT !.state = "failed"])
        /\ RowOK(r, [rows[r] EXCEPT !.state = "reconciliation_required"])
        /\ RowOK(r, [rows[r] EXCEPT !.attempts = @ + 1])
    BY <1>3 DEF RowOK, RowRecord, RowState, Tracked, Resubmittable
  <1>6. \E new : RowOK(r, new) /\ SetRow(r, new)
    <2>1. CASE Admit(w) /\ rows' # rows
      BY <1>5, <2>1 DEF Admit, r
    <2>2. CASE ReconcileFails(w, r)
      <3>1. rows[r].state # "reverted"
        BY <1>3
      <3> QED BY <1>3, <2>2, <3>1, SearchFailedOK DEF ReconcileFails
    <2>3. CASE Reconcile(w, r)
      <3>1. CASE \E tx \in Adopted(r) :
                   SetRow(r, Searched([rows[r] EXCEPT !.state = "submitted", !.hash = tx]))
        BY <1>3, <1>4, <3>1, AdoptedIsOurs, SearchedOK
      <3>2. CASE SetRow(r, Searched([rows[r] EXCEPT !.state = "reconciliation_required"]))
        BY <1>5, <3>2, SearchedOK
      <3> QED BY <2>3, <3>1, <3>2 DEF Reconcile
    <2>4. CASE PrepareFails(w, r)
      BY <1>5, <2>4, SearchedOK DEF PrepareFails
    <2>5. CASE CommitSend(w)
      <3>1. worker[w].pc = "sent"
        BY <2>5 DEF CommitSend
      <3>2. worker[w].tx \in Send /\ worker[w].tx.row = r
        BY <3>1 DEF AnchorInv, WorkerOK, r
      <3>3. /\ worker[w].tx \in Tx /\ worker[w].tx # NoTx
            /\ RootOf(worker[w].tx) = "ours"
        BY <3>2, SendsAreOurs, NoTxIsNone DEF Tx
      <3>4. RowOK(r, Searched([rows[r] EXCEPT !.attempts = @ + 1]))
            /\ Searched([rows[r] EXCEPT !.attempts = @ + 1]).block = NoBlock
        BY <1>3, <1>5, SearchedOK DEF Searched, RowRecord
      <3> QED BY <1>4, <2>5, <3>2, <3>3, <3>4 DEF CommitSend, r
    <2>6. \A q \in Row : ReconcileFails(w, q) \/ Reconcile(w, q) \/ PrepareFails(w, q) => q = r
      BY DEF ReconcileFails, Reconcile, PrepareFails, Admitted, r
    <2> QED BY <2>1, <2>2, <2>3, <2>4, <2>5, <2>6
  <1> QED BY <1>1, <1>2, <1>6, RowCommit DEF r

\* What a worker observed and what it goes on to do with the row it holds.
LEMMA AnchorTracks ==
    ASSUME AnchorInv, NEW w \in Worker, Track(w)
    PROVE  AnchorInv'
  <1> DEFINE r == worker[w].row
             obs == worker[w].obs
  <1>1. /\ worker[w].pc = "observed" /\ worker[w].pc \in RowHolders
        /\ SetWorker(w, Idle) /\ UNCHANGED chainVars /\ UNCHANGED blocks
    BY DEF Track, TrackIncluded, FinalityUnavailable, TrackReverted, TrackUnmined, Observed,
           RowHolders, chainVars
  <1>2. /\ r \in Row /\ RowOK(r, rows[r]) /\ rows[r] \in RowRecord
        /\ rows[r].state \in Tracked
        /\ obs.kind = "receipt" => ReceiptOK(obs, rows[r].hash)
    BY <1>1 DEF AnchorInv, TypeOK, WorkerOK
  <1>3. rows[r].hash # NoTx /\ rows[r].hash \in Tx /\ rows[r].hash.row = r
        /\ RootOf(rows[r].hash) = "ours"
    BY <1>2 DEF RowOK, RowRecord
  <1>4. rows[r].state # "reverted" /\ rows[r].state # "created"
    BY <1>2 DEF Tracked
  <1>5. /\ reorgEvents \in SUBSET (Row \X (1..Len(blocks)))
        /\ \A block : Overturned(r, block) \in SUBSET (Row \X (1..Len(blocks)))
    BY <1>2 DEF AnchorInv, TypeOK, Overturned, RowOK
  <1>6. Len(blocks) \in Nat
    BY LenProperties DEF AnchorInv, TypeOK, ChainTypeOK
  <1>7. ASSUME obs.kind = "receipt"
        PROVE  /\ obs.block \in [height: Nat, hash: Nat] /\ obs.block # NoBlock
               /\ obs.block.hash \in 1..Len(blocks)
               /\ blocks[obs.block.hash].tx = rows[r].hash
               /\ blocks[obs.block.hash].ok = obs.ok /\ obs.ok \in BOOLEAN
    BY <1>2, <1>6, <1>7 DEF ReceiptOK, NoBlock
  <1> HIDE DEF r, obs
  <1>8. ASSUME TrackIncluded(w) PROVE AnchorInv'
    <2> DEFINE state == IF Final(worker[w].head, obs.block.height) THEN "confirmed" ELSE "included"
               same == rows[r].state = state /\ rows[r].block.hash = obs.block.hash
               moved == [rows[r] EXCEPT !.state = state, !.block = obs.block,
                                        !.watched = (state = "confirmed")]
               new == IF same THEN rows[r] ELSE moved
    <2>1. /\ obs.kind = "receipt" /\ obs.ok
          /\ RecordReceipt(rows[r].hash) /\ reorgEvents' = Overturned(r, obs.block)
          /\ SetRow(r, Searched(new))
      BY <1>8 DEF TrackIncluded, Observed, r, obs
    <2>2. LedgersTyped'
      BY <1>1, <1>3, <1>5, <2>1, LedgersRecord
    <2>3. state \in {"confirmed", "included"} /\ (state = "confirmed") \in BOOLEAN
      OBVIOUS
    <2> HIDE DEF state
    <2>4. RowOK(r, moved)
      BY <1>2, <1>3, <1>7, <2>1, <2>3 DEF RowOK, RowRecord, RowState, Tracked
    <2>5. RowOK(r, Searched(new))
      BY <1>2, <2>4, SearchedOK
    <2> HIDE DEF new
    <2> QED BY <1>1, <2>1, <2>2, <2>5, RowCommit DEF r
  <1>9. ASSUME FinalityUnavailable(w) PROVE AnchorInv'
    <2>1. /\ RecordReceipt(rows[r].hash) /\ UNCHANGED reorgEvents
          /\ SetRow(r, [Searched(rows[r]) EXCEPT !.retry = TRUE])
      BY <1>9 DEF FinalityUnavailable, r
    <2>2. LedgersTyped'
      BY <1>1, <1>3, <1>5, <2>1, LedgersRecord
    <2>3. RowOK(r, [Searched(rows[r]) EXCEPT !.retry = TRUE])
      BY <1>2 DEF RowOK, Searched, RowRecord
    <2> QED BY <1>1, <2>1, <2>2, <2>3, RowCommit DEF r
  <1>10. ASSUME TrackReverted(w) PROVE AnchorInv'
    <2>1. /\ obs.kind = "receipt" /\ ~obs.ok
          /\ RecordReceipt(rows[r].hash) /\ UNCHANGED reorgEvents
          /\ \/ \E tx \in AnchoringTx(r) : SetRow(r, Searched(Follow(rows[r], tx)))
             \/ \E new \in SearchFailed(r) : SetRow(r, new)
             \/ SetRow(r, Searched([rows[r] EXCEPT !.state = "reverted", !.watched = FALSE,
                                                   !.block = obs.block]))
      BY <1>10 DEF TrackReverted, Observed, r, obs
    <2>2. LedgersTyped'
      BY <1>1, <1>3, <1>5, <2>1, LedgersRecord
    <2>3. ASSUME NEW tx \in AnchoringTx(r) PROVE RowOK(r, Searched(Follow(rows[r], tx)))
      <3>1. tx \in Tx /\ tx # NoTx /\ tx.row = r /\ RootOf(tx) = "ours"
        BY <2>3, AdoptedIsOurs DEF AnchoringTx
      <3>2. RowOK(r, Follow(rows[r], tx))
        BY <1>2, <3>1 DEF RowOK, Follow, RowRecord, RowState, Tracked, NoBlock
      <3> QED BY <3>2, SearchedOK
    <2>4. \A new \in SearchFailed(r) : RowOK(r, new)
      BY <1>2, <1>4, SearchFailedOK
    <2>5. RowOK(r, [rows[r] EXCEPT !.state = "reverted", !.watched = FALSE, !.block = obs.block])
      BY <1>2, <1>3, <1>7, <2>1 DEF RowOK, RowRecord, RowState, Tracked, Resubmittable
    <2>6. \E new : RowOK(r, new) /\ SetRow(r, new)
      BY <2>1, <2>3, <2>4, <2>5, SearchedOK
    <2> QED BY <1>1, <2>2, <2>6, RowCommit DEF r
  <1>11. ASSUME TrackUnmined(w) PROVE AnchorInv'
    <2> DEFINE gone == [rows[r] EXCEPT !.block = NoBlock, !.watched = FALSE]
    <2>1. /\ UNCHANGED <<ledger, gas, gasToday>>
          /\ \/ UNCHANGED reorgEvents
             \/ reorgEvents' = Overturned(r, NoBlock)
      BY <1>11 DEF TrackUnmined, r
    <2>2. LedgersTyped'
      BY <1>1, <1>5, <2>1 DEF AnchorInv, TypeOK, LedgersTyped, LedgerState
    <2>3. \/ SetRow(r, Searched([rows[r] EXCEPT !.state = "dropped"]))
          \/ SetRow(r, Searched([gone EXCEPT !.state = "reconciliation_required"]))
          \/ SetRow(r, [gone EXCEPT !.state = "submitted"])
      BY <1>11 DEF TrackUnmined, r
    <2>4. RowOK(r, [rows[r] EXCEPT !.state = "dropped"])
      BY <1>2, <1>4 DEF RowOK, RowRecord, RowState, Tracked, Resubmittable
    <2>5. RowOK(r, gone)
      BY <1>2 DEF RowOK, RowRecord, NoBlock
    <2>6. gone.hash # NoTx /\ gone.block = NoBlock
      BY <1>2, <1>3 DEF RowRecord
    <2> HIDE DEF gone
    <2>7. RowOK(r, [gone EXCEPT !.state = "reconciliation_required"])
          /\ RowOK(r, [gone EXCEPT !.state = "submitted"])
      BY <2>5, <2>6 DEF RowOK, RowRecord, RowState, Tracked, Resubmittable
    <2>8. \E new : RowOK(r, new) /\ SetRow(r, new)
      BY <2>3, <2>4, <2>7, SearchedOK
    <2> QED BY <1>1, <2>2, <2>8, RowCommit DEF r
  <1> QED BY <1>8, <1>9, <1>10, <1>11 DEF Track

\* The steps of a worker that only look, settle a send or lose what was in memory.
LEMMA AnchorLooks ==
    ASSUME AnchorInv, NEW w \in Worker,
           (\E r \in Row : Observe(w, r)) \/ SettleSends(w) \/ Crash(w)
    PROVE  AnchorInv'
  <1>0. broadcast \in SUBSET Send /\ WorkerOK(Idle) /\ Idle.pc \notin RowHolders
    BY DEF AnchorInv, TypeOK, ChainTypeOK, WorkerOK, Idle, RowHolders, SpendHolders
  <1>1. ASSUME NEW r \in Row, Observe(w, r) PROVE AnchorInv'
    <2>1. /\ rows[r].state \in Tracked /\ UNCHANGED <<chainVars, dbVars>>
          /\ Free(w, r)
      BY <1>1 DEF Observe, Free, RowFree
    <2>2. PICK obs : /\ \/ obs \in {Pending, Unknown}
                        \/ \E n \in MinedAt(rows[r].hash) : obs = Receipt(n)
                     /\ SetWorker(w, [pc |-> "observed", row |-> r, obs |-> obs,
                                      head |-> HeadBlock])
      BY <1>1 DEF Observe
    <2>3. obs.kind = "receipt" => ReceiptOK(obs, rows[r].hash)
      <3> SUFFICES ASSUME NEW n \in MinedAt(rows[r].hash), obs = Receipt(n)
                   PROVE  ReceiptOK(obs, rows[r].hash)
        BY <2>2 DEF Pending, Unknown
      <3>1. chain \in Seq(1..Len(blocks)) /\ blocks \in Seq(Block) /\ Len(chain) \in Nat
            /\ n \in 1..Len(chain)
        BY LenProperties DEF AnchorInv, TypeOK, ChainTypeOK, MinedAt, HeadBlock
      <3>2. chain[n] \in 1..Len(blocks)
        BY <3>1, ElementOfSeq
      <3>3. blocks[chain[n]] \in Block /\ n \in Nat
        BY <3>1, <3>2, ElementOfSeq
      <3>4. blocks[chain[n]].tx = rows[r].hash
        BY DEF MinedAt, TxAt
      <3> QED BY <3>2, <3>3, <3>4 DEF Receipt, ReceiptOK, Block
    <2> DEFINE st == [pc |-> "observed", row |-> r, obs |-> obs, head |-> HeadBlock]
    <2>4. WorkerOK(st) /\ Free(w, st.row) /\ SetWorker(w, st)
      BY <2>1, <2>2, <2>3 DEF WorkerOK, RowHolders, SpendHolders
    <2> HIDE DEF st
    <2>5. LedgersTyped'
      BY <2>1, LedgersStay DEF chainVars, dbVars
    <2> QED BY <1>0, <2>1, <2>4, <2>5, WorkerSet DEF chainVars, dbVars
  <1>2. ASSUME NEW s \in Send, SettleRead(w, s) PROVE AnchorInv'
    <2>1. UNCHANGED <<chainVars, dbVars>>
      BY <1>2 DEF SettleRead
    <2>2. PICK taken : SetWorker(w, [pc |-> "settling", tx |-> s, taken |-> taken])
      BY <1>2 DEF SettleRead
    <2> DEFINE st == [pc |-> "settling", tx |-> s, taken |-> taken]
    <2>3. WorkerOK(st) /\ st.pc \notin RowHolders /\ SetWorker(w, st)
      BY <2>2 DEF WorkerOK, RowHolders, SpendHolders
    <2> HIDE DEF st
    <2>4. LedgersTyped'
      BY <2>1, LedgersStay DEF chainVars, dbVars
    <2> QED BY <1>0, <2>1, <2>3, <2>4, WorkerSet DEF chainVars, dbVars
  <1>3. ASSUME Settle(w) PROVE AnchorInv'
    <2> DEFINE s == worker[w].tx
    <2>1. /\ worker[w].pc = "settling" /\ SetWorker(w, Idle)
          /\ UNCHANGED <<chainVars, rows, reorgEvents>>
          /\ \/ RecordReceipt(s)
             \/ /\ ledger' \in {ledger, [ledger EXCEPT ![s] = "nonce_consumed"]}
                /\ UNCHANGED <<gas, gasToday>>
      BY <1>3 DEF Settle
    <2>2. s \in Send /\ s \in Tx
      BY <2>1 DEF AnchorInv, WorkerOK, Tx
    <2>3. UNCHANGED blocks /\ reorgEvents' \in SUBSET (Row \X (1..Len(blocks)))
      BY <2>1 DEF AnchorInv, TypeOK, chainVars
    <2> HIDE DEF s
    <2>4. LedgersTyped'
      <3>1. CASE RecordReceipt(s)
        BY <2>2, <2>3, <3>1, LedgersRecord
      <3>2. CASE /\ ledger' \in {ledger, [ledger EXCEPT ![s] = "nonce_consumed"]}
                 /\ UNCHANGED <<gas, gasToday>>
        BY <2>2, <2>3, <3>2 DEF AnchorInv, TypeOK, LedgersTyped, LedgerState
      <3> QED BY <2>1, <3>1, <3>2
    <2> QED BY <1>0, <2>1, <2>4, WorkerSet DEF chainVars
  <1>4. ASSUME Crash(w) PROVE AnchorInv'
    <2>1. UNCHANGED <<chainVars, dbVars>> /\ SetWorker(w, Idle)
      BY <1>4 DEF Crash
    <2>2. LedgersTyped'
      BY <2>1, LedgersStay DEF chainVars, dbVars
    <2> QED BY <1>0, <2>1, <2>2, WorkerSet DEF chainVars, dbVars
  <1> QED BY <1>1, <1>2, <1>3, <1>4 DEF SettleSends

LEMMA AnchorStep == AnchorInv /\ [Next]_vars => AnchorInv'
  <1> SUFFICES ASSUME AnchorInv, [Next]_vars PROVE AnchorInv'
    OBVIOUS
  <1>1. ASSUME NEW w \in Worker, WorkerNext(w) PROVE AnchorInv'
    BY <1>1, AnchorSubmits, AnchorSubmissionEnds, AnchorTracks, AnchorLooks
       DEF WorkerNext, SubmitPending
  <1>2. CASE UNCHANGED vars
    BY <1>2 DEF vars, dbVars, AnchorInv, TypeOK, ChainTypeOK, RowOK, WorkerOK, ReceiptOK,
                OneHolder
  <1> QED BY <1>1, <1>2, AnchorEnvironment DEF Next

(***************************************************************************)
(* For any rows, workers and reorganisations: a row with a block names the *)
(* transaction of its own batch that this very block executed, and says    *)
(* reverted exactly if it failed there.  The row lock and the fact that a  *)
(* block never changes carry it from the observation to the commit.        *)
(***************************************************************************)
THEOREM ProofsNameRealAnchors == Spec => []ProofNamesRealAnchor
  <1>1. AnchorInv => ProofNamesRealAnchor
    BY DEF AnchorInv, ProofNamesRealAnchor, RowOK
  <1> QED BY AnchorStart, AnchorStep, <1>1, PTL DEF Spec

-----------------------------------------------------------------------------
(* Settlement.                                                              *)

SendAt(n) == IsSend(TxAt(n))

\* The signer's transactions on the canonical chain take its nonces in order, one each.
NoncesInOrder ==
    \A m \in 0..HeadBlock :
        /\ NonceAfter(m) \in Nat
        /\ \A n \in 1..m : SendAt(n) => TxAt(n).nonce < NonceAfter(m)
        /\ \A k \in 0..(NonceAfter(m) - 1) : \E n \in 1..m : SendAt(n) /\ TxAt(n).nonce = k

\* Every nonce below the one read is taken in a block that no reorganisation replaces.
TakenForGood(st) ==
    st.pc = "settling" =>
        \A k \in Nat : k < st.taken => \E n \in 1..finalized : SendAt(n) /\ TxAt(n).nonce = k

ReceiptsAreCosts == \A s \in Send : ledger[s] = "receipt" => s \in gas

SettleInv ==
    /\ NoncesInOrder
    /\ \A w \in Worker : TakenForGood(worker[w])
    /\ ReceiptsAreCosts
    /\ SettledAsMined

\* What a prefix of the chain says depends on the blocks of that prefix only.
LEMMA PrefixCounts ==
    ASSUME NEW n \in Nat, \A m \in 1..n : TxAt(m)' = TxAt(m)
    PROVE  NonceAfter(n)' = NonceAfter(n)
  <1>1. {m \in 1..n : TxAt(m)' # NoTx /\ IsSend(TxAt(m)')}
          = {m \in 1..n : TxAt(m) # NoTx /\ IsSend(TxAt(m))}
    OBVIOUS
  <1> QED BY <1>1 DEF NonceAfter

\* The count grows by one at a send and stays otherwise.
LEMMA NextCount ==
    ASSUME NEW n \in Nat, \A m \in 1..n : TxAt(m)' = TxAt(m)
    PROVE  /\ NonceAfter(n) \in Nat
           /\ NonceAfter(n + 1)' = IF SendAt(n + 1)' THEN NonceAfter(n) + 1 ELSE NonceAfter(n)
  <1> DEFINE A == {m \in 1..n : TxAt(m) # NoTx /\ IsSend(TxAt(m))}
  <1>1. PICK S, T : /\ S = A
                    /\ T = {m \in 1..(n + 1) : TxAt(m)' # NoTx /\ IsSend(TxAt(m)')}
    OBVIOUS
  <1>2. NonceAfter(n) = Cardinality(S) /\ NonceAfter(n + 1)' = Cardinality(T)
    BY <1>1 DEF NonceAfter
  <1>3. IsFiniteSet(1..n) /\ S \in SUBSET (1..n)
    BY <1>1, FS_Interval
  <1>4. IsFiniteSet(S)
    BY <1>3, FS_Subset
  <1>5. Cardinality(S) \in Nat
    BY <1>4, FS_CardinalityType
  <1>6. SendAt(n + 1)' <=> TxAt(n + 1)' # NoTx /\ IsSend(TxAt(n + 1)')
    BY NoTxIsNone DEF SendAt
  <1>7. T = IF SendAt(n + 1)' THEN S \cup {n + 1} ELSE S
    BY <1>1, <1>6
  <1>8. n + 1 \notin S
    BY <1>3
  <1> QED BY <1>2, <1>4, <1>5, <1>7, <1>8, FS_AddElement

\* A prefix of the chain that stays keeps the nonces of its sends in order.
LEMMA PrefixStays ==
    ASSUME NoncesInOrder, NEW h \in 0..HeadBlock, \A m \in 1..h : TxAt(m)' = TxAt(m),
           HeadBlock \in Nat, NEW m \in 0..h
    PROVE  /\ NonceAfter(m)' = NonceAfter(m) /\ NonceAfter(m)' \in Nat
           /\ \A n \in 1..m : SendAt(n)' => TxAt(n)'.nonce < NonceAfter(m)'
           /\ \A k \in 0..(NonceAfter(m)' - 1) :
                \E n \in 1..m : SendAt(n)' /\ TxAt(n)'.nonce = k
  <1>1. \A n \in 1..m : TxAt(n)' = TxAt(n) /\ SendAt(n)' = SendAt(n)
    BY DEF SendAt
  <1>2. NonceAfter(m)' = NonceAfter(m)
    BY <1>1, PrefixCounts
  <1> QED BY <1>1, <1>2 DEF NoncesInOrder

\* What the finalized part of the chain says is said for good.
LEMMA FinalStays ==
    ASSUME ChainTypeOK, SettleInv, NEW h \in finalized..HeadBlock,
           \A m \in 1..h : TxAt(m)' = TxAt(m), HeadBlock \in Nat,
           finalized' >= finalized, finalized' \in Nat,
           UNCHANGED <<ledger, gas, worker>>,
           \A s \in Send : MinedAt(s)' # {} => MinedAt(s) # {}
    PROVE  /\ \A w \in Worker : TakenForGood(worker[w])'
           /\ ReceiptsAreCosts' /\ SettledAsMined'
  <1>1. finalized \in Nat
    BY DEF ChainTypeOK
  <1>2. \A n \in 1..finalized : n \in 1..finalized' /\ TxAt(n)' = TxAt(n) /\ SendAt(n)' = SendAt(n)
    BY <1>1 DEF SendAt
  <1>3. \A w \in Worker : TakenForGood(worker[w])'
    BY <1>2 DEF SettleInv, TakenForGood
  <1>4. ReceiptsAreCosts' /\ CostsAccounted'
    BY DEF SettleInv, SettledAsMined, ReceiptsAreCosts, CostsAccounted
  <1>5. ASSUME NEW s \in Send, ledger'[s] = "nonce_consumed"
        PROVE  /\ MinedAt(s)' = {}
               /\ \E n \in 1..finalized' : /\ IsSend(TxAt(n)') /\ TxAt(n)' # s
                                           /\ TxAt(n)'.nonce = s.nonce
    <2>1. /\ MinedAt(s) = {}
          /\ \E n \in 1..finalized : /\ IsSend(TxAt(n)) /\ TxAt(n) # s
                                     /\ TxAt(n).nonce = s.nonce
      BY <1>5 DEF SettleInv, SettledAsMined, ReleasedNeverMined
    <2> QED BY <1>2, <2>1
  <1> QED BY <1>3, <1>4, <1>5 DEF SettledAsMined, ReleasedNeverMined

LEMMA SettleStart == Init => SettleInv
  <1> SUFFICES ASSUME Init PROVE SettleInv
    OBVIOUS
  <1>1. HeadBlock = 0 /\ finalized = 0 /\ Len(chain) = 0
    BY EmptySeq DEF Init, ChainInit, HeadBlock
  <1>2. NonceAfter(0) = Cardinality({})
    BY DEF NonceAfter
  <1>3. NoncesInOrder
    BY <1>1, <1>2, FS_EmptySet DEF NoncesInOrder
  <1>4. \A tx : MinedAt(tx) = {}
    BY <1>1 DEF MinedAt
  <1> QED BY <1>3, <1>4 DEF Init, SettleInv, TakenForGood, Idle, ReceiptsAreCosts, SettledAsMined,
                            ReleasedNeverMined, CostsAccounted

LEMMA ChainFacts ==
    ASSUME ChainTypeOK
    PROVE  /\ HeadBlock \in Nat /\ finalized \in Nat /\ finalized <= HeadBlock
           /\ \A n \in 1..HeadBlock : chain[n] \in 1..Len(blocks)
  <1>1. chain \in Seq(1..Len(blocks)) /\ finalized \in 0..Len(chain)
    BY DEF ChainTypeOK
  <1>2. Len(chain) \in Nat /\ \A n \in 1..Len(chain) : chain[n] \in 1..Len(blocks)
    BY <1>1, LenProperties, ElementOfSeq
  <1> QED BY <1>1, <1>2 DEF HeadBlock

\* A block on top: its send is the one whose nonce is next, and it is in the ledger.
LEMMA ProduceSettles ==
    ASSUME ChainTypeOK, SettleInv, LedgerInv,
           NEW tx \in Tx \cup {NoTx}, NEW ok \in BOOLEAN, Produce(tx, ok),
           IsSend(tx) => tx \in broadcast /\ tx.nonce = NonceAfter(HeadBlock),
           UNCHANGED <<ledger, gas, worker>>
    PROVE  SettleInv'
  <1>1. PICK l : l = HeadBlock
    OBVIOUS
  <1>2. l \in Nat /\ l = Len(chain) /\ finalized \in 0..l
        /\ \A n \in 1..l : chain[n] \in 1..Len(blocks)
    BY <1>1, ChainFacts DEF HeadBlock
  <1>3. /\ Len(chain') = l + 1
        /\ \A n \in 1..l : chain'[n] = chain[n]
        /\ chain'[l + 1] = Len(blocks) + 1
        /\ blocks'[Len(blocks) + 1] = [tx |-> tx, ok |-> ok]
        /\ \A b \in 1..Len(blocks) : blocks'[b] = blocks[b]
        /\ UNCHANGED finalized
    BY <1>2, ProduceTyped DEF BlocksKept, Produce
  <1>4. \A n \in 1..l : TxAt(n)' = TxAt(n)
    BY <1>2, <1>3 DEF TxAt
  <1>5. TxAt(l + 1)' = tx /\ HeadBlock' = l + 1
    BY <1>3 DEF TxAt, HeadBlock
  <1>6. /\ NonceAfter(l) \in Nat
        /\ NonceAfter(l + 1)' = IF IsSend(tx) THEN NonceAfter(l) + 1 ELSE NonceAfter(l)
    BY <1>2, <1>4, <1>5, NextCount DEF SendAt
  <1>7. l = HeadBlock /\ HeadBlock' = l + 1 /\ TxAt(l + 1)' = tx
        /\ \A n \in 1..l : TxAt(n)' = TxAt(n)
    BY <1>1, <1>4, <1>5
  <1>8. \A m \in 0..l :
          /\ NonceAfter(m)' = NonceAfter(m) /\ NonceAfter(m)' \in Nat
          /\ \A n \in 1..m : SendAt(n)' => TxAt(n)'.nonce < NonceAfter(m)'
          /\ \A k \in 0..(NonceAfter(m)' - 1) :
               \E n \in 1..m : SendAt(n)' /\ TxAt(n)'.nonce = k
    <2>1. l \in 0..HeadBlock /\ HeadBlock \in Nat /\ NoncesInOrder
      BY <1>2, <1>7 DEF SettleInv
    <2>2. \A n \in 1..l : TxAt(n)' = TxAt(n)
      BY <1>7
    <2> QED BY <2>1, <2>2, PrefixStays
  <1>9. NoncesInOrder'
    <2> SUFFICES ASSUME NEW m \in 0..(l + 1)
                 PROVE  /\ NonceAfter(m)' \in Nat
                        /\ \A n \in 1..m : SendAt(n)' => TxAt(n)'.nonce < NonceAfter(m)'
                        /\ \A k \in 0..(NonceAfter(m)' - 1) :
                             \E n \in 1..m : SendAt(n)' /\ TxAt(n)'.nonce = k
      BY <1>7 DEF NoncesInOrder
    <2>1. CASE m \in 0..l
      BY <1>8, <2>1
    <2>2. CASE m = l + 1
      <3>1. /\ \A n \in 1..l : SendAt(n)' => TxAt(n)'.nonce < NonceAfter(l)
            /\ \A k \in 0..(NonceAfter(l) - 1) : \E n \in 1..l : SendAt(n)' /\ TxAt(n)'.nonce = k
        BY <1>2, <1>8, SMTT(40)
      <3>2. SendAt(l + 1)' <=> IsSend(tx)
        BY <1>7 DEF SendAt
      <3>3. \A n \in 1..l : SendAt(n)' => TxAt(n)'.nonce \in Nat
        <4>1. blocks \in Seq(Block)
          BY DEF ChainTypeOK
        <4>2. \A n \in 1..l : TxAt(n) \in Tx \cup {NoTx}
          <5> SUFFICES ASSUME NEW n \in 1..l PROVE TxAt(n) \in Tx \cup {NoTx}
            OBVIOUS
          <5>1. blocks[chain[n]] \in Block
            BY <1>2, <4>1, ElementOfSeq
          <5> QED BY <5>1 DEF TxAt, Block
        <4>3. \A t \in Tx \cup {NoTx} : IsSend(t) => t \in Send
          BY NoTxIsNone, ChainAssumption DEF Tx, IsSend
        <4> QED BY <1>7, <4>2, <4>3 DEF SendAt, Send
      <3>4. CASE IsSend(tx)
        <4>1. NonceAfter(m)' = NonceAfter(l) + 1 /\ tx.nonce = NonceAfter(l)
          BY <1>6, <1>7, <2>2, <3>4
        <4>2. SendAt(m)' /\ TxAt(m)'.nonce = NonceAfter(l)
          BY <1>7, <2>2, <3>2, <3>4, <4>1
        <4>3. \A n \in 1..m : n \in 1..l \/ n = m
          BY <1>2, <2>2
        <4>4. \A n \in 1..m : SendAt(n)' => TxAt(n)'.nonce < NonceAfter(m)'
          BY <1>6, <3>1, <3>3, <4>1, <4>2, <4>3
        <4>5. ASSUME NEW k \in 0..(NonceAfter(m)' - 1)
              PROVE  \E n \in 1..m : SendAt(n)' /\ TxAt(n)'.nonce = k
          <5>1. k \in 0..(NonceAfter(l) - 1) \/ k = NonceAfter(l)
            BY <1>6, <4>1
          <5>2. m \in 1..m /\ \A n \in 1..l : n \in 1..m
            BY <1>2, <2>2
          <5> QED BY <3>1, <4>2, <5>1, <5>2
        <4> QED BY <1>6, <4>1, <4>4, <4>5
      <3>5. CASE ~IsSend(tx)
        <4>1. NonceAfter(m)' = NonceAfter(l) /\ ~SendAt(m)'
          BY <1>6, <2>2, <3>2, <3>5
        <4> QED BY <1>2, <1>6, <2>2, <3>1, <4>1
      <3> QED BY <3>4, <3>5
    <2> QED BY <1>2, <2>1, <2>2
  <1>10. \A s \in Send : ledger[s] = "nonce_consumed" => tx # s
    <2> SUFFICES ASSUME NEW s \in Send, ledger[s] = "nonce_consumed", tx = s PROVE FALSE
      OBVIOUS
    <2>1. PICK n \in 1..finalized : SendAt(n) /\ TxAt(n).nonce = s.nonce
      BY DEF SettleInv, SettledAsMined, ReleasedNeverMined, SendAt
    <2>2. n \in 1..l /\ TxAt(n).nonce < NonceAfter(l) /\ NonceAfter(l) \in Nat
      BY <1>2, <1>6, <1>7, <2>1 DEF SettleInv, NoncesInOrder
    <2>3. s.nonce = NonceAfter(l)
      BY <1>7, SendsAreOurs
    <2> QED BY <2>1, <2>2, <2>3
  <1>11. \A s \in Send : MinedAt(s)' # {} => MinedAt(s) # {} \/ s = tx
    BY <1>2, <1>7 DEF MinedAt
  <1>12. \A w \in Worker : TakenForGood(worker[w])'
    BY <1>2, <1>3, <1>7 DEF SettleInv, TakenForGood, SendAt
  <1>13. ReceiptsAreCosts'
    BY DEF SettleInv, ReceiptsAreCosts
  <1>14. CostsAccounted'
    <2> SUFFICES ASSUME NEW s \in Send, MinedAt(s)' # {} PROVE s \in gas \/ ledger[s] = "open"
      BY DEF CostsAccounted
    <2>1. CASE MinedAt(s) # {}
      BY <2>1 DEF SettleInv, SettledAsMined, CostsAccounted
    <2>2. CASE s = tx
      <3>1. ledger[s] \in LedgerState /\ ledger[s] # "none" /\ ledger[s] # "nonce_consumed"
        BY <1>10, <2>2, SendsAreOurs DEF LedgerInv, LedgerBeforeNetwork
      <3> QED BY <3>1 DEF LedgerState, SettleInv, ReceiptsAreCosts
    <2> QED BY <1>11, <2>1, <2>2
  <1>15. ReleasedNeverMined'
    <2> SUFFICES ASSUME NEW s \in Send, ledger[s] = "nonce_consumed"
                 PROVE  /\ MinedAt(s)' = {}
                        /\ \E n \in 1..finalized' : /\ IsSend(TxAt(n)') /\ TxAt(n)' # s
                                                    /\ TxAt(n)'.nonce = s.nonce
      BY DEF ReleasedNeverMined
    <2>1. /\ MinedAt(s) = {}
          /\ \E n \in 1..finalized : /\ IsSend(TxAt(n)) /\ TxAt(n) # s
                                     /\ TxAt(n).nonce = s.nonce
      BY DEF SettleInv, SettledAsMined, ReleasedNeverMined
    <2> QED BY <1>2, <1>3, <1>7, <1>10, <1>11, <2>1
  <1> QED BY <1>9, <1>12, <1>13, <1>14, <1>15 DEF SettleInv, SettledAsMined

\* A reorganisation takes nothing that was final, and the rest may be mined again.
LEMMA ReorgSettles ==
    ASSUME ChainTypeOK, SettleInv, NEW n, Reorg(n), UNCHANGED <<ledger, gas, worker>>
    PROVE  SettleInv'
  <1>1. /\ HeadBlock' = n /\ n \in finalized..HeadBlock
        /\ \A m \in 1..n : chain'[m] = chain[m]
        /\ UNCHANGED <<blocks, finalized>>
    BY ReorgTyped DEF HeadBlock, Reorg
  <1>2. HeadBlock \in Nat /\ finalized \in Nat /\ n \in Nat
    BY <1>1, ChainFacts
  <1>3. \A m \in 1..n : TxAt(m)' = TxAt(m)
    BY <1>1 DEF TxAt
  <1>4. \A s \in Send : MinedAt(s)' # {} => MinedAt(s) # {}
    BY <1>1, <1>2, <1>3 DEF MinedAt
  <1>5. n \in 0..HeadBlock /\ NoncesInOrder
    BY <1>1, <1>2 DEF SettleInv
  <1>6. NoncesInOrder'
    <2>1. \A m \in 0..n :
            /\ NonceAfter(m)' = NonceAfter(m) /\ NonceAfter(m)' \in Nat
            /\ \A l \in 1..m : SendAt(l)' => TxAt(l)'.nonce < NonceAfter(m)'
            /\ \A k \in 0..(NonceAfter(m)' - 1) :
                 \E l \in 1..m : SendAt(l)' /\ TxAt(l)'.nonce = k
      BY <1>2, <1>3, <1>5, PrefixStays
    <2> QED BY <1>1, <2>1 DEF NoncesInOrder
  <1>7. finalized' >= finalized /\ finalized' \in Nat
    BY <1>1, <1>2
  <1> QED BY <1>1, <1>2, <1>3, <1>4, <1>6, <1>7, FinalStays DEF SettleInv

LEMMA FinalizeSettles ==
    ASSUME ChainTypeOK, SettleInv, Finalize, UNCHANGED <<ledger, gas, worker>>
    PROVE  SettleInv'
  <1>1. /\ UNCHANGED <<blocks, chain>> /\ finalized' = finalized + 1
        /\ HeadBlock \in Nat /\ finalized \in Nat /\ finalized <= HeadBlock
    BY ChainFacts DEF Finalize
  <1>2. HeadBlock' = HeadBlock /\ \A m : TxAt(m)' = TxAt(m)
    BY <1>1 DEF HeadBlock, TxAt
  <1>3. \A s \in Send : MinedAt(s)' = MinedAt(s)
    BY <1>2 DEF MinedAt
  <1>4. NoncesInOrder'
    <2>1. HeadBlock \in 0..HeadBlock /\ NoncesInOrder
      BY <1>1 DEF SettleInv
    <2>2. \A m \in 0..HeadBlock :
            /\ NonceAfter(m)' = NonceAfter(m) /\ NonceAfter(m)' \in Nat
            /\ \A l \in 1..m : SendAt(l)' => TxAt(l)'.nonce < NonceAfter(m)'
            /\ \A k \in 0..(NonceAfter(m)' - 1) :
                 \E l \in 1..m : SendAt(l)' /\ TxAt(l)'.nonce = k
      BY <1>1, <1>2, <2>1, PrefixStays
    <2> QED BY <1>2, <2>2 DEF NoncesInOrder
  <1>5. finalized' >= finalized /\ finalized' \in Nat /\ HeadBlock \in finalized..HeadBlock
    BY <1>1
  <1> QED BY <1>1, <1>2, <1>3, <1>4, <1>5, FinalStays DEF SettleInv

LEMMA ChainSettles ==
    ASSUME ChainTypeOK, SettleInv, LedgerInv, ChainNext, UNCHANGED <<dbVars, worker>>
    PROVE  SettleInv'
  <1>0. UNCHANGED <<ledger, gas, worker>>
    BY DEF dbVars
  <1>1. ASSUME NEW s \in Send, MineSend(s) PROVE SettleInv'
    BY <1>0, <1>1, ProduceSettles DEF MineSend, Tx
  <1>2. ASSUME NEW o \in Outsiders, MineOutsider(o) PROVE SettleInv'
    <2>1. (StoredAt(o.row) = {}) \in BOOLEAN /\ o \in Tx /\ ~IsSend(o)
      BY ChainAssumption DEF Tx, IsSend
    <2> QED BY <1>0, <1>2, <2>1, ProduceSettles DEF MineOutsider
  <1>3. CASE MineEmpty
    BY <1>0, <1>3, NoTxIsNone, ProduceSettles DEF MineEmpty
  <1> QED BY <1>0, <1>1, <1>2, <1>3, FinalizeSettles, ReorgSettles DEF ChainNext

\* A step that leaves the blocks alone: sends enter the ledger open and leave it with their cost.
LEMMA LedgerSettles ==
    ASSUME SettleInv, UNCHANGED <<blocks, chain, finalized>>, gas \subseteq gas',
           \A s \in Send : \/ ledger'[s] = ledger[s]
                           \/ ledger[s] = "none" /\ ledger'[s] = "open"
                           \/ ledger'[s] = "receipt" /\ s \in gas',
           \A w \in Worker : TakenForGood(worker'[w])
    PROVE  SettleInv'
  <1>1. HeadBlock' = HeadBlock /\ \A n : TxAt(n)' = TxAt(n) /\ SendAt(n)' = SendAt(n)
    BY DEF HeadBlock, TxAt, SendAt
  <1>2. \A n : NonceAfter(n)' = NonceAfter(n)
    BY DEF NonceAfter, TxAt
  <1>3. \A tx : MinedAt(tx)' = MinedAt(tx)
    BY DEF MinedAt, TxAt, HeadBlock
  <1>4. NoncesInOrder'
    BY <1>1, <1>2 DEF SettleInv, NoncesInOrder
  <1>5. \A w \in Worker : TakenForGood(worker[w])'
    BY <1>1 DEF TakenForGood
  <1>6. ReceiptsAreCosts'
    BY DEF SettleInv, ReceiptsAreCosts
  <1>7. CostsAccounted'
    BY <1>3 DEF SettleInv, SettledAsMined, CostsAccounted
  <1>8. ReleasedNeverMined'
    BY <1>1, <1>3 DEF SettleInv, SettledAsMined, ReleasedNeverMined
  <1> QED BY <1>4, <1>5, <1>6, <1>7, <1>8 DEF SettleInv, SettledAsMined

LEMMA RecordSettles ==
    ASSUME NEW tx, RecordReceipt(tx)
    PROVE  /\ gas \subseteq gas'
           /\ \A s \in Send : \/ ledger'[s] = ledger[s]
                              \/ ledger'[s] = "receipt" /\ s \in gas'
  BY DEF RecordReceipt, SettledByReceipt

LEMMA OtherSettles ==
    ASSUME SettleInv, DOMAIN worker = Worker, NEW w \in Worker, NEW st, SetWorker(w, st),
           TakenForGood(st)
    PROVE  \A v \in Worker : TakenForGood(worker'[v])
  BY DEF SettleInv, SetWorker

\* The nonce read at a block deep enough and final counts blocks that stay; then the receipt is read.
LEMMA SettlementSettles ==
    ASSUME AnchorInv, SettleInv, NEW w \in Worker, SettleSends(w)
    PROVE  SettleInv'
  <1>0. DOMAIN worker = Worker /\ ChainTypeOK
    BY DEF AnchorInv, TypeOK
  <1>1. ASSUME NEW s \in Send, SettleRead(w, s) PROVE SettleInv'
    <2>1. PICK taken : /\ taken \in {Unread} \cup {NonceAfter(n) : n \in {SettledDepth} \cap Nat}
                       /\ SetWorker(w, [pc |-> "settling", tx |-> s, taken |-> taken])
      BY <1>1 DEF SettleRead
    <2> DEFINE st == [pc |-> "settling", tx |-> s, taken |-> taken]
    <2>2. \A k \in Nat : k < taken => \E n \in 1..finalized : SendAt(n) /\ TxAt(n).nonce = k
      <3>1. CASE taken = Unread
        BY <3>1 DEF Unread
      <3>2. CASE \E n \in {SettledDepth} \cap Nat : taken = NonceAfter(n)
        <4>1. PICK n \in Nat : n = SettledDepth /\ taken = NonceAfter(n)
          BY <3>2
        <4>2. /\ HeadBlock \in Nat /\ finalized \in Nat /\ finalized <= HeadBlock
          BY <1>0, ChainFacts
        <4>3. n <= finalized /\ n \in 0..HeadBlock
          BY <4>1, <4>2, SubmitterAssumption DEF SettledDepth
        <4>4. /\ NonceAfter(n) \in Nat
              /\ \A k \in 0..(NonceAfter(n) - 1) : \E m \in 1..n : SendAt(m) /\ TxAt(m).nonce = k
          BY <4>3 DEF SettleInv, NoncesInOrder
        <4>5. \A m \in 1..n : m \in 1..finalized
          BY <4>2, <4>3
        <4> QED BY <4>1, <4>4, <4>5
      <3> QED BY <2>1, <3>1, <3>2
    <2>3. TakenForGood(st) /\ SetWorker(w, st)
      BY <2>1, <2>2 DEF TakenForGood
    <2> HIDE DEF st
    <2>4. UNCHANGED <<blocks, chain, finalized, gas, ledger>>
      BY <1>1 DEF SettleRead, chainVars, dbVars
    <2> QED BY <1>0, <2>3, <2>4, OtherSettles, LedgerSettles
  <1>2. ASSUME Settle(w) PROVE SettleInv'
    <2> DEFINE s == worker[w].tx
    <2>1. /\ worker[w].pc = "settling" /\ SetWorker(w, Idle)
          /\ UNCHANGED <<blocks, chain, finalized>>
      BY <1>2 DEF Settle, chainVars
    <2>2. s \in Send
      BY <2>1 DEF AnchorInv, WorkerOK
    <2>3. TakenForGood(Idle)
      BY DEF TakenForGood, Idle
    <2>4. CASE RecordReceipt(s)
      BY <1>0, <2>1, <2>3, <2>4, RecordSettles, OtherSettles, LedgerSettles
    <2>5. CASE UNCHANGED <<ledger, gas>>
      BY <1>0, <2>1, <2>3, <2>5, OtherSettles, LedgerSettles
    <2>6. CASE /\ MinedAt(s) = {} /\ IsConsumed(s, worker[w].taken) /\ UNCHANGED gas
               /\ ledger[s] = "open" /\ ledger' = [ledger EXCEPT ![s] = "nonce_consumed"]
      <3>1. /\ HeadBlock' = HeadBlock /\ \A n : TxAt(n)' = TxAt(n) /\ SendAt(n)' = SendAt(n)
            /\ \A n : NonceAfter(n)' = NonceAfter(n)
            /\ \A tx : MinedAt(tx)' = MinedAt(tx)
        BY <2>1 DEF HeadBlock, TxAt, SendAt, NonceAfter, MinedAt
      <3>2. /\ ledger \in [Send -> LedgerState] /\ ledger'[s] = "nonce_consumed"
            /\ \A t \in Send : t # s => ledger'[t] = ledger[t]
        BY <2>2, <2>6 DEF AnchorInv, TypeOK, LedgerState
      <3>3. PICK n \in 1..finalized : SendAt(n) /\ TxAt(n).nonce = s.nonce
        <4>1. s.nonce \in Nat /\ s.nonce < worker[w].taken
          BY <2>2, <2>6, ChainAssumption DEF Send, IsConsumed
        <4> QED BY <2>1, <4>1 DEF SettleInv, TakenForGood
      <3>4. TxAt(n) # s
        <4>1. HeadBlock \in Nat /\ finalized \in Nat /\ finalized <= HeadBlock
          BY <1>0, ChainFacts
        <4> QED BY <2>6, <4>1 DEF MinedAt
      <3> HIDE DEF s
      <3>5. ReleasedNeverMined'
        <4> SUFFICES ASSUME NEW t \in Send, ledger'[t] = "nonce_consumed"
                     PROVE  /\ MinedAt(t)' = {}
                            /\ \E m \in 1..finalized' : /\ IsSend(TxAt(m)') /\ TxAt(m)' # t
                                                        /\ TxAt(m)'.nonce = t.nonce
          BY DEF ReleasedNeverMined
        <4>1. /\ MinedAt(t) = {}
              /\ \E m \in 1..finalized : /\ IsSend(TxAt(m)) /\ TxAt(m) # t
                                         /\ TxAt(m).nonce = t.nonce
          <5>1. CASE t = s
            BY <2>6, <3>3, <3>4, <5>1 DEF SendAt
          <5>2. CASE t # s
            BY <3>2, <5>2 DEF SettleInv, SettledAsMined, ReleasedNeverMined
          <5> QED BY <5>1, <5>2
        <4> QED BY <2>1, <3>1, <4>1
      <3>6. CostsAccounted'
        BY <2>6, <3>1, <3>2 DEF SettleInv, SettledAsMined, CostsAccounted
      <3>7. ReceiptsAreCosts'
        BY <2>6, <3>2 DEF SettleInv, ReceiptsAreCosts
      <3>8. NoncesInOrder'
        BY <3>1 DEF SettleInv, NoncesInOrder
      <3>9. \A v \in Worker : TakenForGood(worker[v])'
        <4>1. \A v \in Worker : TakenForGood(worker'[v])
          BY <1>0, <2>1, <2>3, OtherSettles
        <4> QED BY <2>1, <3>1, <4>1 DEF TakenForGood
      <3> QED BY <3>5, <3>6, <3>7, <3>8, <3>9 DEF SettleInv, SettledAsMined
    <2> QED BY <1>2, <2>4, <2>5, <2>6 DEF Settle
  <1> QED BY <1>1, <1>2 DEF SettleSends

LEMMA SubmitSettles ==
    ASSUME AnchorInv, SettleInv, NEW w \in Worker,
           \/ SubmitPending(w)
           \/ \E r \in Row : Observe(w, r)
           \/ Track(w)
           \/ Crash(w)
    PROVE  SettleInv'
  <1>0. DOMAIN worker = Worker /\ ledger \in [Send -> LedgerState]
    BY DEF AnchorInv, TypeOK, LedgerState
  <1>1. UNCHANGED <<blocks, chain, finalized>>
    BY DEF SubmitPending, ReadSpent, Admit, ReconcileFails, Reconcile, PrepareFails, Sign,
           Broadcast, CommitSend, Observe, Track, TrackIncluded, FinalityUnavailable,
           TrackReverted, TrackUnmined, Crash, chainVars
  <1> DEFINE Moves == \E st : SetWorker(w, st) /\ st.pc # "settling"
  <1>2. Moves
    <2>1. ASSUME NEW r \in Row, ReadSpent(w, r) \/ Observe(w, r) PROVE Moves
      <3>1. CASE ReadSpent(w, r)
        BY <3>1 DEF ReadSpent
      <3>2. CASE Observe(w, r)
        <4>1. PICK obs : SetWorker(w, [pc |-> "observed", row |-> r, obs |-> obs,
                                       head |-> HeadBlock])
          BY <3>2 DEF Observe
        <4> QED BY <4>1
      <3> QED BY <2>1, <3>1, <3>2
    <2>2. CASE Admit(w)
      BY <2>2 DEF Admit, Idle
    <2>3. ASSUME NEW r \in Row, ReconcileFails(w, r) \/ Reconcile(w, r) \/ PrepareFails(w, r)
          PROVE  SetWorker(w, Idle)
      BY <2>3 DEF ReconcileFails, Reconcile, PrepareFails
    <2>4. ASSUME NEW s \in Send, Sign(w, s) PROVE Moves
      BY <2>4 DEF Sign
    <2>5. ASSUME NEW reached \in BOOLEAN, NEW answered \in BOOLEAN,
                 Broadcast(w, reached, answered)
          PROVE  Moves
      BY <2>5 DEF Broadcast
    <2>6. CASE CommitSend(w) \/ Track(w) \/ Crash(w)
      <3>1. SetWorker(w, Idle)
        BY <2>6 DEF CommitSend, Track, TrackIncluded, FinalityUnavailable, TrackReverted,
                    TrackUnmined, Crash
      <3> QED BY <3>1 DEF Idle
    <2> QED BY <2>1, <2>2, <2>3, <2>4, <2>5, <2>6 DEF SubmitPending, Idle
  <1>3. \A v \in Worker : TakenForGood(worker'[v])
    BY <1>0, <1>2, OtherSettles DEF TakenForGood
  <1>4. /\ gas \subseteq gas'
        /\ \A s \in Send : \/ ledger'[s] = ledger[s]
                           \/ ledger[s] = "none" /\ ledger'[s] = "open"
                           \/ ledger'[s] = "receipt" /\ s \in gas'
    <2>1. CASE UNCHANGED <<gas, ledger>>
      BY <2>1
    <2>2. ASSUME NEW t \in Send, Sign(w, t)
          PROVE  /\ UNCHANGED gas
                 /\ \A s \in Send : \/ ledger'[s] = ledger[s]
                                    \/ ledger[s] = "none" /\ ledger'[s] = "open"
      BY <1>0, <2>2 DEF Sign, RecordSend
    <2>3. CASE \E tx : RecordReceipt(tx)
      BY <2>3, RecordSettles
    <2>4. Track(w) => UNCHANGED <<gas, ledger>> \/ \E tx : RecordReceipt(tx)
      BY DEF Track, TrackIncluded, FinalityUnavailable, TrackReverted, TrackUnmined
    <2>5. SubmitPending(w) => UNCHANGED <<gas, ledger>> \/ \E t \in Send : Sign(w, t)
      BY DEF SubmitPending, ReadSpent, Admit, ReconcileFails, Reconcile, PrepareFails,
             Broadcast, CommitSend, dbVars
    <2>6. (\E r \in Row : Observe(w, r)) \/ Crash(w) => UNCHANGED <<gas, ledger>>
      BY DEF Observe, Crash, dbVars
    <2> QED BY <2>1, <2>2, <2>3, <2>4, <2>5, <2>6
  <1> QED BY <1>1, <1>3, <1>4, LedgerSettles

LEMMA SettleStep ==
    AnchorInv /\ LedgerInv /\ SettleInv /\ [Next]_vars => SettleInv'
  <1> SUFFICES ASSUME AnchorInv, LedgerInv, SettleInv, [Next]_vars PROVE SettleInv'
    OBVIOUS
  <1>1. ASSUME NEW w \in Worker, WorkerNext(w) PROVE SettleInv'
    BY <1>1, SubmitSettles, SettlementSettles DEF WorkerNext
  <1>2. CASE ChainNext /\ UNCHANGED <<dbVars, worker>>
    BY <1>2, ChainSettles DEF AnchorInv, TypeOK
  <1>3. CASE \/ UNCHANGED vars
             \/ NewDay
             \/ \E r \in Row : Resubmit(r) \/ WatchEnds(r)
    <2>1. UNCHANGED <<blocks, chain, finalized, gas, ledger, worker>>
      BY <1>3 DEF vars, dbVars, NewDay, Resubmit, WatchEnds, chainVars
    <2>2. \A w \in Worker : TakenForGood(worker'[w])
      BY <2>1 DEF SettleInv
    <2> QED BY <2>1, <2>2, LedgerSettles
  <1> QED BY <1>1, <1>2, <1>3 DEF Next, Environment

(***************************************************************************)
(* For any reorganisations above the finalized height and any workers: a   *)
(* send released because its nonce was taken is never mined, and every     *)
(* mined send is counted, at its cost or at its reservation.  Reading the  *)
(* nonce before the receipt, and at a final height, is what carries it.    *)
(***************************************************************************)
THEOREM SettledSendsAreAsMined == Spec => []SettledAsMined
  <1> DEFINE Inv == AnchorInv /\ LedgerInv /\ SettleInv
  <1>1. Init => Inv
    BY AnchorStart, LedgerInit, SettleStart
  <1>2. Inv /\ [Next]_vars => Inv'
    BY AnchorStep, LedgerStep, SettleStep
  <1>3. Inv => SettledAsMined
    BY DEF SettleInv
  <1> QED BY <1>1, <1>2, <1>3, PTL DEF Spec

-----------------------------------------------------------------------------
(* The daily cap, for one worker: two may read the two ledgers while the    *)
(* other moves a cost from one to the other, and exceed it.                 *)

Counted == (gasToday \cap Send) \cup OpenSends

\* What a worker between the reads of the ledgers and the send relies on.
CapOK(st) ==
    /\ st.pc = "reading" => st.spent \in Nat /\ Cardinality(gasToday) <= st.spent
    /\ st.pc = "admitted" => Cardinality(Counted) + 1 <= DailyCap
    /\ st.pc = "observed" /\ st.obs.kind = "receipt" =>
          (rows[st.row].hash \in Send =>
              rows[st.row].hash \in gas \/ ledger[rows[st.row].hash] = "open")

CapInv ==
    /\ IsFiniteSet(gasToday) /\ IsFiniteSet(OpenSends)
    /\ SpendWithinCap
    /\ \A w \in Worker : CapOK(worker[w])

LEMMA CountedIsFinite ==
    ASSUME IsFiniteSet(gasToday), IsFiniteSet(OpenSends)
    PROVE  /\ IsFiniteSet(Counted)
           /\ Cardinality(Counted) \in Nat
           /\ Cardinality(gasToday) \in Nat /\ Cardinality(OpenSends) \in Nat
           /\ Cardinality(Counted) <= Cardinality(gasToday) + Cardinality(OpenSends)
  <1> DEFINE A == gasToday \cap Send
  <1>1. IsFiniteSet(A) /\ Cardinality(A) <= Cardinality(gasToday)
    BY FS_Subset
  <1>2. /\ Cardinality(A) \in Nat /\ Cardinality(gasToday) \in Nat
        /\ Cardinality(OpenSends) \in Nat
    BY <1>1, FS_CardinalityType
  <1>3. /\ IsFiniteSet(A \cap OpenSends) /\ Cardinality(A \cap OpenSends) \in Nat
    BY <1>1, FS_Subset, FS_CardinalityType
  <1>4. /\ IsFiniteSet(A \cup OpenSends)
        /\ Cardinality(A \cup OpenSends)
              = Cardinality(A) + Cardinality(OpenSends) - Cardinality(A \cap OpenSends)
    BY <1>1, FS_Union
  <1> QED BY <1>1, <1>2, <1>3, <1>4, FS_CardinalityType DEF Counted

\* Fewer sends counted, and no worker in the middle of a submission that the change concerns.
LEMMA CountsLess ==
    ASSUME CapInv, IsFiniteSet(gasToday'), OpenSends' \subseteq OpenSends, Counted' \subseteq Counted,
           \A w \in Worker : CapOK(worker[w])'
    PROVE  CapInv'
  <1>1. IsFiniteSet(OpenSends') /\ IsFiniteSet(Counted)
    BY CountedIsFinite, FS_Subset DEF CapInv
  <1>2. Cardinality(Counted') <= Cardinality(Counted) /\ IsFiniteSet(Counted')
    BY <1>1, FS_Subset
  <1>3. Cardinality(Counted') \in Nat /\ Cardinality(Counted) \in Nat
    BY <1>1, <1>2, FS_CardinalityType
  <1>4. Cardinality(Counted) <= DailyCap
    BY DEF CapInv, SpendWithinCap, Counted
  <1>5. SpendWithinCap'
    BY <1>2, <1>3, <1>4, SubmitterAssumption DEF SpendWithinCap, Counted
  <1> QED BY <1>1, <1>5 DEF CapInv

\* A receipt moves the cost of an open send from one ledger to the other.
LEMMA RecordCounts ==
    ASSUME CapInv, NEW tx, RecordReceipt(tx),
           tx \in Send => tx \in gas \/ ledger[tx] = "open"
    PROVE  IsFiniteSet(gasToday') /\ OpenSends' \subseteq OpenSends /\ Counted' \subseteq Counted
  <1>1. gasToday' \in {gasToday, gasToday \cup {tx}}
        /\ (gasToday' # gasToday => tx \notin gas)
    BY DEF RecordReceipt
  <1>2. IsFiniteSet(gasToday')
    BY <1>1, FS_AddElement DEF CapInv
  <1>3. OpenSends' \subseteq OpenSends
    BY DEF RecordReceipt, SettledByReceipt, OpenSends
  <1>4. tx \in Send /\ gasToday' # gasToday => tx \in OpenSends
    BY <1>1 DEF OpenSends
  <1> QED BY <1>1, <1>2, <1>3, <1>4 DEF Counted

OneWorker == \A v, w \in Worker : v = w

LEMMA CapEnvironment ==
    ASSUME AnchorInv, CapInv, Environment
    PROVE  CapInv'
  <1>1. /\ UNCHANGED <<gas, ledger, worker>> /\ gasToday' \in {gasToday, {}}
        /\ UNCHANGED gasToday \/ UNCHANGED rows
    BY DEF Environment, dbVars, Resubmit, WatchEnds, NewDay
  <1>2. OpenSends' = OpenSends /\ Counted' \subseteq Counted
    BY <1>1 DEF OpenSends, Counted
  <1>3. IsFiniteSet(gasToday') /\ Cardinality(gasToday') <= Cardinality(gasToday)
        /\ Cardinality(gasToday) \in Nat /\ Cardinality(gasToday') \in Nat
    <2>1. IsFiniteSet(gasToday) /\ Cardinality(gasToday) \in Nat
      BY FS_CardinalityType DEF CapInv
    <2>2. CASE gasToday' = {}
      BY <2>1, <2>2, FS_EmptySet
    <2>3. CASE gasToday' = gasToday
      BY <2>1, <2>3
    <2> QED BY <1>1, <2>2, <2>3
  <1>4. IsFiniteSet(Counted) /\ Cardinality(Counted) \in Nat
    BY CountedIsFinite DEF CapInv
  <1>5. Cardinality(Counted') <= Cardinality(Counted) /\ Cardinality(Counted') \in Nat
    BY <1>2, <1>4, FS_Subset, FS_CardinalityType
  <1>6. \A w \in Worker : worker[w].pc = "observed" =>
          rows'[worker[w].row].hash = rows[worker[w].row].hash
    <2> SUFFICES ASSUME NEW w \in Worker, worker[w].pc = "observed"
                 PROVE  rows'[worker[w].row].hash = rows[worker[w].row].hash
      OBVIOUS
    <2>1. /\ worker[w].row \in Row /\ worker[w].pc \in RowHolders
          /\ \A r \in Row : rows[r] \in RowRecord
          /\ rows \in [Row -> RowRecord]
      BY DEF AnchorInv, TypeOK, WorkerOK, RowHolders
    <2>2. ASSUME NEW r \in Row, Resubmit(r) PROVE rows'[worker[w].row] = rows[worker[w].row]
      BY <2>1, <2>2 DEF Resubmit, RowFree, SetRow
    <2>3. ASSUME NEW r \in Row, WatchEnds(r)
          PROVE  rows'[worker[w].row].hash = rows[worker[w].row].hash
      BY <2>1, <2>3 DEF WatchEnds, SetRow, RowRecord
    <2>4. CASE UNCHANGED rows
      BY <2>4
    <2> QED BY <2>2, <2>3, <2>4 DEF Environment, dbVars, NewDay
  <1>7. \A w \in Worker : CapOK(worker[w])'
    <2> SUFFICES ASSUME NEW w \in Worker PROVE CapOK(worker[w])'
      OBVIOUS
    <2>1. CapOK(worker[w])
      BY DEF CapInv
    <2>2. worker'[w].pc = "reading" =>
            worker'[w].spent \in Nat /\ Cardinality(gasToday') <= worker'[w].spent
      BY <1>1, <1>3, <2>1 DEF CapOK
    <2>3. worker'[w].pc = "admitted" => Cardinality(Counted') + 1 <= DailyCap
      BY <1>1, <1>4, <1>5, <2>1, SubmitterAssumption DEF CapOK
    <2> QED BY <1>1, <1>6, <2>1, <2>2, <2>3 DEF CapOK
  <1> QED BY <1>2, <1>3, <1>7, CountsLess

\* One worker goes on to st, counting no more than before.
LEMMA CapMoves ==
    ASSUME AnchorInv, CapInv, OneWorker, NEW w \in Worker, NEW st, SetWorker(w, st),
           IsFiniteSet(gasToday'), OpenSends' \subseteq OpenSends, Counted' \subseteq Counted,
           CapOK(st)'
    PROVE  CapInv'
  <1>1. worker'[w] = st /\ \A v \in Worker : v = w
    BY DEF SetWorker, OneWorker, AnchorInv, TypeOK
  <1>2. \A v \in Worker : CapOK(worker[v])'
    BY <1>1 DEF CapOK
  <1> QED BY <1>2, CountsLess

LEMMA CapStays ==
    ASSUME AnchorInv, CapInv, OneWorker, NEW w \in Worker, NEW st, SetWorker(w, st),
           UNCHANGED <<gas, gasToday, ledger>>, CapOK(st)'
    PROVE  CapInv'
  <1>1. OpenSends' = OpenSends /\ Counted' = Counted /\ IsFiniteSet(gasToday')
    BY DEF OpenSends, Counted, CapInv
  <1> QED BY <1>1, CapMoves

\* Admission: spentTodayWei counts what was recorded, inFlightSends what is open; the send fits.
LEMMA CapAdmits ==
    ASSUME AnchorInv, CapInv, OneWorker, NEW w \in Worker,
           \/ \E r \in Row : ReadSpent(w, r)
           \/ Admit(w)
           \/ \E s \in Send : Sign(w, s)
    PROVE  CapInv'
  <1>0. /\ IsFiniteSet(Counted) /\ Cardinality(Counted) \in Nat
        /\ Cardinality(gasToday) \in Nat /\ Cardinality(OpenSends) \in Nat
        /\ Cardinality(Counted) <= Cardinality(gasToday) + Cardinality(OpenSends)
        /\ DailyCap \in Nat
        /\ CapOK(worker[w])
    BY CountedIsFinite, SubmitterAssumption DEF CapInv
  <1>1. ASSUME NEW r \in Row, ReadSpent(w, r) PROVE CapInv'
    <2>1. PICK n : n = Cardinality(gasToday)
      OBVIOUS
    <2> DEFINE st == [pc |-> "reading", row |-> r, spent |-> n]
    <2>2. SetWorker(w, st) /\ UNCHANGED <<gas, gasToday, ledger>>
      BY <1>1, <2>1 DEF ReadSpent, dbVars
    <2>3. CapOK(st)'
      BY <1>0, <2>1, <2>2 DEF CapOK
    <2> HIDE DEF st
    <2> QED BY <2>2, <2>3, CapStays
  <1>2. CASE Admit(w)
    <2>1. UNCHANGED <<gas, gasToday, ledger>> /\ worker[w].pc = "reading"
      BY <1>2 DEF Admit
    <2>2. CASE SetWorker(w, Idle)
      <3>1. CapOK(Idle)'
        BY DEF CapOK, Idle
      <3> QED BY <2>1, <2>2, <3>1, CapStays
    <2>3. CASE HasRoom(worker[w].spent) /\ SetWorker(w, [pc |-> "admitted", row |-> worker[w].row])
      <3>1. PICK st : st = [pc |-> "admitted", row |-> worker[w].row]
        OBVIOUS
      <3>2. Counted' = Counted
        BY <2>1 DEF Counted, OpenSends
      <3>3. Cardinality(Counted) + 1 <= DailyCap
        <4>1. worker[w].spent + Cardinality(OpenSends) + 1 <= DailyCap
          BY <2>3 DEF HasRoom, InFlight
        <4> QED BY <1>0, <2>1, <4>1 DEF CapOK
      <3>4. CapOK(st)'
        BY <3>1, <3>2, <3>3 DEF CapOK
      <3> QED BY <2>1, <2>3, <3>1, <3>4, CapStays
    <2> QED BY <1>2, <2>2, <2>3 DEF Admit
  <1>3. ASSUME NEW s \in Send, Sign(w, s) PROVE CapInv'
    <2>1. /\ worker[w].pc = "admitted" /\ UNCHANGED <<gas, gasToday>>
          /\ ledger' = RecordSend(s)
          /\ worker' = [worker EXCEPT ![w] = [pc |-> "signed", row |-> s.row, tx |-> s]]
      BY <1>3 DEF Sign, Admitted, SetWorker
    <2>2. OpenSends' \subseteq OpenSends \cup {s} /\ Counted' \subseteq Counted \cup {s}
      BY <2>1 DEF OpenSends, Counted, RecordSend, AnchorInv, TypeOK
    <2>3. IsFiniteSet(gasToday') /\ IsFiniteSet(OpenSends')
      BY <2>1, <2>2, FS_AddElement, FS_Subset DEF CapInv
    <2>4. /\ IsFiniteSet(Counted \cup {s}) /\ Cardinality(Counted \cup {s}) \in Nat
          /\ Cardinality(Counted \cup {s}) <= Cardinality(Counted) + 1
      <3>1. PICK C : C = Counted
        OBVIOUS
      <3>2. /\ IsFiniteSet(C \cup {s})
            /\ Cardinality(C \cup {s}) = IF s \in C THEN Cardinality(C) ELSE Cardinality(C) + 1
        BY <1>0, <3>1, FS_AddElement
      <3> QED BY <1>0, <3>1, <3>2
    <2>5. /\ Cardinality(Counted') <= Cardinality(Counted \cup {s})
          /\ Cardinality(Counted') \in Nat
      BY <2>2, <2>4, FS_Subset, FS_CardinalityType
    <2>6. Cardinality(Counted) + 1 <= DailyCap
      BY <1>0, <2>1 DEF CapOK
    <2>7. SpendWithinCap'
      BY <1>0, <2>4, <2>5, <2>6 DEF SpendWithinCap, Counted
    <2>8. \A v \in Worker : CapOK(worker[v])'
      BY <2>1 DEF OneWorker, CapOK, AnchorInv, TypeOK
    <2> QED BY <2>3, <2>7, <2>8 DEF CapInv
  <1> QED BY <1>1, <1>2, <1>3

LEMMA CapTracks ==
    ASSUME AnchorInv, SettleInv, CapInv, OneWorker, NEW w \in Worker,
           \/ \E r \in Row : Observe(w, r)
           \/ Track(w)
           \/ SettleSends(w)
    PROVE  CapInv'
  <1>0. CapOK(worker[w]) /\ WorkerOK(worker[w]) /\ ledger \in [Send -> LedgerState]
    BY DEF CapInv, AnchorInv, TypeOK, LedgerState
  <1>1. CapOK(Idle)'
    BY DEF CapOK, Idle
  <1>2. ASSUME NEW r \in Row, Observe(w, r) PROVE CapInv'
    <2>1. UNCHANGED <<gas, gasToday, ledger, rows>>
      BY <1>2 DEF Observe, dbVars
    <2>2. PICK obs : /\ obs.kind = "receipt" => MinedAt(rows[r].hash) # {}
                     /\ SetWorker(w, [pc |-> "observed", row |-> r, obs |-> obs,
                                      head |-> HeadBlock])
      BY <1>2 DEF Observe, Pending, Unknown
    <2>3. PICK st : st = [pc |-> "observed", row |-> r, obs |-> obs, head |-> HeadBlock]
      OBVIOUS
    <2>4. obs.kind = "receipt" /\ rows[r].hash \in Send =>
            rows[r].hash \in gas \/ ledger[rows[r].hash] = "open"
      BY <2>2 DEF SettleInv, SettledAsMined, CostsAccounted
    <2>5. CapOK(st)'
      BY <2>1, <2>3, <2>4 DEF CapOK
    <2> QED BY <2>1, <2>2, <2>3, <2>5, CapStays
  <1>3. CASE TrackUnmined(w)
    BY <1>1, <1>3, CapStays DEF TrackUnmined
  <1>4. CASE TrackIncluded(w) \/ FinalityUnavailable(w) \/ TrackReverted(w)
    <2>1. PICK tx : tx = rows[worker[w].row].hash
      OBVIOUS
    <2>2. /\ RecordReceipt(tx) /\ SetWorker(w, Idle)
          /\ worker[w].pc = "observed" /\ worker[w].obs.kind = "receipt"
      BY <1>4, <2>1 DEF TrackIncluded, FinalityUnavailable, TrackReverted, Observed
    <2>3. tx \in Send => tx \in gas \/ ledger[tx] = "open"
      BY <1>0, <2>1, <2>2 DEF CapOK
    <2> QED BY <1>1, <2>2, <2>3, RecordCounts, CapMoves
  <1>5. ASSUME NEW s \in Send, SettleRead(w, s) PROVE CapInv'
    <2>1. PICK st : SetWorker(w, st) /\ st.pc = "settling"
      BY <1>5 DEF SettleRead
    <2>2. UNCHANGED <<gas, gasToday, ledger>> /\ CapOK(st)'
      BY <1>5, <2>1 DEF SettleRead, dbVars, CapOK
    <2> QED BY <2>1, <2>2, CapStays
  <1>6. CASE Settle(w)
    <2>1. PICK s : s = worker[w].tx
      OBVIOUS
    <2>2. s \in Send /\ SetWorker(w, Idle)
      BY <1>0, <1>6, <2>1 DEF Settle, WorkerOK
    <2>3. CASE MinedAt(s) # {}
      <3>1. RecordReceipt(s)
        BY <1>6, <2>1, <2>3 DEF Settle
      <3>2. s \in gas \/ ledger[s] = "open"
        BY <2>2, <2>3 DEF SettleInv, SettledAsMined, CostsAccounted
      <3> QED BY <1>1, <2>2, <3>1, <3>2, RecordCounts, CapMoves
    <2>4. CASE MinedAt(s) = {}
      <3>1. /\ ledger' \in {ledger, [ledger EXCEPT ![s] = "nonce_consumed"]}
            /\ UNCHANGED <<gas, gasToday>>
        BY <1>6, <2>1, <2>4 DEF Settle
      <3>2. OpenSends' \subseteq OpenSends
        BY <1>0, <2>2, <3>1 DEF OpenSends
      <3>3. Counted' \subseteq Counted /\ IsFiniteSet(gasToday')
        BY <3>1, <3>2 DEF Counted, CapInv
      <3> QED BY <1>1, <2>2, <3>2, <3>3, CapMoves
    <2> QED BY <2>3, <2>4
  <1> QED BY <1>2, <1>3, <1>4, <1>5, <1>6 DEF Track, SettleSends

LEMMA CapStep ==
    ASSUME OneWorker
    PROVE  AnchorInv /\ SettleInv /\ CapInv /\ [Next]_vars => CapInv'
  <1> SUFFICES ASSUME AnchorInv, SettleInv, CapInv, [Next]_vars PROVE CapInv'
    OBVIOUS
  <1>1. ASSUME NEW w \in Worker, WorkerNext(w) PROVE CapInv'
    <2>1. ASSUME NEW r \in Row, ReconcileFails(w, r) \/ Reconcile(w, r) \/ PrepareFails(w, r)
          PROVE  CapInv'
      <3>1. SetWorker(w, Idle) /\ UNCHANGED <<gas, gasToday, ledger>> /\ CapOK(Idle)'
        BY <2>1 DEF ReconcileFails, Reconcile, PrepareFails, CapOK, Idle
      <3> QED BY <3>1, CapStays
    <2>2. ASSUME NEW reached \in BOOLEAN, NEW answered \in BOOLEAN,
                 Broadcast(w, reached, answered)
          PROVE  CapInv'
      <3>1. PICK st : SetWorker(w, st) /\ st.pc = "sent"
        BY <2>2 DEF Broadcast
      <3>2. UNCHANGED <<gas, gasToday, ledger>> /\ CapOK(st)'
        BY <2>2, <3>1 DEF Broadcast, dbVars, CapOK
      <3> QED BY <3>1, <3>2, CapStays
    <2>3. CASE CommitSend(w) \/ Crash(w)
      <3>1. SetWorker(w, Idle) /\ UNCHANGED <<gas, gasToday, ledger>> /\ CapOK(Idle)'
        BY <2>3 DEF CommitSend, Crash, dbVars, CapOK, Idle
      <3> QED BY <3>1, CapStays
    <2> QED BY <1>1, <2>1, <2>2, <2>3, CapAdmits, CapTracks DEF WorkerNext, SubmitPending
  <1>2. CASE UNCHANGED vars
    <2>1. UNCHANGED <<rows, gas, gasToday, ledger, worker>>
      BY <1>2 DEF vars, dbVars
    <2>2. OpenSends' = OpenSends /\ Counted' = Counted
      BY <2>1 DEF OpenSends, Counted
    <2>3. SpendWithinCap'
      BY <2>2 DEF CapInv, SpendWithinCap, Counted
    <2> QED BY <2>1, <2>2, <2>3 DEF CapInv, CapOK
  <1> QED BY <1>1, <1>2, CapEnvironment DEF Next

(***************************************************************************)
(* With one worker, however receipts, settlements and midnight fall, what  *)
(* was recorded today and what can still be mined never exceed the daily   *)
(* cap: the spend lock and the order of the two reads of the ledgers.      *)
(***************************************************************************)
THEOREM OneWorkerSpendsWithinCap ==
    ASSUME OneWorker
    PROVE  Spec => []SpendWithinCap
  <1> DEFINE Inv == AnchorInv /\ LedgerInv /\ SettleInv /\ CapInv
  <1>1. Init => CapInv
    <2> SUFFICES ASSUME Init PROVE CapInv
      OBVIOUS
    <2>1. gasToday = {} /\ OpenSends = {}
      BY DEF Init, OpenSends
    <2>2. (gasToday \cap Send) \cup OpenSends = {}
      BY <2>1
    <2>3. SpendWithinCap
      BY <2>2, FS_EmptySet, SubmitterAssumption DEF SpendWithinCap
    <2> QED BY <2>1, <2>3, FS_EmptySet DEF Init, CapInv, CapOK, Idle
  <1>2. Init => Inv
    BY <1>1, AnchorStart, LedgerInit, SettleStart
  <1>3. Inv /\ [Next]_vars => Inv'
    BY AnchorStep, LedgerStep, SettleStep, CapStep
  <1>4. Inv => SpendWithinCap
    BY DEF CapInv
  <1> QED BY <1>2, <1>3, <1>4, PTL DEF Spec

=============================================================================
