----------------------------- MODULE AnchorChain -----------------------------
(***************************************************************************)
(* The chain as the anchor worker sees it through its RPC node             *)
(* (apps/anchor-worker/src/viem-chain-client.ts): one signer's nonces, the *)
(* anchor contract's storage, blocks that a reorg may replace, and a head  *)
(* below which none is replaced.  It is outside the repository: a model of *)
(* what the worker has to survive, not of code.                            *)
(*                                                                         *)
(* A block carries at most one transaction that matters here.  A send is   *)
(* identified by the row it anchors, its nonce and the fees it was quoted: *)
(* signing the same again gives the same transaction, signing the row with *)
(* other fees one that replaces it.                                        *)
(***************************************************************************)
EXTENDS Integers, Sequences, FiniteSets

CONSTANTS
    Row,        \* chain.transactions rows, each the anchor of one batch
    Quote,      \* bound: fee quotes a send may be signed with
    MaxNonce,   \* bound: the signer's nonces are 0..MaxNonce
    MaxBlocks,  \* bound: blocks ever produced, on all forks
    Outsiders   \* transactions of other holders of the submitter role

ASSUME ChainAssumption ==
    /\ MaxNonce \in Nat /\ MaxBlocks \in Nat
    /\ Outsiders \subseteq [row: Row, root: {"ours", "other"}]

VARIABLES
    blocks,     \* every block ever produced; its index is its hash
    chain,      \* the canonical chain, as block hashes
    finalized,  \* length of the prefix of chain that no reorg replaces
    broadcast   \* the signer's transactions that reached the network

chainVars == <<blocks, chain, finalized, broadcast>>

Send == [row: Row, nonce: 0..MaxNonce, quote: Quote]
Tx == Send \cup Outsiders
NoTx == [row |-> "none"]

Block == [tx: Tx \cup {NoTx}, ok: BOOLEAN]

IsSend(tx) == "nonce" \in DOMAIN tx

\* The root a transaction carries: ours, except for an outsider's own.
RootOf(tx) == IF IsSend(tx) THEN "ours" ELSE tx.root

TxAt(n) == blocks[chain[n]].tx
HeadBlock == Len(chain)

\* The heights at which tx, and at which a root of row r's batch, is mined.
MinedAt(tx) == {n \in 1..HeadBlock : TxAt(n) = tx}
StoredAt(r) == {n \in 1..HeadBlock : TxAt(n) # NoTx /\ TxAt(n).row = r /\ blocks[chain[n]].ok}

\* The signer's transaction count after block n.
NonceAfter(n) == Cardinality({m \in 1..n : TxAt(m) # NoTx /\ IsSend(TxAt(m))})

\* A nonce the node may offer as the pending one: it counts the mined
\* transactions and any unmined ones it still remembers without a gap.
PendingNonce(n) ==
    /\ n \in NonceAfter(HeadBlock)..MaxNonce
    /\ \A m \in NonceAfter(HeadBlock)..(n - 1) : \E s \in broadcast : s.nonce = m

ChainInit ==
    /\ blocks = <<>>
    /\ chain = <<>>
    /\ finalized = 0
    /\ broadcast = {}

\* Append a block holding tx.  submitRoot fails when the batch is already
\* stored, and may fail otherwise (a paused contract).
Produce(tx, ok) ==
    /\ Len(blocks) < MaxBlocks
    /\ blocks' = Append(blocks, [tx |-> tx, ok |-> ok])
    /\ chain' = Append(chain, Len(blocks) + 1)
    /\ UNCHANGED <<finalized, broadcast>>

MineSend(s) ==
    /\ s \in broadcast
    /\ s.nonce = NonceAfter(HeadBlock)
    /\ \E ok \in BOOLEAN : (ok => StoredAt(s.row) = {}) /\ Produce(s, ok)

MineOutsider(o) ==
    /\ MinedAt(o) = {}
    /\ Produce(o, StoredAt(o.row) = {})

MineEmpty == Produce(NoTx, TRUE)

Finalize ==
    /\ finalized < HeadBlock
    /\ finalized' = finalized + 1
    /\ UNCHANGED <<blocks, chain, broadcast>>

\* The blocks above height n are replaced; their transactions may be mined
\* again.
Reorg(n) ==
    /\ n \in finalized..(HeadBlock - 1)
    /\ chain' = SubSeq(chain, 1, n)
    /\ UNCHANGED <<blocks, finalized, broadcast>>

ChainNext ==
    \/ \E s \in Send : MineSend(s)
    \/ \E o \in Outsiders : MineOutsider(o)
    \/ MineEmpty
    \/ Finalize
    \/ \E n \in 0..MaxBlocks : Reorg(n)

ChainTypeOK ==
    /\ blocks \in Seq(Block)
    /\ chain \in Seq(1..Len(blocks))
    /\ finalized \in 0..Len(chain)
    /\ broadcast \in SUBSET Send
=============================================================================
