---------------------------- MODULE RegistryProofs ----------------------------
(***************************************************************************)
(* Proofs about RegistryAnchorV1 for every set of ids, roots and accounts, *)
(* about the move of a batch from one such contract to another (SafeMoves) *)
(* for any number of workers, transactions and proposals, and about        *)
(* RegistryPublication for any number of drafts, people, publish requests  *)
(* and batch requests, and for both kinds of entry.                        *)
(***************************************************************************)
EXTENDS RegistryAnchor, SafeMoves, RegistryPublication,
        FiniteSetTheorems, FunctionTheorems, SequenceTheorems, TLAPS

-----------------------------------------------------------------------------
(* RegistryAnchor.                                                         *)

(***************************************************************************)
(* What each step can do to storage.  Every later proof splits on these    *)
(* four cases instead of on the ten actions: a step submits one batch,     *)
(* revokes one, links one, or leaves storage and events alone.             *)
(***************************************************************************)
Quiet == UNCHANGED <<batches, batchIds, events>>

LEMMA StepCases ==
    ASSUME [Next]_vars
    PROVE  \/ \E a \in Account, b \in BatchId, r \in Root, n \in 0..MaxRecords :
                 SubmitRoot(a, b, r, n)
           \/ \E a \in Account, b \in BatchId : RevokeBatch(a, b)
           \/ \E a \in Account, b, new \in BatchId : SupersedeBatch(a, b, new)
           \/ Quiet
<1>1. CASE UNCHANGED vars
  BY <1>1 DEF Quiet, vars
<1>2. CASE Next
  BY <1>2 DEF Next, Quiet, Pause, Unpause, RotateSubmitter, RotatePauser, NextBlock
<1>3. QED
  BY <1>1, <1>2

\* Setting the revoked flag keeps a batch record well typed.
LEMMA RevokedTyped ==
    ASSUME NEW x \in Batch
    PROVE  [x EXCEPT !.revoked = TRUE] \in Batch
  BY DEF Batch

(***************************************************************************)
(* Type correctness: a step of the contract leaves storage, the id list,   *)
(* the roles and the event log well typed.                                 *)
(***************************************************************************)
LEMMA TypeStep ==
    ASSUME TypeOK, [Next]_vars
    PROVE  TypeOK'
<1> USE ContractAssumption DEF TypeOK
<1>1. ASSUME NEW a \in Account, NEW b \in BatchId, NEW r \in Root,
             NEW n \in 0..MaxRecords, SubmitRoot(a, b, r, n)
      PROVE  TypeOK'
  <2>1. [root |-> r, recordCount |-> n, submittedAt |-> now,
         revoked |-> FALSE, supersededBy |-> Zero] \in Batch
    BY DEF Batch
  <2>2. batches' \in [BatchId -> Batch]
    BY <1>1, <2>1 DEF SubmitRoot, MayWrite, FreshId, PushId
  <2>3. events' \in SUBSET Event
    BY <1>1 DEF SubmitRoot, MayWrite, FreshId, PushId, Event
  <2>4. QED
    BY <1>1, <2>2, <2>3 DEF SubmitRoot, MayWrite, FreshId, PushId, roles
<1>2. ASSUME NEW a \in Account, NEW b \in BatchId, RevokeBatch(a, b)
      PROVE  TypeOK'
  <2>1. batches' \in [BatchId -> Batch]
    BY <1>2, RevokedTyped DEF RevokeBatch, MayWrite
  <2>2. events' \in SUBSET Event
    BY <1>2 DEF RevokeBatch, MayWrite, Event
  <2>3. QED
    BY <1>2, <2>1, <2>2 DEF RevokeBatch, MayWrite, roles
<1>3. ASSUME NEW a \in Account, NEW b \in BatchId, NEW new \in BatchId,
             SupersedeBatch(a, b, new)
      PROVE  TypeOK'
  <2>1. batches' \in [BatchId -> Batch]
    BY <1>3, SMTT(30) DEF SupersedeBatch, MayWrite, Replaceable, Replacement, Batch
  <2>2. events' \in SUBSET Event
    BY <1>3 DEF SupersedeBatch, MayWrite, Replaceable, Replacement, Event
  <2>3. QED
    BY <1>3, <2>1, <2>2 DEF SupersedeBatch, MayWrite, Replaceable, Replacement, roles
<1>4. ASSUME NEW a \in Account, Pause(a) \/ Unpause(a)
      PROVE  TypeOK'
  BY <1>4 DEF Pause, Unpause, roles
<1>5. ASSUME NEW a \in Account, NEW new \in SUBSET Account,
             RotateSubmitter(a, new) \/ RotatePauser(a, new)
      PROVE  TypeOK'
  BY <1>5 DEF RotateSubmitter, RotatePauser
<1>6. CASE NextBlock
  BY <1>6 DEF NextBlock, roles
<1>7. CASE UNCHANGED vars
  BY <1>7 DEF vars, roles
<1>8. QED
  BY <1>1, <1>2, <1>3, <1>4, <1>5, <1>6, <1>7 DEF Next

(***************************************************************************)
(* The contract's storage is always well typed.                            *)
(***************************************************************************)
THEOREM TypeCorrect == Spec => []TypeOK
<1>1. Init => TypeOK
  <2>1. NoBatch \in Batch
    BY ContractAssumption DEF NoBatch, Batch
  <2>2. Init => batches \in [BatchId -> Batch]
    BY <2>1 DEF Init
  <2>3. Init => batchIds \in Seq(BatchId)
    BY DEF Init
  <2>4. Init => paused \in BOOLEAN
    BY DEF Init
  <2>5. Init => /\ submitters \in SUBSET Account
                /\ pausers \in SUBSET Account
                /\ events \in SUBSET Event
    BY DEF Init
  <2>6. Init => now \in Nat \ {0}
    BY DEF Init
  <2>7. QED
    BY <2>2, <2>3, <2>4, <2>5, <2>6 DEF TypeOK
<1>2. TypeOK /\ [Next]_vars => TypeOK'
  BY TypeStep
<1>3. QED
  BY <1>1, <1>2, PTL DEF Spec

-----------------------------------------------------------------------------
(***************************************************************************)
(* Constraint 6: supersedeBatch can never close a cycle.  A set whose      *)
(* links all stay inside it cannot appear: the only batch that gains a     *)
(* link points at one that has none.                                       *)
(***************************************************************************)
LEMMA AcyclicStep ==
    ASSUME TypeOK, SupersedeAcyclic, [Next]_vars
    PROVE  SupersedeAcyclic'
<1> USE DEF TypeOK, IsHead
<1> SUFFICES ASSUME NEW S \in SUBSET BatchId, S # {}
             PROVE  \E b \in S : IsHead(b)' \/ batches'[b].supersededBy \notin S
  BY DEF SupersedeAcyclic
<1>0. PICK w \in S : IsHead(w) \/ batches[w].supersededBy \notin S
  BY DEF SupersedeAcyclic
<1>1. ASSUME NEW a \in Account, NEW b \in BatchId, NEW r \in Root,
             NEW n \in 0..MaxRecords, SubmitRoot(a, b, r, n)
      PROVE  \E x \in S : IsHead(x)' \/ batches'[x].supersededBy \notin S
  <2>1. IsHead(w)' \/ batches'[w].supersededBy \notin S
    BY <1>0, <1>1 DEF SubmitRoot, MayWrite, FreshId, PushId
  <2>2. QED
    BY <2>1
<1>2. ASSUME NEW a \in Account, NEW b \in BatchId, RevokeBatch(a, b)
      PROVE  \E x \in S : IsHead(x)' \/ batches'[x].supersededBy \notin S
  <2>1. IsHead(w)' \/ batches'[w].supersededBy \notin S
    BY <1>0, <1>2 DEF RevokeBatch, MayWrite, Batch
  <2>2. QED
    BY <2>1
<1>3. ASSUME NEW a \in Account, NEW b \in BatchId, NEW new \in BatchId,
             SupersedeBatch(a, b, new)
      PROVE  \E x \in S : IsHead(x)' \/ batches'[x].supersededBy \notin S
  <2>1. CASE b \notin S
    <3>1. IsHead(w)' \/ batches'[w].supersededBy \notin S
      BY <1>0, <1>3, <2>1 DEF SupersedeBatch, MayWrite, Replaceable, Replacement, Batch
    <3>2. QED
      BY <3>1
  <2>2. CASE b \in S /\ new \notin S
    <3>1. batches'[b].supersededBy \notin S
      BY <1>3, <2>2 DEF SupersedeBatch, MayWrite, Replaceable, Replacement, Batch
    <3>2. QED
      BY <2>2, <3>1
  <2>3. CASE b \in S /\ new \in S
    <3>1. IsHead(new)'
      BY <1>3 DEF SupersedeBatch, MayWrite, Replaceable, Replacement, Batch
    <3>2. QED
      BY <2>3, <3>1
  <2>4. QED
    BY <2>1, <2>2, <2>3
<1>4. ASSUME Quiet
      PROVE  \E x \in S : IsHead(x)' \/ batches'[x].supersededBy \notin S
  BY <1>0, <1>4 DEF Quiet
<1>5. QED
  BY <1>1, <1>2, <1>3, <1>4, StepCases

(***************************************************************************)
(* In every reachable state, no set of batches is closed under its links.  *)
(***************************************************************************)
THEOREM ChainsEnd == Spec => []SupersedeAcyclic
<1>1. Init => SupersedeAcyclic
  BY DEF Init, SupersedeAcyclic, IsHead, NoBatch
<1>2. TypeOK /\ SupersedeAcyclic /\ [Next]_vars => SupersedeAcyclic'
  BY AcyclicStep
<1>3. QED
  BY <1>1, <1>2, TypeCorrect, PTL DEF Spec

-----------------------------------------------------------------------------
(***************************************************************************)
(* Constraints 1, 2, 3 and 5: no step of any sender changes a stored root, *)
(* withdraws a revocation or re-points a supersede link.                   *)
(***************************************************************************)
THEOREM HistoryKept == Spec => HistoryAppendOnly
<1>1. TypeOK /\ [Next]_vars => [HistoryStep]_vars
  <2> SUFFICES ASSUME TypeOK, [Next]_vars
               PROVE  HistoryStep
    OBVIOUS
  <2> USE DEF TypeOK, HistoryStep, Submitted, Exists, IsHead, Batch
  <2>1. ASSUME NEW a \in Account, NEW b \in BatchId, NEW r \in Root,
               NEW n \in 0..MaxRecords, SubmitRoot(a, b, r, n)
        PROVE  HistoryStep
    BY <2>1 DEF SubmitRoot, MayWrite, FreshId, PushId
  <2>2. ASSUME NEW a \in Account, NEW b \in BatchId, RevokeBatch(a, b)
        PROVE  HistoryStep
    BY <2>2 DEF RevokeBatch, MayWrite
  <2>3. ASSUME NEW a \in Account, NEW b \in BatchId, NEW new \in BatchId,
               SupersedeBatch(a, b, new)
        PROVE  HistoryStep
    BY <2>3 DEF SupersedeBatch, MayWrite, Replaceable, Replacement
  <2>4. ASSUME Quiet PROVE HistoryStep
    BY <2>4 DEF Quiet
  <2>5. QED
    BY <2>1, <2>2, <2>3, <2>4, StepCases
<1>2. QED
  BY <1>1, TypeCorrect, PTL DEF Spec, HistoryAppendOnly

-----------------------------------------------------------------------------
(***************************************************************************)
(* Constraint 3: storage and the event log always tell one history.  The   *)
(* last two conjuncts of HistoryAgrees make it inductive: submitRoot needs *)
(* an id never submitted to have no revocation or link in the log, and     *)
(* supersedeBatch needs its successor to differ from the zero word.        *)
(***************************************************************************)

\* What one step does not touch of a batch stays in agreement.
LEMMA AgreementFramed ==
    ASSUME NEW x \in BatchId, HistoryAgrees(x), batches'[x] = batches[x],
           \A t \in {"RootSubmitted", "BatchRevoked", "BatchSuperseded"} :
               Logged(t, x)' = Logged(t, x)
    PROVE  HistoryAgrees(x)'
  BY DEF HistoryAgrees, Exists, IsHead

LEMMA AgreementStep ==
    ASSUME TypeOK, StorageMatchesEvents, [Next]_vars
    PROVE  StorageMatchesEvents'
<1> USE DEF TypeOK
<1>0. \A x \in BatchId : HistoryAgrees(x)
  BY DEF StorageMatchesEvents
<1> SUFFICES ASSUME NEW x \in BatchId
             PROVE  HistoryAgrees(x)'
  BY DEF StorageMatchesEvents
<1>1. ASSUME NEW a \in Account, NEW b \in BatchId, NEW r \in Root,
             NEW n \in 0..MaxRecords, SubmitRoot(a, b, r, n)
      PROVE  HistoryAgrees(x)'
  <2>1. CASE x # b
    <3>1. batches'[x] = batches[x]
      BY <1>1, <2>1 DEF SubmitRoot, MayWrite, FreshId, PushId
    <3>2. \A t \in {"RootSubmitted", "BatchRevoked", "BatchSuperseded"} :
             Logged(t, x)' = Logged(t, x)
      BY <1>1, <2>1 DEF SubmitRoot, MayWrite, FreshId, PushId, Logged
    <3>3. QED
      BY <1>0, <3>1, <3>2, AgreementFramed DEF Exists
  <2>2. CASE x = b
    <3>1. batches'[b] = [root |-> r, recordCount |-> n, submittedAt |-> now,
                         revoked |-> FALSE, supersededBy |-> Zero]
      BY <1>1 DEF SubmitRoot, MayWrite, FreshId, PushId
    <3>2. batches[b] = NoBatch /\ b # Zero /\ now # 0
      BY <1>0, <1>1 DEF SubmitRoot, MayWrite, FreshId, PushId, HistoryAgrees
    <3>3. /\ Logged("RootSubmitted", b) = {}
          /\ Logged("BatchRevoked", b) = {}
          /\ Logged("BatchSuperseded", b) = {}
      BY <1>0, <3>2 DEF HistoryAgrees, NoBatch, Exists
    <3>4. /\ Logged("RootSubmitted", b)' = {[type |-> "RootSubmitted", id |-> b, root |-> r]}
          /\ Logged("BatchRevoked", b)' = {}
          /\ Logged("BatchSuperseded", b)' = {}
      BY <1>1, <3>3 DEF SubmitRoot, MayWrite, FreshId, PushId, Logged
    <3>5. Exists(b)' /\ IsHead(b)' /\ batches'[b].root = r /\ ~batches'[b].revoked
      BY <3>1, <3>2 DEF Exists, IsHead
    <3>6. IsSingleton(Logged("RootSubmitted", b)')
      BY <3>4 DEF IsSingleton
    <3>7. QED
      BY <2>2, <3>2, <3>4, <3>5, <3>6 DEF HistoryAgrees
  <2>3. QED
    BY <2>1, <2>2
<1>2. ASSUME NEW a \in Account, NEW b \in BatchId, RevokeBatch(a, b)
      PROVE  HistoryAgrees(x)'
  <2>1. /\ Logged("RootSubmitted", x)' = Logged("RootSubmitted", x)
        /\ Logged("BatchSuperseded", x)' = Logged("BatchSuperseded", x)
    BY <1>2 DEF RevokeBatch, MayWrite, Logged
  <2>2. CASE x # b
    <3>1. batches'[x] = batches[x]
      BY <1>2, <2>2 DEF RevokeBatch, MayWrite
    <3>2. Logged("BatchRevoked", x)' = Logged("BatchRevoked", x)
      BY <1>2, <2>2 DEF RevokeBatch, MayWrite, Logged
    <3>3. QED
      BY <1>0, <2>1, <3>1, <3>2, AgreementFramed DEF Exists
  <2>3. CASE x = b
    <3>1. /\ batches'[b].root = batches[b].root
          /\ batches'[b].submittedAt = batches[b].submittedAt
          /\ batches'[b].supersededBy = batches[b].supersededBy
          /\ batches'[b].revoked
      BY <1>2 DEF RevokeBatch, MayWrite, Batch
    <3>2. [type |-> "BatchRevoked", id |-> b] \in Logged("BatchRevoked", b)'
      BY <1>2 DEF RevokeBatch, MayWrite, Logged
    <3>3. Exists(b)
      BY <1>2 DEF RevokeBatch, MayWrite
    <3>4. QED
      BY <1>0, <2>1, <2>3, <3>1, <3>2, <3>3 DEF HistoryAgrees, Exists, IsHead
  <2>4. QED
    BY <2>2, <2>3
<1>3. ASSUME NEW a \in Account, NEW b \in BatchId, NEW new \in BatchId,
             SupersedeBatch(a, b, new)
      PROVE  HistoryAgrees(x)'
  <2>1. /\ Logged("RootSubmitted", x)' = Logged("RootSubmitted", x)
        /\ Logged("BatchRevoked", x)' = Logged("BatchRevoked", x)
    BY <1>3 DEF SupersedeBatch, MayWrite, Replaceable, Replacement, Logged
  <2>2. CASE x # b
    <3>1. batches'[x] = batches[x]
      BY <1>3, <2>2 DEF SupersedeBatch, MayWrite, Replaceable, Replacement
    <3>2. Logged("BatchSuperseded", x)' = Logged("BatchSuperseded", x)
      BY <1>3, <2>2 DEF SupersedeBatch, MayWrite, Replaceable, Replacement, Logged
    <3>3. QED
      BY <1>0, <2>1, <3>1, <3>2, AgreementFramed DEF Exists
  <2>3. CASE x = b
    <3>1. /\ batches'[b].root = batches[b].root
          /\ batches'[b].submittedAt = batches[b].submittedAt
          /\ batches'[b].supersededBy = new
          /\ batches'[b].revoked = batches[b].revoked
      BY <1>3 DEF SupersedeBatch, MayWrite, Replaceable, Replacement, Batch
    <3>2. Logged("BatchSuperseded", b) = {}
      BY <1>0, <1>3 DEF SupersedeBatch, MayWrite, Replaceable, Replacement, HistoryAgrees, IsHead
    <3>3. Logged("BatchSuperseded", b)' =
             {[type |-> "BatchSuperseded", id |-> b, next |-> new]}
      BY <1>3, <3>2 DEF SupersedeBatch, MayWrite, Replaceable, Replacement, Logged
    <3>4. new # Zero
      BY <1>0, <1>3 DEF SupersedeBatch, MayWrite, Replaceable, Replacement, HistoryAgrees
    <3>5. Exists(b) /\ Exists(b)'
      BY <1>3, <3>1 DEF SupersedeBatch, MayWrite, Replaceable, Replacement, Exists
    <3>6. IsSingleton(Logged("BatchSuperseded", b)')
      BY <3>3 DEF IsSingleton
    <3>7. QED
      BY <1>0, <2>1, <2>3, <3>1, <3>3, <3>4, <3>5, <3>6 DEF HistoryAgrees
  <2>4. QED
    BY <2>2, <2>3
<1>4. ASSUME Quiet
      PROVE  HistoryAgrees(x)'
  BY <1>0, <1>4 DEF Quiet, HistoryAgrees, Logged, Exists, IsHead
<1>5. QED
  BY <1>1, <1>2, <1>3, <1>4, StepCases

(***************************************************************************)
(* What a reader of the events knows is what getBatch answers, always.     *)
(***************************************************************************)
THEOREM StorageIsTheLog == Spec => []StorageMatchesEvents
<1>1. Init => StorageMatchesEvents
  <2> SUFFICES ASSUME Init, NEW b \in BatchId PROVE HistoryAgrees(b)
    BY DEF StorageMatchesEvents
  <2>1. batches[b] = NoBatch /\ \A t : Logged(t, b) = {}
    BY DEF Init, Logged
  <2>2. QED
    BY <2>1 DEF HistoryAgrees, Exists, IsHead, NoBatch
<1>2. TypeOK /\ StorageMatchesEvents /\ [Next]_vars => StorageMatchesEvents'
  BY AgreementStep
<1>3. QED
  BY <1>1, <1>2, TypeCorrect, PTL DEF Spec

-----------------------------------------------------------------------------
(***************************************************************************)
(* The move of a batch to another chain.  That nothing on file can store   *)
(* it on the old chain any more is established step by step, by statements *)
(* that read the tables, the receipts and the contracts one after another; *)
(* the invariant says which of the answers are still true.                 *)
(***************************************************************************)
Txs == [nonce : Nat, did : {"store", "nothing", "revert"}, stage : {"out", "mined", "final", "gone"}]
Settlements == {"open", "receipt", "nonce_consumed", "operator"}
Proposals == [upload : Nat \ {0}, state : {"proposed", "executed", "rejected"}, history : SUBSET Nat]
Uploads == {"pending", "executed", "replaced"}
Rows == [state : MOVABLE_STATES \cup {"created", "proposed", "submitted", "confirmed"},
         chain : {"old", "new"}, tx : Nat, moveTo : {"none", "new"}]
Checks == [pc : {"idle", "asking", "searching", "deciding"}, row : {<<>>} \cup Rows,
           hashes : SUBSET Nat, safeHashes : SUBSET Nat, unmapped : BOOLEAN, unknown : BOOLEAN,
           found : Nat, untouched : BOOLEAN]
Answers == [of : Nat, kind : {"none", "executed", "replaced"}, tx : Nat]

MovesTyped ==
  /\ txs \in Seq(Txs) /\ uploads \in Seq(Uploads) /\ proposals \in Seq(Proposals)
  /\ row \in Rows /\ check \in Checks /\ answers \in [Worker -> Answers]
  /\ onNew \in BOOLEAN

\* A nonce of the Safe is spent by one transaction.
SpentOnce ==
  \A t, u \in DOMAIN txs :
    (/\ txs[t].nonce # 0 /\ txs[t].nonce = txs[u].nonce
     /\ Landed(t) /\ txs[t].did # "revert" /\ Landed(u) /\ txs[u].did # "revert")
    => t = u

\* The ledger's sends are transactions, and one that was released never lands.
SendsFit ==
  /\ DOMAIN sends \subseteq DOMAIN txs
  /\ \A t \in DOMAIN sends :
       /\ sends[t] \in Settlements
       /\ sends[t] = "nonce_consumed" => txs[t].stage = "gone"

\* Every hash the tables hold of a proposal is an execution of it.
Executes(t, p) == t \in DOMAIN txs /\ txs[t].nonce = proposals[p].upload

TablesFit ==
  /\ row.tx <= Len(txs)
  /\ \A p \in DOMAIN proposals : \A t \in proposals[p].history : Executes(t, p)
  /\ \A w \in Worker :
       /\ answers[w].kind # "none" => answers[w].of \in DOMAIN proposals
       /\ answers[w].kind = "executed" => Executes(answers[w].tx, answers[w].of)

\* While the row is as the move read it, no send is made or settled.
ReadStands ==
  (check.pc # "idle" /\ check.untouched) =>
    /\ row.chain = "old" /\ row.state \in MOVABLE_STATES
    /\ SendsOf("open") = {}
    /\ ~check.unknown => SendsOf("operator") = {}

\* What the receipts said is for good.
AskedFits ==
  check.pc # "idle" =>
    /\ check.hashes \subseteq DOMAIN txs /\ check.found \in DOMAIN txs \cup {0}
    /\ check.safeHashes \subseteq check.hashes
    /\ check.unmapped => check.unknown
    /\ (check.pc # "asking" /\ ~check.unknown) =>
         /\ \A t \in check.hashes : txs[t].stage = "final"
         /\ \A t \in check.safeHashes : txs[t].did # "revert"
    /\ (check.pc = "deciding" /\ ~check.unknown /\ check.found = 0) =>
         \A t \in check.hashes : txs[t].did # "store"

\* Nothing the worker sent or proposed can store the batch any more.
LeftBehind ==
  row.chain = "new" =>
    /\ \A t \in DOMAIN sends : txs[t].stage = "gone" \/ (txs[t].stage = "final" /\ txs[t].did # "store")
    /\ \A p \in DOMAIN proposals : \E t \in DOMAIN txs :
         txs[t].nonce = proposals[p].upload /\ txs[t].stage = "final" /\ txs[t].did = "nothing"

MovesInv ==
  /\ MovesTyped /\ SpentOnce /\ SendsFit /\ TablesFit /\ ReadStands /\ AskedFits /\ LeftBehind
  /\ onNew => row.chain = "new"

LEMMA LeftBehindIsEnough == MovesInv => NotAnchoredTwice
<1> SUFFICES ASSUME MovesInv, onNew, NEW t \in Storing \cap KnownTxs PROVE FALSE
  BY DEF NotAnchoredTwice
<1>1. t \in DOMAIN txs /\ Landed(t) /\ txs[t].did = "store" /\ row.chain = "new"
  BY DEF MovesInv, Storing
<1>2. CASE t \in DOMAIN sends
  BY <1>1, <1>2 DEF MovesInv, LeftBehind, Landed
<1>3. CASE t \notin DOMAIN sends
  <2>1. PICK p \in DOMAIN proposals : proposals[p].upload = txs[t].nonce
    BY <1>3 DEF KnownTxs
  <2>2. PICK u \in DOMAIN txs :
          txs[u].nonce = proposals[p].upload /\ txs[u].stage = "final" /\ txs[u].did = "nothing"
    BY <1>1 DEF MovesInv, LeftBehind
  <2>3. proposals[p] \in Proposals
    BY ElementOfSeq DEF MovesInv, MovesTyped
  <2>4. t = u
    BY <1>1, <2>1, <2>2, <2>3 DEF MovesInv, SpentOnce, Landed, Proposals
  <2> QED BY <1>1, <2>2, <2>4
<1> QED BY <1>2, <1>3

----------------------------------------------------------------------------
\* A transaction keeps its nonce, and what is final or overtaken stays so.
TxsKept ==
  /\ Len(txs) <= Len(txs') /\ DOMAIN txs \subseteq DOMAIN txs'
  /\ \A t \in DOMAIN txs :
       /\ txs'[t].nonce = txs[t].nonce
       /\ txs[t].stage \in {"final", "gone"} => txs'[t] = txs[t]

LEMMA BroadcastKeeps ==
  ASSUME txs \in Seq(Txs), SpentOnce, NEW n \in Nat, Broadcast(n)
  PROVE  txs' \in Seq(Txs) /\ TxsKept /\ SpentOnce' /\ Len(txs') = Len(txs) + 1
<1> DEFINE new == [nonce |-> n, did |-> "nothing", stage |-> "out"]
<1>1. new \in Txs /\ new.stage = "out" /\ txs' = Append(txs, new)
  BY DEF Txs, Broadcast
<1> HIDE DEF new
<1>2. /\ txs' \in Seq(Txs) /\ Len(txs') = Len(txs) + 1
      /\ \A t \in 1..Len(txs) : txs'[t] = txs[t]
      /\ txs'[Len(txs) + 1] = new
  BY <1>1, AppendProperties
<1>3. DOMAIN txs = 1..Len(txs) /\ DOMAIN txs' = 1..Len(txs') /\ Len(txs) \in Nat
  BY <1>2, LenProperties
<1>4. TxsKept
  BY <1>2, <1>3 DEF TxsKept
<1>5. SpentOnce'
  BY <1>1, <1>2, <1>3 DEF SpentOnce, Landed
<1> QED BY <1>2, <1>4, <1>5

LEMMA StageKeeps ==
  ASSUME txs \in Seq(Txs), NEW t \in DOMAIN txs, NEW new \in Txs,
         txs' = [txs EXCEPT ![t] = new], new.nonce = txs[t].nonce,
         txs[t].stage \notin {"final", "gone"}
  PROVE  txs' \in Seq(Txs) /\ TxsKept /\ Len(txs') = Len(txs)
<1>1. /\ txs' \in Seq(Txs) /\ Len(txs') = Len(txs)
      /\ \A u \in 1..Len(txs) : txs'[u] = IF u = t THEN new ELSE txs[u]
  BY ExceptSeq, LenProperties
<1>2. DOMAIN txs = 1..Len(txs) /\ DOMAIN txs' = 1..Len(txs) /\ Len(txs) \in Nat
  BY <1>1, LenProperties
<1> QED BY <1>1, <1>2 DEF TxsKept
LEMMA FunctionIsSeq ==
  ASSUME NEW S, NEW s \in Seq(S), NEW f, DOMAIN f = DOMAIN s, f \in [DOMAIN s -> S]
  PROVE  f \in Seq(S) /\ Len(f) = Len(s)
<1>1. DOMAIN s = 1..Len(s) /\ Len(s) \in Nat
  BY LenProperties
<1>2. f \in [1..Len(s) -> S]
  BY <1>1
<1> QED BY <1>1, <1>2, IsASeq, LenProperties

\* What the chain does leaves the tables alone.
TablesRest == UNCHANGED <<row, sends, proposals, answers, check, onNew>>

LEMMA ChainStepsKeep ==
  ASSUME MovesInv,
         \/ ChainSteps
         \/ \E n \in DOMAIN uploads : OwnersExecute(n) \/ OwnersReplace(n) \/ ReplacementGone(n)
  PROVE  /\ txs' \in Seq(Txs) /\ uploads' \in Seq(Uploads) /\ TxsKept /\ SpentOnce'
         /\ TablesRest
<1> USE DEF MovesInv, MovesTyped
<1>1. CASE OutsiderSends
  BY <1>1, BroadcastKeeps DEF OutsiderSends, TablesRest
<1>2. ASSUME NEW t \in DOMAIN txs, Mine(t)
      PROVE  txs' \in Seq(Txs) /\ uploads' \in Seq(Uploads) /\ TxsKept /\ SpentOnce' /\ TablesRest
  <2>1. PICK did \in {"store", "revert", "nothing"} :
          /\ SpentIn(txs[t].nonce) # {} => did = "revert"
          /\ txs' = [txs EXCEPT ![t].stage = "mined", ![t].did = did]
          /\ uploads' = [n \in DOMAIN uploads |->
                           IF txs[t].nonce = n /\ did # "revert" THEN "executed" ELSE uploads[n]]
    BY <1>2 DEF Mine
  <2> DEFINE new == [txs[t] EXCEPT !.stage = "mined", !.did = did]
  <2>2. txs[t] \in Txs /\ txs[t].stage = "out"
    BY <1>2, ElementOfSeq DEF Mine
  <2>3. /\ new \in Txs /\ new.nonce = txs[t].nonce /\ new.stage = "mined" /\ new.did = did
        /\ txs' = [txs EXCEPT ![t] = new]
    BY <2>1, <2>2 DEF Txs
  <2> HIDE DEF new
  <2>4. txs' \in Seq(Txs) /\ TxsKept /\ Len(txs') = Len(txs)
    BY <2>2, <2>3, StageKeeps
  <2>5. uploads' \in Seq(Uploads)
    <3>1. \A n \in DOMAIN uploads : uploads[n] \in Uploads
      BY ElementOfSeq
    <3>2. uploads' \in [DOMAIN uploads -> Uploads]
      BY <2>1, <3>1 DEF Uploads
    <3> QED BY <3>2, FunctionIsSeq
  <2>6. DOMAIN txs' = DOMAIN txs /\ \A u \in DOMAIN txs : txs'[u] = IF u = t THEN new ELSE txs[u]
    BY <2>3
  <2>7. SpentOnce'
    <3>1. SUFFICES ASSUME NEW u \in DOMAIN txs, NEW v \in DOMAIN txs, u # v,
                          txs'[u].nonce # 0, txs'[u].nonce = txs'[v].nonce,
                          Landed(u)', txs'[u].did # "revert", Landed(v)', txs'[v].did # "revert"
                   PROVE  FALSE
      BY <2>6 DEF SpentOnce
    <3>2. CASE u # t /\ v # t
      BY <3>1, <3>2, <2>6 DEF SpentOnce, Landed
    <3>3. CASE u = t
      <4>1. v \in SpentIn(txs[t].nonce)
        BY <3>1, <3>3, <2>6, <2>3 DEF SpentIn, Landed
      <4> QED BY <4>1, <2>1, <3>1, <3>3, <2>6, <2>3
    <3>4. CASE v = t
      <4>1. u \in SpentIn(txs[t].nonce)
        BY <3>1, <3>4, <2>6, <2>3 DEF SpentIn, Landed
      <4> QED BY <4>1, <2>1, <3>1, <3>4, <2>6, <2>3
    <3> QED BY <3>2, <3>3, <3>4
  <2> QED BY <1>2, <2>4, <2>5, <2>7 DEF Mine, TablesRest
<1>3. ASSUME NEW t \in DOMAIN txs, Reorg(t)
      PROVE  txs' \in Seq(Txs) /\ uploads' \in Seq(Uploads) /\ TxsKept /\ SpentOnce' /\ TablesRest
  <2> DEFINE new == [txs[t] EXCEPT !.stage = "out", !.did = "nothing"]
  <2>1. txs[t] \in Txs /\ txs[t].stage = "mined"
    BY <1>3, ElementOfSeq DEF Reorg
  <2>2. /\ new \in Txs /\ new.nonce = txs[t].nonce /\ new.stage = "out"
        /\ txs' = [txs EXCEPT ![t] = new]
    BY <1>3, <2>1 DEF Txs, Reorg
  <2> HIDE DEF new
  <2>3. txs' \in Seq(Txs) /\ TxsKept /\ Len(txs') = Len(txs)
    BY <2>1, <2>2, StageKeeps
  <2>4. uploads' \in Seq(Uploads)
    <3>1. \A n \in DOMAIN uploads : uploads[n] \in Uploads
      BY ElementOfSeq
    <3>2. uploads' \in [DOMAIN uploads -> Uploads]
      BY <1>3, <3>1 DEF Reorg, Uploads
    <3> QED BY <3>2, FunctionIsSeq
  <2>5. DOMAIN txs' = DOMAIN txs /\ \A u \in DOMAIN txs : txs'[u] = IF u = t THEN new ELSE txs[u]
    BY <2>2
  <2>6. SpentOnce'
    BY <2>2, <2>5 DEF SpentOnce, Landed
  <2> QED BY <1>3, <2>3, <2>4, <2>6 DEF Reorg, TablesRest
<1>4. ASSUME NEW t \in DOMAIN txs, Finalize(t) \/ Overtaken(t)
      PROVE  txs' \in Seq(Txs) /\ uploads' \in Seq(Uploads) /\ TxsKept /\ SpentOnce' /\ TablesRest
  <2>1. PICK stage \in {"final", "gone"} :
          /\ txs' = [txs EXCEPT ![t].stage = stage]
          /\ stage = "final" => txs[t].stage = "mined"
          /\ stage = "gone" => txs[t].stage = "out"
    BY <1>4 DEF Finalize, Overtaken
  <2> DEFINE new == [txs[t] EXCEPT !.stage = stage]
  <2>2. txs[t] \in Txs /\ txs[t].stage \notin {"final", "gone"}
    BY <2>1, ElementOfSeq
  <2>3. /\ new \in Txs /\ new.nonce = txs[t].nonce /\ new.stage = stage /\ new.did = txs[t].did
        /\ txs' = [txs EXCEPT ![t] = new]
    BY <2>1, <2>2 DEF Txs
  <2> HIDE DEF new
  <2>4. txs' \in Seq(Txs) /\ TxsKept /\ Len(txs') = Len(txs)
    BY <2>2, <2>3, StageKeeps
  <2>5. DOMAIN txs' = DOMAIN txs /\ \A u \in DOMAIN txs : txs'[u] = IF u = t THEN new ELSE txs[u]
    BY <2>3
  <2>6. SpentOnce'
    BY <2>1, <2>3, <2>5 DEF SpentOnce, Landed
  <2> QED BY <1>4, <2>4, <2>6 DEF Finalize, Overtaken, TablesRest
<1>5. ASSUME NEW n \in DOMAIN uploads, OwnersExecute(n) \/ OwnersReplace(n) \/ ReplacementGone(n)
      PROVE  txs' \in Seq(Txs) /\ uploads' \in Seq(Uploads) /\ TxsKept /\ SpentOnce' /\ TablesRest
  <2>1. n \in Nat
    BY LenProperties
  <2>2. CASE OwnersExecute(n)
    BY <2>1, <2>2, BroadcastKeeps DEF OwnersExecute, TablesRest
  <2>3. CASE OwnersReplace(n) \/ ReplacementGone(n)
    <3>1. UNCHANGED txs /\ TablesRest
      BY <2>3 DEF OwnersReplace, ReplacementGone, TablesRest
    <3>2. uploads' \in Seq(Uploads)
      <4>1. CASE uploads' = [uploads EXCEPT ![n] = "replaced"]
        BY <4>1, ExceptSeq, LenProperties DEF Uploads
      <4>2. CASE uploads' = [uploads EXCEPT ![n] = "pending"]
        BY <4>2, ExceptSeq, LenProperties DEF Uploads
      <4> QED BY <2>3, <4>1, <4>2 DEF OwnersReplace, ReplacementGone
    <3>3. TxsKept /\ SpentOnce'
      BY <3>1, LenProperties DEF TxsKept, SpentOnce, Landed
    <3> QED BY <3>1, <3>2, <3>3
  <2> QED BY <1>5, <2>2, <2>3
<1> QED BY <1>1, <1>2, <1>3, <1>4, <1>5 DEF ChainSteps
\* What a move asked stays true of the chain, whatever happens to the row.
LEMMA AskedStays ==
  ASSUME MovesInv, TxsKept, UNCHANGED check \/ Touch
  PROVE  check' \in Checks /\ AskedFits' /\ (Touch => ReadStands')
<1> USE DEF MovesInv, MovesTyped
<1>1. CASE UNCHANGED check
  <2>1. AskedFits'
    BY <1>1 DEF AskedFits, TxsKept, Checks
  <2>2. Touch => check'.untouched = FALSE
    BY DEF Touch, Checks
  <2> QED BY <1>1, <2>1, <2>2 DEF ReadStands
<1>2. CASE Touch
  <2>1. /\ check' \in Checks /\ check'.untouched = FALSE /\ check'.pc = check.pc
        /\ check'.hashes = check.hashes /\ check'.safeHashes = check.safeHashes
        /\ check'.unmapped = check.unmapped /\ check'.unknown = check.unknown
        /\ check'.found = check.found
    BY <1>2 DEF Touch, Checks
  <2>2. check.hashes \subseteq Nat
    BY DEF Checks
  <2> QED BY <2>1, <2>2, ZenonT(40) DEF AskedFits, TxsKept, ReadStands
<1> QED BY <1>1, <1>2

\* Nothing the worker left behind comes back, as long as it adds nothing to it.
LEMMA LeftStays ==
  ASSUME MovesInv, TxsKept, row'.chain = row.chain,
         row.chain = "new" =>
           /\ DOMAIN sends' = DOMAIN sends
           /\ DOMAIN proposals' = DOMAIN proposals
           /\ \A p \in DOMAIN proposals : proposals'[p].upload = proposals[p].upload
  PROVE  LeftBehind'
<1> SUFFICES ASSUME row'.chain = "new"
             PROVE  /\ \A t \in DOMAIN sends' :
                         txs'[t].stage = "gone" \/ (txs'[t].stage = "final" /\ txs'[t].did # "store")
                    /\ \A p \in DOMAIN proposals' : \E t \in DOMAIN txs' :
                         /\ txs'[t].nonce = proposals'[p].upload
                         /\ txs'[t].stage = "final" /\ txs'[t].did = "nothing"
  BY DEF LeftBehind
<1>1. /\ \A t \in DOMAIN sends :
           txs[t].stage = "gone" \/ (txs[t].stage = "final" /\ txs[t].did # "store")
      /\ \A p \in DOMAIN proposals : \E t \in DOMAIN txs :
           txs[t].nonce = proposals[p].upload /\ txs[t].stage = "final" /\ txs[t].did = "nothing"
  BY DEF MovesInv, LeftBehind
<1>2. DOMAIN sends \subseteq DOMAIN txs
  BY DEF MovesInv, SendsFit
<1>3. \A t \in DOMAIN sends' :
         txs'[t].stage = "gone" \/ (txs'[t].stage = "final" /\ txs'[t].did # "store")
  BY <1>1, <1>2 DEF TxsKept
<1>4. ASSUME NEW p \in DOMAIN proposals'
      PROVE  \E t \in DOMAIN txs' :
               /\ txs'[t].nonce = proposals'[p].upload
               /\ txs'[t].stage = "final" /\ txs'[t].did = "nothing"
  <2>1. PICK t \in DOMAIN txs :
          txs[t].nonce = proposals[p].upload /\ txs[t].stage = "final" /\ txs[t].did = "nothing"
    BY <1>1, <1>4
  <2> QED BY <2>1, <1>4 DEF TxsKept
<1> QED BY <1>3, <1>4

\* The chain and the owners of the Safe move nothing the tables know.
LEMMA ChainStepsHold ==
  ASSUME MovesInv, TxsKept, TablesRest, txs' \in Seq(Txs), uploads' \in Seq(Uploads), SpentOnce'
  PROVE  MovesInv'
<1>1. Len(txs) \in Nat /\ Len(txs') \in Nat
  BY LenProperties DEF MovesInv, MovesTyped
<1>2. MovesTyped'
  BY DEF MovesInv, MovesTyped, TablesRest
<1>3. SendsFit'
  BY DEF MovesInv, SendsFit, TxsKept, TablesRest
<1>4. TablesFit'
  <2>1. row.tx \in Nat
    BY DEF MovesInv, MovesTyped, Rows
  <2> QED BY <1>1, <2>1 DEF MovesInv, TablesFit, Executes, TxsKept, TablesRest
<1>5. ReadStands'
  BY DEF MovesInv, ReadStands, TablesRest, SendsOf
<1>6. AskedFits'
  BY AskedStays DEF TablesRest
<1>7. LeftBehind'
  BY LeftStays DEF TablesRest
<1> QED BY <1>2, <1>3, <1>4, <1>5, <1>6, <1>7 DEF MovesInv, TablesRest

LEMMA NothingBroadcast == ASSUME MovesInv, UNCHANGED txs PROVE TxsKept /\ SpentOnce'
BY LenProperties DEF MovesInv, MovesTyped, TxsKept, SpentOnce, Landed

\* Steps that rewrite the row and nothing else.
LEMMA RowStepsHold ==
  ASSUME MovesInv, row' \in Rows, row'.chain = row.chain, row'.tx <= Len(txs), Touch,
         UNCHANGED <<sends, proposals, uploads, txs, answers>>,
         onNew' \in BOOLEAN, onNew' => row.chain = "new"
  PROVE  MovesInv'
<1>1. TxsKept /\ SpentOnce'
  BY NothingBroadcast
<1>2. check' \in Checks /\ AskedFits' /\ ReadStands'
  BY <1>1, AskedStays
<1>3. LeftBehind'
  BY <1>1, LeftStays
<1>4. MovesTyped'
  BY <1>2 DEF MovesInv, MovesTyped
<1>5. SendsFit' /\ TablesFit'
  BY DEF MovesInv, SendsFit, TablesFit, Executes
<1> QED BY <1>1, <1>2, <1>3, <1>4, <1>5 DEF MovesInv
LEMMA RowBecomesIs ==
  ASSUME MovesInv, NEW s \in MOVABLE_STATES \cup {"created", "proposed", "submitted", "confirmed"},
         NEW t \in Nat, RowBecomes(s, t)
  PROVE  /\ row' \in Rows /\ row'.state = s /\ row'.tx = t /\ row'.chain = row.chain
         /\ row'.moveTo = row.moveTo /\ Touch
BY DEF MovesInv, MovesTyped, RowBecomes, Rows

LEMMA TxsAre ==
  ASSUME MovesInv
  PROVE  /\ DOMAIN txs = 1..Len(txs) /\ Len(txs) \in Nat
         /\ \A t \in DOMAIN txs : t \in Nat /\ t # 0 /\ txs[t] \in Txs
         /\ Storing \subseteq DOMAIN txs
         /\ row \in Rows /\ row.tx \in Nat
BY LenProperties, ElementOfSeq DEF MovesInv, MovesTyped, Storing, Rows

LEMMA RowStepsAre ==
  ASSUME MovesInv,
         \/ GiveUp \/ Track \/ ResubmitHere \/ RequestMove \/ DropStaleRequest \/ AnchorOnNew
         \/ Send /\ Anchored
  PROVE  MovesInv'
<1> USE TxsAre
<1>0. row.tx <= Len(txs)
  BY DEF MovesInv, TablesFit
<1>1. CASE GiveUp
  BY <1>0, <1>1, RowBecomesIs, RowStepsHold DEF GiveUp, MOVABLE_STATES, MovesInv, MovesTyped
<1>2. CASE Track
  <2>1. PICK s \in MOVABLE_STATES \cup {"submitted", "confirmed"}, t \in Storing \cup {row.tx} :
          RowBecomes(s, t)
    BY <1>2 DEF Track, MOVABLE_STATES
  <2>2. t \in Nat /\ t <= Len(txs)
    BY <1>0, <2>1
  <2>3. UNCHANGED <<sends, proposals, uploads, txs, answers, onNew>>
    BY <1>2 DEF Track
  <2> QED BY <2>1, <2>2, <2>3, RowBecomesIs, RowStepsHold DEF MovesInv, MovesTyped
<1>3. CASE ResubmitHere \/ RequestMove \/ DropStaleRequest
  <2>1. /\ row' \in Rows /\ row'.chain = row.chain /\ row'.tx \in {0, row.tx} /\ Touch
        /\ UNCHANGED <<sends, proposals, uploads, txs, answers, onNew>>
    <3>1. CASE ResubmitHere
      BY <3>1 DEF ResubmitHere, Rows, MOVABLE_STATES
    <3>2. CASE RequestMove
      BY <3>2 DEF RequestMove, Rows, MOVABLE_STATES
    <3>3. CASE DropStaleRequest
      BY <3>3 DEF DropStaleRequest, Rows, MOVABLE_STATES
    <3> QED BY <1>3, <3>1, <3>2, <3>3
  <2> QED BY <1>0, <2>1, RowStepsHold DEF MovesInv, MovesTyped
<1>4. CASE AnchorOnNew
  <2>1. /\ RowBecomes("confirmed", 0) /\ onNew' = TRUE /\ row.chain = "new"
        /\ UNCHANGED <<sends, proposals, uploads, txs, answers>>
    BY <1>4 DEF AnchorOnNew
  <2>2. row' \in Rows /\ row'.tx = 0 /\ row'.chain = row.chain /\ Touch
    BY <2>1, RowBecomesIs
  <2>3. row'.tx <= Len(txs) /\ onNew' \in BOOLEAN /\ (onNew' => row.chain = "new")
    BY <2>1, <2>2
  <2> QED BY <2>1, <2>2, <2>3, RowStepsHold
<1>5. CASE Send /\ Anchored
  <2>1. PICK t \in Storing : RowBecomes("submitted", t)
    BY <1>5 DEF Send
  <2>2. UNCHANGED <<sends, proposals, uploads, txs, answers, onNew>>
    BY <1>5 DEF Send
  <2>3. t \in Nat /\ t <= Len(txs)
    BY <2>1
  <2> QED BY <2>1, <2>2, <2>3, RowBecomesIs, RowStepsHold DEF MovesInv, MovesTyped
<1> QED BY <1>1, <1>2, <1>3, <1>4, <1>5

\* A send is made only while the row stands on its old chain, which no move reads.
LEMMA SendHolds ==
  ASSUME MovesInv, Send, ~Anchored
  PROVE  MovesInv'
<1> DEFINE new == Len(txs) + 1
<1> USE TxsAre
<1>1. /\ Broadcast(0)
      /\ sends' = [t \in DOMAIN sends \cup {new} |-> IF t = new THEN "open" ELSE sends[t]]
      /\ row.chain = "old" /\ row.state = "created"
      /\ UNCHANGED <<proposals, uploads, answers, onNew>>
  BY DEF Send, OnOld
<1>2. RowBecomes("submitted", new) \/ UNCHANGED <<row, check>>
  BY DEF Send
<1>3. txs' \in Seq(Txs) /\ TxsKept /\ SpentOnce' /\ Len(txs') = new /\ DOMAIN txs' = 1..new
  BY <1>1, BroadcastKeeps, LenProperties DEF MovesInv, MovesTyped
<1>4. /\ DOMAIN sends' = DOMAIN sends \cup {new} /\ sends'[new] = "open"
      /\ \A t \in DOMAIN sends : sends'[t] = sends[t]
  <2>1. new \notin DOMAIN sends
    BY DEF MovesInv, SendsFit
  <2> QED BY <1>1, <2>1
<1>5. SendsFit'
  BY <1>3, <1>4 DEF MovesInv, SendsFit, Settlements, TxsKept
<1>6. row' \in Rows /\ row'.chain = "old" /\ row'.tx <= Len(txs') /\ (UNCHANGED check \/ Touch)
  <2>1. CASE RowBecomes("submitted", new)
    <3>0. new \in Nat /\ row \in Rows
      OBVIOUS
    <3>1. row' = [row EXCEPT !.state = "submitted", !.tx = new] /\ Touch
      BY <2>1 DEF RowBecomes
    <3>2. row' \in Rows /\ row'.tx = new /\ row'.chain = row.chain
      BY <3>0, <3>1 DEF Rows
    <3> QED BY <1>1, <1>3, <3>0, <3>1, <3>2
  <2>2. CASE UNCHANGED <<row, check>>
    <3>1. row.tx <= Len(txs)
      BY DEF MovesInv, TablesFit
    <3> QED BY <1>1, <1>3, <2>2, <3>1
  <2> QED BY <1>2, <2>1, <2>2
<1>7. check' \in Checks /\ AskedFits' /\ ReadStands'
  <2>1. check' \in Checks /\ AskedFits' /\ (Touch => ReadStands')
    BY <1>3, <1>6, AskedStays
  <2>2. CASE UNCHANGED <<row, check>>
    BY <1>1, <2>1, <2>2 DEF MovesInv, ReadStands, MOVABLE_STATES
  <2>3. CASE RowBecomes("submitted", new)
    <3>1. Touch
      BY <2>3 DEF RowBecomes
    <3> QED BY <2>1, <3>1
  <2> QED BY <1>2, <2>1, <2>2, <2>3
<1>8. LeftBehind'
  BY <1>6 DEF LeftBehind
<1>9. TablesFit'
  BY <1>1, <1>3, <1>6 DEF MovesInv, TablesFit, Executes, TxsKept
<1>10. MovesTyped'
  BY <1>1, <1>3, <1>6, <1>7 DEF MovesInv, MovesTyped
<1> QED BY <1>1, <1>3, <1>5, <1>6, <1>7, <1>8, <1>9, <1>10 DEF MovesInv

\* A send is settled once, and released only when its nonce is taken for good.
LEMMA SettleHolds ==
  ASSUME MovesInv, NEW t \in DOMAIN sends, Settle(t) \/ OperatorSettles(t)
  PROVE  MovesInv'
<1>1. PICK how \in Settlements \ {"open"} :
        /\ sends[t] = "open" /\ sends' = [sends EXCEPT ![t] = how]
        /\ how = "nonce_consumed" => txs[t].stage = "gone"
  BY DEF Settle, OperatorSettles, Settlements
<1>2. UNCHANGED <<row, proposals, uploads, txs, answers, check, onNew>>
  BY DEF Settle, OperatorSettles
<1>3. TxsKept /\ SpentOnce'
  BY <1>2, NothingBroadcast
<1>4. AskedFits' /\ LeftBehind'
  BY <1>1, <1>2, <1>3, AskedStays, LeftStays
<1>5. ReadStands'
  BY <1>1, <1>2 DEF MovesInv, ReadStands, SendsOf
<1>6. SendsFit' /\ TablesFit' /\ MovesTyped'
  BY <1>1, <1>2 DEF MovesInv, SendsFit, TablesFit, Executes, MovesTyped
<1> QED BY <1>2, <1>3, <1>4, <1>5, <1>6 DEF MovesInv
\* A proposal is added or given another state; what it executes is not changed.
LEMMA ProposalRewritten ==
  ASSUME MovesInv, NEW p \in DOMAIN proposals, NEW new \in Proposals,
         proposals' = [proposals EXCEPT ![p] = new], new.upload = proposals[p].upload,
         \A t \in new.history : Executes(t, p),
         row' \in Rows, row'.chain = row.chain, row'.tx <= Len(txs), Touch,
         answers' \in [Worker -> Answers],
         \A w \in Worker : answers'[w] = answers[w] \/ answers'[w] = NoAnswer,
         UNCHANGED <<sends, uploads, txs, onNew>>
  PROVE  MovesInv'
<1>1. TxsKept /\ SpentOnce'
  BY NothingBroadcast
<1>2. check' \in Checks /\ AskedFits' /\ ReadStands'
  BY <1>1, AskedStays
<1>3. /\ proposals' \in Seq(Proposals) /\ DOMAIN proposals' = DOMAIN proposals
      /\ \A q \in DOMAIN proposals : proposals'[q] = IF q = p THEN new ELSE proposals[q]
  BY ExceptSeq, LenProperties DEF MovesInv, MovesTyped
<1>4. LeftBehind'
  BY <1>1, <1>3, LeftStays
<1>5. MovesTyped'
  BY <1>2, <1>3 DEF MovesInv, MovesTyped
<1>6. SendsFit'
  BY DEF MovesInv, SendsFit
<1>7. \A q \in DOMAIN proposals : proposals'[q].upload = proposals[q].upload
  BY <1>3
<1>8. TablesFit'
  <2>1. \A q \in DOMAIN proposals' : \A t \in proposals'[q].history :
           t \in DOMAIN txs' /\ txs'[t].nonce = proposals'[q].upload
    BY <1>3, <1>7 DEF MovesInv, TablesFit, Executes
  <2>2. ASSUME NEW w \in Worker
        PROVE  /\ answers'[w].kind # "none" => answers'[w].of \in DOMAIN proposals'
               /\ answers'[w].kind = "executed" =>
                    /\ answers'[w].tx \in DOMAIN txs'
                    /\ txs'[answers'[w].tx].nonce = proposals'[answers'[w].of].upload
    <3>1. CASE answers'[w] = answers[w]
      BY <1>3, <1>7, <3>1 DEF MovesInv, TablesFit, Executes
    <3>2. CASE answers'[w] = NoAnswer
      BY <3>2 DEF NoAnswer
    <3> QED BY <3>1, <3>2
  <2> QED BY <2>1, <2>2 DEF TablesFit, Executes
<1> QED BY <1>1, <1>2, <1>4, <1>5, <1>6, <1>8 DEF MovesInv

LEMMA ProposalStepsHold ==
  ASSUME MovesInv, NEW w \in Worker, TrackProposal(w) \/ closeUnexecutable(w)
  PROVE  MovesInv'
<1> DEFINE a == answers[w]
<1> DEFINE p == a.of
<1>1. a \in Answers /\ a.kind # "none" /\ p \in DOMAIN proposals
  BY DEF MovesInv, MovesTyped, TablesFit, TrackProposal, closeUnexecutable
<1>2. proposals[p] \in Proposals /\ p \in Nat
  BY <1>1, ElementOfSeq, LenProperties DEF MovesInv, MovesTyped
<1>3. /\ answers' = [answers EXCEPT ![w] = NoAnswer]
      /\ UNCHANGED <<sends, uploads, txs, onNew>>
  BY DEF TrackProposal, closeUnexecutable
<1>4. /\ answers' \in [Worker -> Answers]
      /\ \A v \in Worker : answers'[v] = answers[v] \/ answers'[v] = NoAnswer
  <2>1. NoAnswer \in Answers
    BY DEF NoAnswer, Answers
  <2> QED BY <1>3, <2>1 DEF MovesInv, MovesTyped
<1>5. row.tx <= Len(txs)
  BY DEF MovesInv, TablesFit
<1>6. CASE TrackProposal(w)
  <2> DEFINE new == [proposals[p] EXCEPT !.state = "executed", !.history = @ \cup {a.tx}]
  <2>1. proposals' = [proposals EXCEPT ![p] = new] /\ RowBecomes("submitted", a.tx)
    BY <1>6 DEF TrackProposal
  <2>2. Executes(a.tx, p)
    BY <1>6 DEF TrackProposal, MovesInv, TablesFit
  <2>3. a.tx \in Nat /\ a.tx <= Len(txs)
    BY <1>1, <2>2, TxsAre DEF Answers, Executes
  <2>4. /\ new \in Proposals /\ new.upload = proposals[p].upload
        /\ new.history = proposals[p].history \cup {a.tx}
    BY <1>2, <2>3 DEF Proposals
  <2> HIDE DEF new
  <2>5. \A t \in new.history : Executes(t, p)
    BY <1>1, <2>2, <2>4 DEF MovesInv, TablesFit
  <2>6. row' \in Rows /\ row'.chain = row.chain /\ row'.tx = a.tx /\ Touch
    <3>1. row' = [row EXCEPT !.state = "submitted", !.tx = a.tx] /\ Touch
      BY <2>1 DEF RowBecomes
    <3> QED BY <2>3, <3>1, TxsAre DEF Rows
  <2> HIDE DEF p, a
  <2> QED BY <1>1, <1>3, <1>4, <2>1, <2>3, <2>4, <2>5, <2>6, ProposalRewritten
<1>7. CASE closeUnexecutable(w)
  <2> DEFINE new == [proposals[p] EXCEPT !.state = "rejected"]
  <2>1. proposals' = [proposals EXCEPT ![p] = new] /\ RowBecomes("failed", row.tx)
    BY <1>7 DEF closeUnexecutable
  <2>2. /\ new \in Proposals /\ new.upload = proposals[p].upload
        /\ new.history = proposals[p].history
    BY <1>2 DEF Proposals
  <2> HIDE DEF new
  <2>3. \A t \in new.history : Executes(t, p)
    BY <1>1, <2>2 DEF MovesInv, TablesFit
  <2>4. row' \in Rows /\ row'.chain = row.chain /\ row'.tx = row.tx /\ Touch
    BY <2>1, TxsAre DEF Rows, RowBecomes, MOVABLE_STATES
  <2> HIDE DEF p, a
  <2> QED BY <1>1, <1>3, <1>4, <1>5, <2>1, <2>2, <2>3, <2>4, ProposalRewritten
<1> QED BY <1>6, <1>7
LEMMA ProposeHolds ==
  ASSUME MovesInv, ProposeToSafe \/ ProposalLost
  PROVE  MovesInv'
<1>1. uploads' = Append(uploads, "pending") /\ UNCHANGED <<sends, txs, answers, onNew>>
  BY DEF ProposeToSafe, ProposalLost, Upload
<1>2. uploads' \in Seq(Uploads) /\ Len(uploads) \in Nat
  BY <1>1, AppendProperties, LenProperties DEF MovesInv, MovesTyped, Uploads
<1>3. TxsKept /\ SpentOnce'
  BY <1>1, NothingBroadcast
<1>4. CASE ProposalLost
  BY <1>1, <1>2, <1>3, <1>4, ChainStepsHold
     DEF ProposalLost, TablesRest, MovesInv, MovesTyped
<1>5. CASE ProposeToSafe
  <2> DEFINE new == [upload |-> Len(uploads) + 1, state |-> "proposed", history |-> {}]
  <2>1. /\ proposals' = Append(proposals, new) /\ RowBecomes("proposed", row.tx)
        /\ row.chain = "old"
    BY <1>5 DEF ProposeToSafe, OnOld
  <2>2. new \in Proposals /\ new.history = {}
    BY <1>2 DEF Proposals
  <2> HIDE DEF new
  <2>3. proposals \in Seq(Proposals)
    BY DEF MovesInv, MovesTyped
  <2>4. /\ proposals' \in Seq(Proposals) /\ DOMAIN proposals' = 1..(Len(proposals) + 1)
        /\ DOMAIN proposals = 1..Len(proposals) /\ Len(proposals) \in Nat
        /\ \A p \in DOMAIN proposals : proposals'[p] = proposals[p]
        /\ proposals'[Len(proposals) + 1] = new
    BY <2>1, <2>2, <2>3, AppendProperties, LenProperties
  <2>5. row' \in Rows /\ row'.chain = "old" /\ row'.tx = row.tx /\ Touch
    <3>1. row' = [row EXCEPT !.state = "proposed", !.tx = row.tx] /\ Touch
      BY <2>1 DEF RowBecomes
    <3> QED BY <2>1, <3>1, TxsAre DEF Rows
  <2>6. check' \in Checks /\ AskedFits' /\ ReadStands'
    BY <1>3, <2>5, AskedStays
  <2>7. LeftBehind'
    BY <2>5 DEF LeftBehind
  <2>8. MovesTyped'
    BY <1>1, <1>2, <2>4, <2>5, <2>6 DEF MovesInv, MovesTyped
  <2>9. SendsFit'
    BY <1>1 DEF MovesInv, SendsFit
  <2>10. TablesFit'
    <3>1. \A p \in DOMAIN proposals' : \A t \in proposals'[p].history :
            t \in DOMAIN txs' /\ txs'[t].nonce = proposals'[p].upload
      BY <1>1, <2>2, <2>4 DEF MovesInv, TablesFit, Executes
    <3>2. \A w \in Worker :
            /\ answers'[w].kind # "none" => answers'[w].of \in DOMAIN proposals'
            /\ answers'[w].kind = "executed" =>
                 /\ answers'[w].tx \in DOMAIN txs'
                 /\ txs'[answers'[w].tx].nonce = proposals'[answers'[w].of].upload
      BY <1>1, <2>4 DEF MovesInv, TablesFit, Executes
    <3>3. row'.tx <= Len(txs')
      BY <1>1, <2>5 DEF MovesInv, TablesFit
    <3> QED BY <3>1, <3>2, <3>3 DEF TablesFit, Executes
  <2>11. onNew' => row'.chain = "new"
    BY <1>1, <2>1 DEF MovesInv
  <2> QED BY <1>3, <2>5, <2>6, <2>7, <2>8, <2>9, <2>10, <2>11 DEF MovesInv
<1> QED BY <1>4, <1>5

LEMMA AskStatusHolds ==
  ASSUME MovesInv, NEW w \in Worker, NEW p \in DOMAIN proposals, AskStatus(w, p)
  PROVE  MovesInv'
<1>1. PICK s \in StatusesOf(proposals[p].upload) :
        answers' = [answers EXCEPT ![w] = [of |-> p, kind |-> s.kind, tx |-> s.tx]]
  BY DEF AskStatus
<1> DEFINE new == [of |-> p, kind |-> s.kind, tx |-> s.tx]
<1>2. UNCHANGED <<row, sends, proposals, uploads, txs, check, onNew>>
  BY DEF AskStatus
<1>3. p \in Nat /\ proposals[p] \in Proposals
  BY ElementOfSeq, LenProperties DEF MovesInv, MovesTyped
<1>4. /\ s.kind \in {"executed", "replaced"} /\ s.tx \in Nat
      /\ s.kind = "executed" => Executes(s.tx, p)
  BY TxsAre DEF StatusesOf, Executes
<1>5. new \in Answers /\ new.of = p /\ new.kind = s.kind /\ new.tx = s.tx
  BY <1>3, <1>4 DEF Answers
<1>6. answers' = [answers EXCEPT ![w] = new]
  BY <1>1
<1> HIDE DEF new
<1>7. /\ answers' \in [Worker -> Answers]
      /\ \A v \in Worker : answers'[v] = IF v = w THEN new ELSE answers[v]
  BY <1>5, <1>6 DEF MovesInv, MovesTyped
<1>8. TablesFit'
  <2>1. \A v \in Worker :
          /\ answers'[v].kind # "none" => answers'[v].of \in DOMAIN proposals
          /\ answers'[v].kind = "executed" =>
               /\ answers'[v].tx \in DOMAIN txs
               /\ txs[answers'[v].tx].nonce = proposals[answers'[v].of].upload
    BY <1>4, <1>5, <1>7 DEF MovesInv, TablesFit, Executes
  <2> QED BY <1>2, <2>1 DEF MovesInv, TablesFit, Executes
<1>9. TxsKept /\ SpentOnce'
  BY <1>2, NothingBroadcast
<1>10. AskedFits' /\ LeftBehind'
  BY <1>2, <1>9, AskedStays, LeftStays
<1>11. ReadStands'
  BY <1>2 DEF MovesInv, ReadStands, SendsOf
<1>12. MovesTyped' /\ SendsFit'
  BY <1>2, <1>7 DEF MovesInv, MovesTyped, SendsFit
<1> QED BY <1>2, <1>8, <1>9, <1>10, <1>11, <1>12 DEF MovesInv
\* A move asks, waits or searches: it writes nothing.
LEMMA CheckStepsHold ==
  ASSUME MovesInv, check' \in Checks, ReadStands', AskedFits',
         UNCHANGED <<row, sends, proposals, uploads, txs, answers, onNew>>
  PROVE  MovesInv'
<1>1. TxsKept /\ SpentOnce'
  BY NothingBroadcast
<1>2. LeftBehind'
  BY <1>1, LeftStays
<1> QED BY <1>1, <1>2 DEF MovesInv, MovesTyped, SendsFit, TablesFit, Executes

LEMMA HashesAre ==
  ASSUME MovesInv
  PROVE  /\ Histories \subseteq DOMAIN txs /\ TrackedHashes \subseteq DOMAIN txs
         /\ Histories \subseteq TrackedHashes
<1>1. Histories \subseteq DOMAIN txs
  BY DEF MovesInv, TablesFit, Executes, Histories
<1>2. row.tx # 0 => row.tx \in DOMAIN txs
  BY TxsAre DEF MovesInv, TablesFit
<1> QED BY <1>1, <1>2 DEF TrackedHashes, SendsOf, MovesInv, SendsFit

LEMMA AskingHolds ==
  ASSUME MovesInv, ReadRequest \/ Waits \/ AskReceipts \/ SearchContracts
  PROVE  MovesInv'
<1>1. UNCHANGED <<row, sends, proposals, uploads, txs, answers, onNew>>
  BY DEF ReadRequest, Waits, AskReceipts, SearchContracts
<1>2. check \in Checks /\ row \in Rows /\ DOMAIN txs \subseteq Nat
  BY TxsAre DEF MovesInv, MovesTyped
<1>3. CASE ReadRequest
  <2>1. /\ Histories \subseteq DOMAIN txs /\ TrackedHashes \subseteq DOMAIN txs
        /\ Histories \subseteq TrackedHashes
    BY HashesAre
  <2>2. /\ check' \in Checks /\ check'.pc = "asking" /\ check'.found = 0
        /\ check'.hashes = TrackedHashes /\ check'.safeHashes = Histories
        /\ check'.unmapped = UnmappedExecution
        /\ check'.unknown = (UnmappedExecution \/ SendsOf("operator") # {})
    <3>1. UnmappedExecution \in BOOLEAN /\ (UnmappedExecution \/ SendsOf("operator") # {}) \in BOOLEAN
      BY DEF UnmappedExecution
    <3> HIDE DEF UnmappedExecution
    <3>2. check' = [NoCheck EXCEPT !.pc = "asking", !.row = row, !.hashes = TrackedHashes,
                              !.safeHashes = Histories, !.unmapped = UnmappedExecution,
                              !.unknown = UnmappedExecution \/ SendsOf("operator") # {},
                              !.untouched = TRUE]
      BY <1>3 DEF ReadRequest
    <3> QED BY <1>2, <2>1, <3>1, <3>2 DEF Checks, NoCheck
  <2>3. AskedFits'
    BY <1>1, <2>1, <2>2 DEF AskedFits
  <2>4. ReadStands'
    BY <1>1, <1>3, <2>2 DEF ReadStands, ReadRequest, NothingOpen, SendsOf
  <2> QED BY <1>1, <2>2, <2>3, <2>4, CheckStepsHold
<1>4. CASE Waits
  <2>1. check' \in Checks /\ check'.pc = "idle"
    BY <1>4 DEF Waits, NoCheck, Checks
  <2> QED BY <1>1, <2>1, CheckStepsHold DEF AskedFits, ReadStands
<1>5. CASE AskReceipts
  <2> DEFINE seen == {t \in check.hashes : Landed(t)}
  <2> DEFINE told == \/ check.unknown \/ seen # check.hashes
                     \/ \E t \in seen \cap check.safeHashes : txs[t].did = "revert"
  <2>1. told \in BOOLEAN
    OBVIOUS
  <2>2. check.pc = "asking" /\ \A t \in seen : txs[t].stage = "final"
    BY <1>5 DEF AskReceipts
  <2>3. check' = [check EXCEPT !.pc = "searching", !.unknown = told]
    BY <1>5 DEF AskReceipts
  <2>4. /\ ~told => /\ ~check.unknown
                    /\ \A t \in check.hashes : txs[t].stage = "final"
                    /\ \A t \in check.safeHashes : txs[t].did # "revert"
    <3>1. check.safeHashes \subseteq check.hashes
      BY <2>2 DEF MovesInv, AskedFits
    <3> QED BY <2>2, <3>1
  <2>5. check.unknown => told
    OBVIOUS
  <2> HIDE DEF told
  <2>6. /\ check' \in Checks /\ check'.pc = "searching" /\ check'.unknown = told
        /\ check'.hashes = check.hashes /\ check'.safeHashes = check.safeHashes
        /\ check'.unmapped = check.unmapped /\ check'.untouched = check.untouched
        /\ check'.found = check.found
    BY <1>2, <2>1, <2>3 DEF Checks
  <2>7. AskedFits'
    BY <1>1, <2>2, <2>4, <2>5, <2>6 DEF MovesInv, AskedFits
  <2>8. ReadStands'
    BY <1>1, <2>2, <2>5, <2>6 DEF MovesInv, ReadStands, SendsOf
  <2> QED BY <1>1, <2>6, <2>7, <2>8, CheckStepsHold
<1>6. CASE SearchContracts
  <2>1. PICK found \in DOMAIN txs \cup {check.found} :
          /\ check' = [check EXCEPT !.pc = "deciding", !.found = found]
          /\ found = 0 => ~Anchored
    <3>1. CASE Anchored
      <4>1. PICK t \in Storing : check' = [check EXCEPT !.pc = "deciding", !.found = t]
        BY <1>6, <3>1 DEF SearchContracts
      <4>2. t \in DOMAIN txs /\ t # 0
        BY TxsAre
      <4> QED BY <4>1, <4>2
    <3>2. CASE ~Anchored
      <4>1. check' = [check EXCEPT !.pc = "deciding"]
        BY <1>6, <3>2 DEF SearchContracts
      <4>2. check' = [check EXCEPT !.pc = "deciding", !.found = check.found]
        BY <1>2, <4>1 DEF Checks
      <4> QED BY <3>2, <4>2
    <3> QED BY <3>1, <3>2
  <2>2. check.pc = "searching" /\ found \in Nat
    BY <1>2, <1>6 DEF SearchContracts, Checks
  <2>3. /\ check' \in Checks /\ check'.pc = "deciding" /\ check'.unknown = check.unknown
        /\ check'.hashes = check.hashes /\ check'.safeHashes = check.safeHashes
        /\ check'.unmapped = check.unmapped /\ check'.untouched = check.untouched
        /\ check'.found = found
    BY <1>2, <2>1, <2>2 DEF Checks
  <2>4. AskedFits'
    <3>1. /\ check.hashes \subseteq DOMAIN txs /\ found \in DOMAIN txs \cup {0}
          /\ check.safeHashes \subseteq check.hashes
          /\ check.unmapped => check.unknown
          /\ ~check.unknown =>
               /\ \A t \in check.hashes : txs[t].stage = "final"
               /\ \A t \in check.safeHashes : txs[t].did # "revert"
      BY <2>1, <2>2 DEF MovesInv, AskedFits
    <3>2. ~check.unknown /\ found = 0 => \A t \in check.hashes : txs[t].did # "store"
      BY <2>1, <3>1 DEF Anchored, Storing, Landed
    <3> QED BY <1>1, <2>3, <3>1, <3>2 DEF AskedFits
  <2>5. ReadStands'
    BY <1>1, <2>2, <2>3 DEF MovesInv, ReadStands, SendsOf
  <2> QED BY <1>1, <2>3, <2>4, <2>5, CheckStepsHold
<1> QED BY <1>3, <1>4, <1>5, <1>6
\* A row is moved only when all its sends and executions are known to have come to nothing.
LEMMA ApplyMoveHolds ==
  ASSUME MovesInv, ApplyMove
  PROVE  MovesInv'
<1>1. /\ check.pc = "deciding" /\ check' = NoCheck
      /\ UNCHANGED <<sends, proposals, uploads, txs, answers, onNew>>
      /\ row' = IF StillAsRead THEN MoveOutcome ELSE row
  BY DEF ApplyMove
<1>2. check \in Checks /\ row \in Rows /\ row.tx <= Len(txs) /\ Len(txs) \in Nat
  BY TxsAre DEF MovesInv, MovesTyped, TablesFit
<1>3. check' \in Checks /\ check'.pc = "idle"
  BY <1>1 DEF NoCheck, Checks
<1>4. TxsKept /\ SpentOnce'
  BY <1>1, NothingBroadcast
<1>5. ReadStands' /\ AskedFits'
  BY <1>3 DEF ReadStands, AskedFits
<1>6. CASE row' = row
  <2>1. LeftBehind'
    BY <1>1, <1>4, <1>6, LeftStays
  <2> QED BY <1>1, <1>3, <1>4, <1>5, <1>6, <2>1
          DEF MovesInv, MovesTyped, SendsFit, TablesFit, Executes
<1>7. CASE StillAsRead
  <2>1. row' = MoveOutcome /\ check.untouched /\ row.chain = "old"
    BY <1>1, <1>7 DEF StillAsRead, MovesInv, ReadStands
  <2>2. row' \in Rows /\ row'.tx <= Len(txs)
    <3>1. CASE check.found # 0 /\ row' = RefusedOnChain(check.found)
      <4>1. check.found \in Nat /\ check.found <= Len(txs)
        BY <1>1, <1>2, <3>1, TxsAre DEF MovesInv, AskedFits
      <4> QED BY <1>2, <3>1, <4>1 DEF RefusedOnChain, Rows
    <3>2. CASE row' = Refused
      BY <1>2, <3>2 DEF Refused, Rows, MOVABLE_STATES
    <3>3. CASE row' = Moved
      BY <1>2, <3>3 DEF Moved, Rows
    <3> QED BY <2>1, <3>1, <3>2, <3>3 DEF MoveOutcome
  <2>3. LeftBehind'
    <3>1. CASE row' # Moved
      <4>1. row'.chain = "old"
        BY <1>2, <2>1, <3>1 DEF MoveOutcome, RefusedOnChain, Refused, Rows
      <4> QED BY <4>1 DEF LeftBehind
    <3>2. CASE row' = Moved
      <4>1. check.found = 0 /\ ~check.unknown
        <5>1. RefusedOnChain(check.found).chain = "old" /\ Refused.chain = "old" /\ Moved.chain = "new"
          BY <1>2, <2>1 DEF RefusedOnChain, Refused, Moved, Rows
        <5>2. check.unknown \in BOOLEAN
          BY <1>2 DEF Checks
        <5> QED BY <2>1, <3>2, <5>1, <5>2 DEF MoveOutcome
      <4>2. /\ check.hashes \subseteq DOMAIN txs /\ check.safeHashes \subseteq check.hashes
            /\ \A t \in check.hashes : txs[t].stage = "final" /\ txs[t].did # "store"
            /\ \A t \in check.safeHashes : txs[t].did # "revert"
            /\ ~check.unmapped
        BY <1>1, <4>1 DEF MovesInv, AskedFits
      <4>3. /\ SendsOf("open") = {} /\ SendsOf("operator") = {}
            /\ SendsOf("receipt") \subseteq check.hashes
        BY <1>1, <1>7, <4>1 DEF StillAsRead, NothingOpen, MovesInv, ReadStands
      <4>4. \A t \in DOMAIN sends :
              txs[t].stage = "gone" \/ (txs[t].stage = "final" /\ txs[t].did # "store")
        BY <4>2, <4>3 DEF MovesInv, SendsFit, Settlements, SendsOf
      <4>5. ASSUME NEW p \in DOMAIN proposals
            PROVE  \E t \in DOMAIN txs :
                     /\ txs[t].nonce = proposals[p].upload
                     /\ txs[t].stage = "final" /\ txs[t].did = "nothing"
        <5>1. proposals[p] \in Proposals
          BY ElementOfSeq DEF MovesInv, MovesTyped
        <5>2. proposals[p].state # "proposed" /\ ~UnmappedExecution /\ Histories \subseteq check.safeHashes
          BY <1>7, <4>2 DEF StillAsRead, NothingOpen, OpenProposals
        <5>3. PICK t \in proposals[p].history : TRUE
          BY <5>1, <5>2 DEF UnmappedExecution, Proposals
        <5>4. t \in check.safeHashes
          BY <5>2, <5>3 DEF Histories
        <5>5. t \in DOMAIN txs /\ txs[t].nonce = proposals[p].upload
          BY <5>3 DEF MovesInv, TablesFit, Executes
        <5>6. txs[t].did = "nothing" /\ txs[t].stage = "final"
          BY <4>2, <5>4, <5>5, TxsAre DEF Txs
        <5> QED BY <5>5, <5>6
      <4> QED BY <1>1, <4>4, <4>5 DEF LeftBehind
    <3> QED BY <3>1, <3>2
  <2>4. onNew' => row'.chain = "new"
    BY <1>1, <2>1 DEF MovesInv
  <2> QED BY <1>1, <1>3, <1>4, <1>5, <2>2, <2>3, <2>4
          DEF MovesInv, MovesTyped, SendsFit, TablesFit, Executes
<1> QED BY <1>1, <1>6, <1>7

LEMMA InitMoves == SafeMovesInit => MovesInv
<1> SUFFICES ASSUME SafeMovesInit PROVE MovesInv
  OBVIOUS
<1>1. /\ sends = <<>> /\ proposals = <<>> /\ uploads = <<>> /\ txs = <<>>
      /\ answers = [w \in Worker |-> NoAnswer] /\ check = NoCheck /\ onNew = FALSE
      /\ row = [state |-> "created", chain |-> "old", tx |-> 0, moveTo |-> "none"]
  BY DEF SafeMovesInit
<1>2. /\ txs \in Seq(Txs) /\ uploads \in Seq(Uploads) /\ proposals \in Seq(Proposals)
      /\ DOMAIN txs = {} /\ DOMAIN proposals = {} /\ DOMAIN sends = {} /\ Len(txs) = 0
  BY <1>1
<1>3. row \in Rows /\ check \in Checks /\ check.pc = "idle" /\ answers \in [Worker -> Answers]
  BY <1>1 DEF Rows, MOVABLE_STATES, NoCheck, Checks, NoAnswer, Answers
<1>4. MovesTyped
  BY <1>1, <1>2, <1>3 DEF MovesTyped
<1>5. SpentOnce /\ SendsFit /\ ReadStands /\ AskedFits /\ LeftBehind
  BY <1>1, <1>2, <1>3 DEF SpentOnce, SendsFit, ReadStands, AskedFits, LeftBehind
<1>6. TablesFit
  BY <1>1, <1>2 DEF TablesFit, NoAnswer
<1> QED BY <1>1, <1>4, <1>5, <1>6 DEF MovesInv

LEMMA MovesInvHolds == MovesInv /\ [SafeMovesNext]_safeMoveVars => MovesInv'
<1> SUFFICES ASSUME MovesInv, [SafeMovesNext]_safeMoveVars PROVE MovesInv'
  OBVIOUS
<1>1. CASE \/ ChainSteps
           \/ \E n \in DOMAIN uploads : OwnersExecute(n) \/ OwnersReplace(n) \/ ReplacementGone(n)
  BY <1>1, ChainStepsKeep, ChainStepsHold
<1>2. CASE SignerSteps
  BY <1>2, SendHolds, RowStepsAre, SettleHolds DEF SignerSteps
<1>3. CASE ProposeToSafe \/ ProposalLost
  BY <1>3, ProposeHolds
<1>4. CASE \E w \in Worker : \/ TrackProposal(w) \/ closeUnexecutable(w)
                             \/ \E p \in DOMAIN proposals : AskStatus(w, p)
  BY <1>4, ProposalStepsHold, AskStatusHolds
<1>5. CASE MoveSteps
  BY <1>5, RowStepsAre, AskingHolds, ApplyMoveHolds DEF MoveSteps
<1>6. CASE UNCHANGED safeMoveVars
  <2>1. TxsKept /\ SpentOnce' /\ TablesRest /\ UNCHANGED <<txs, uploads>>
    BY <1>6, NothingBroadcast DEF safeMoveVars, TablesRest
  <2> QED BY <2>1, ChainStepsHold DEF MovesInv, MovesTyped
<1> QED BY <1>1, <1>2, <1>3, <1>4, <1>5, <1>6 DEF SafeMovesNext, SafeSteps

\* For any number of workers, transactions and proposals: a batch that was moved
\* is never stored on both chains by anything the worker sent or has on file.
THEOREM MovedBatchesAnchorOnce == SafeMovesSpec => []NotAnchoredTwice
<1>1. SafeMovesSpec => []MovesInv
  BY InitMoves, MovesInvHolds, PTL DEF SafeMovesSpec
<1> QED BY <1>1, LeftBehindIsEnough, PTL

-----------------------------------------------------------------------------
(* RegistryPublication.  Nothing locks the entry itself.  What keeps two   *)
(* publications apart is the index that allows one pending draft per key   *)
(* and the lock on the draft: whoever is past the lock holds the one       *)
(* pending draft, so nobody else is (OneHolder).  From that the rest       *)
(* follows: the number read is still free, and what was checked still      *)
(* holds when the request commits.                                         *)

OnePending ==
    \A d, e \in Draft : drafts[d].state = "pending" /\ drafts[e].state = "pending" => d = e

OneHolder == \A r, s \in Request : InTransaction(r) /\ InTransaction(s) => r = s

\* What a request that holds the lock on its draft found in the row is still there.
Holds(q) == q.draft \in Draft /\ Approvable(q)

\* What the check before the publication found is still so.
StillSo(q) ==
    /\ ~restricted
    /\ Project => q.stated = PublishedStatus
    /\ drafts[q.draft].ledger => drafts[q.draft].snapshot = subject.evidence

RequestInv(q) ==
    /\ q.pc \in {"locked", "checked", "numbered"} => Holds(q)
    /\ q.pc \in {"checked", "numbered"} => StillSo(q)
    /\ q.pc = "numbered" => q.previous = Latest
    /\ q.pc # "idle" => q.draft \in Draft

RequestsInv == OneHolder /\ \A r \in Request : RequestInv(requests[r])

\* A published draft has its one version.
VersionsInv ==
    /\ \A v \in DOMAIN versions :
        /\ drafts[versions[v].draft].state = "published"
        /\ versions[v].approver # drafts[versions[v].draft].by
        /\ versions[v].status = "published" => v = Latest
    /\ \A v, w \in DOMAIN versions : versions[v].draft = versions[w].draft => v = w
    /\ \A d \in Draft : drafts[d].state = "published" =>
        \E v \in DOMAIN versions : versions[v].draft = d

\* Batches are read one at a time, and commit what they read.
BuildsInv ==
    /\ \A b, c \in Builder : builds[b] # {} /\ builds[c] # {} => b = c
    /\ \A b \in Builder : builds[b] \cap batched = {}

Inv == PublicationTypeOK /\ OnePending /\ RequestsInv /\ VersionsInv /\ BuildsInv

---------------------------------------------------------------------------
(* Types of the rows that stand for nothing.                               *)

LEMMA IdleTyped ==
    Idle \in RequestRow /\ Blank \in DraftRow
<1>1. (CHOOSE p \in Person : TRUE) \in Person
  BY PublicationAssumption
<1>2. (CHOOSE s \in SubjectState : TRUE) \in SubjectState
  BY DEF SubjectState, Lifecycle
<1> QED
  BY <1>1, <1>2 DEF Idle, Blank, RequestRow, DraftRow

LEMMA VersionTyped ==
    ASSUME Inv
    PROVE  /\ Latest \in Nat
           /\ DOMAIN versions = 1 .. Latest
           /\ \A v \in DOMAIN versions : versions[v] \in Version /\ versions[v].draft \in Draft
<1>1. versions \in Seq(Version)
  BY DEF Inv, PublicationTypeOK
<1>2. \A v \in DOMAIN versions : versions[v] \in Version
  BY <1>1
<1> QED
  BY <1>1, <1>2 DEF Latest, Version

(* The starting state satisfies the invariant.                             *)
LEMMA InitInv ==
    ASSUME PublicationInit
    PROVE  Inv
<1>0. Idle \in RequestRow /\ Blank \in DraftRow
  BY IdleTyped
<1>a. PICK type \in RegistryType :
         subject = [type |-> type, prior |-> "registered", evidence |-> 0,
                    state |-> IF type = "project" THEN "draft" ELSE "signed"]
  BY DEF PublicationInit
<1>b. subject \in [type: RegistryType, state: IF Project THEN Lifecycle ELSE Attestation,
                   prior: {"registered", "closure"}, evidence: 0 .. Evidence]
  BY <1>a, PublicationAssumption DEF Project, Lifecycle, Attestation
<1>1. PublicationTypeOK
  <2>1. drafts \in [Draft -> DraftRow] /\ requests \in [Request -> RequestRow]
    BY <1>0 DEF PublicationInit
  <2>2. restricted \in BOOLEAN /\ batched \subseteq DOMAIN versions
    BY DEF PublicationInit
  <2>4. versions \in Seq(Version)
    BY DEF PublicationInit
  <2>3. builds \in [Builder -> SUBSET DOMAIN versions]
    BY DEF PublicationInit
  <2> QED
    BY <1>b, <2>1, <2>2, <2>3, <2>4 DEF PublicationTypeOK
<1>2. OnePending /\ RequestsInv /\ VersionsInv /\ BuildsInv
  BY DEF PublicationInit, OnePending, RequestsInv, OneHolder, InTransaction, RequestInv, Idle,
         Blank, VersionsInv, BuildsInv
<1> QED
  BY <1>1, <1>2 DEF Inv

---------------------------------------------------------------------------
(* Steps that change one request and nothing else.                         *)

LEMMA RequestMoves ==
    ASSUME Inv, NEW r \in Request, NEW q \in RequestRow,
           requests' = [requests EXCEPT ![r] = q],
           UNCHANGED <<subject, restricted, drafts, versions, builds, batched>>,
           RequestInv(q),
           q.pc \in {"locked", "checked", "numbered"} =>
              \A s \in Request : InTransaction(s) => s = r
    PROVE  Inv'
<1>1. PublicationTypeOK'
  BY DEF Inv, PublicationTypeOK, Project
<1>2. \A s \in Request : requests'[s] = IF s = r THEN q ELSE requests[s]
  BY DEF Inv, PublicationTypeOK
<1>3. OneHolder'
  BY <1>2 DEF Inv, RequestsInv, OneHolder, InTransaction
<1>4. \A s \in Request : RequestInv(requests[s])'
  BY <1>2 DEF Inv, RequestsInv, RequestInv, Holds, Approvable, StillSo, Project,
              PublishedStatus, Latest
<1>5. OnePending' /\ VersionsInv' /\ BuildsInv'
  BY DEF Inv, OnePending, VersionsInv, BuildsInv, Latest
<1> QED
  BY <1>1, <1>3, <1>4, <1>5 DEF Inv, RequestsInv

LEMMA EndKeeps ==
    ASSUME Inv, NEW r \in Request, End(r),
           UNCHANGED <<subject, restricted, drafts, versions, builds, batched>>
    PROVE  Inv'
<1>1. RequestInv(Idle) /\ Idle.pc = "idle"
  BY DEF RequestInv, Idle
<1> QED
  BY <1>1, IdleTyped, RequestMoves DEF End

LEMMA AskKeeps ==
    ASSUME Inv, NEW r \in Request, NEW d \in Draft, NEW p \in Person, Ask(r, d, p)
    PROVE  Inv'
<1> DEFINE q == [Idle EXCEPT !.pc = "asked", !.draft = d, !.approver = p,
                             !.expected = drafts[d].version]
<1>1. drafts[d].version \in Nat
  BY DEF Inv, PublicationTypeOK, DraftRow
<1>2. q \in RequestRow
  BY <1>1, IdleTyped DEF RequestRow
<1>3. q.pc = "asked" /\ q.draft = d
  BY DEF Idle
<1>4. RequestInv(q)
  BY <1>3 DEF RequestInv
<1> HIDE DEF q
<1>5. requests' = [requests EXCEPT ![r] = q]
  BY DEF Ask, q
<1> QED
  BY <1>2, <1>3, <1>4, <1>5, RequestMoves DEF Ask

\* Two requests past the lock would hold the same pending draft.
LEMMA LockDraftKeeps ==
    ASSUME Inv, NEW r \in Request, LockDraft(r)
    PROVE  Inv'
<1> DEFINE q == [requests[r] EXCEPT !.pc = "locked"]
<1>0. requests[r] \in RequestRow /\ requests[r].pc = "asked" /\ requests[r].draft \in Draft
  BY DEF Inv, PublicationTypeOK, RequestsInv, RequestInv, LockDraft
<1>1. CASE ~Approvable(requests[r])
  BY <1>1, EndKeeps DEF LockDraft
<1>2. CASE Approvable(requests[r])
  <2>1. q \in RequestRow /\ q.pc = "locked" /\ q.draft = requests[r].draft
        /\ q.approver = requests[r].approver /\ q.expected = requests[r].expected
    BY <1>0 DEF RequestRow
  <2> HIDE DEF q
  <2>2. RequestInv(q)
    BY <2>1, <1>0, <1>2 DEF RequestInv, Holds, Approvable
  <2>3. ASSUME NEW s \in Request, InTransaction(s)
        PROVE  s = r
    <3>1. requests[s].draft \in Draft /\ drafts[requests[s].draft].state = "pending"
      BY <2>3 DEF Inv, RequestsInv, RequestInv, InTransaction, Holds, Approvable
    <3>2. drafts[requests[r].draft].state = "pending"
      BY <1>2 DEF Approvable
    <3>3. requests[s].draft = requests[r].draft
      BY <3>1, <3>2, <1>0 DEF Inv, OnePending
    <3> QED
      BY <3>3, <2>3 DEF LockDraft, DraftFree
  <2>4. requests' = [requests EXCEPT ![r] = q]
    BY <1>2 DEF LockDraft, q
  <2> QED
    BY <2>1, <2>2, <2>3, <2>4, RequestMoves DEF LockDraft
<1> QED
  BY <1>1, <1>2

\* A request past the lock stays the only one.
LEMMA HolderMoves ==
    ASSUME Inv, NEW r \in Request, InTransaction(r)
    PROVE  /\ requests[r] \in RequestRow
           /\ RequestInv(requests[r])
           /\ \A s \in Request : InTransaction(s) => s = r
BY DEF Inv, PublicationTypeOK, RequestsInv, OneHolder

LEMMA PublishedStatusTyped ==
    ASSUME Inv PROVE PublishedStatus \in SubjectState
BY DEF Inv, PublicationTypeOK, PublishedStatus, SubjectState, Lifecycle, Project

LEMMA RecheckKeeps ==
    ASSUME Inv, NEW r \in Request, Recheck(r)
    PROVE  Inv'
<1> DEFINE q == [requests[r] EXCEPT !.pc = "checked", !.stated = PublishedStatus]
<1>0. InTransaction(r)
  BY DEF Recheck, InTransaction
<1>1. CASE ~StillPublishable(requests[r].draft)
  BY <1>1, EndKeeps DEF Recheck
<1>2. CASE StillPublishable(requests[r].draft)
  <2>1. q \in RequestRow /\ q.pc = "checked" /\ q.stated = PublishedStatus
        /\ q.draft = requests[r].draft
        /\ q.approver = requests[r].approver /\ q.expected = requests[r].expected
    BY <1>0, HolderMoves, PublishedStatusTyped DEF RequestRow
  <2>2. requests' = [requests EXCEPT ![r] = q]
    BY <1>2 DEF Recheck
  <2> HIDE DEF q
  <2>3. RequestInv(q)
    BY <2>1, <1>0, <1>2, HolderMoves
    DEF RequestInv, Holds, Approvable, StillSo, StillPublishable, InTransaction
  <2> QED
    BY <2>1, <2>2, <2>3, <1>0, HolderMoves, RequestMoves DEF Recheck
<1> QED
  BY <1>1, <1>2

LEMMA ReadPreviousKeeps ==
    ASSUME Inv, NEW r \in Request, ReadPrevious(r)
    PROVE  Inv'
<1> DEFINE q == [requests[r] EXCEPT !.pc = "numbered", !.previous = Latest]
<1>0. InTransaction(r) /\ requests[r].pc = "checked"
  BY DEF ReadPrevious, InTransaction
<1>1. Latest \in Nat
  BY DEF Inv, PublicationTypeOK, Latest
<1>2. q \in RequestRow /\ q.pc = "numbered" /\ q.previous = Latest /\ q.draft = requests[r].draft
      /\ q.approver = requests[r].approver /\ q.expected = requests[r].expected
      /\ q.stated = requests[r].stated
  BY <1>0, <1>1, HolderMoves DEF RequestRow
<1>3. requests' = [requests EXCEPT ![r] = q]
  BY DEF ReadPrevious
<1> HIDE DEF q
<1>4. RequestInv(q)
  BY <1>0, <1>2, HolderMoves DEF RequestInv, Holds, Approvable, StillSo
<1> QED
  BY <1>2, <1>3, <1>4, <1>0, HolderMoves, RequestMoves DEF ReadPrevious

---------------------------------------------------------------------------
(* Steps that change drafts or versions.                                   *)

LEMMA ProposeKeeps ==
    ASSUME Inv, NEW d \in Draft, NEW p \in Person, NEW ledger \in BOOLEAN,
           NEW claimed \in SubjectState, Propose(d, p, ledger, claimed)
    PROVE  Inv'
<1> DEFINE rec == [state |-> "pending", version |-> 1, by |-> p, ledger |-> ledger,
                   snapshot |-> subject.evidence, claimed |-> claimed]
<1>1. rec \in DraftRow
  BY DEF Inv, PublicationTypeOK, DraftRow
<1>2. /\ drafts' = [drafts EXCEPT ![d] = rec]
      /\ rec.state = "pending"
      /\ drafts[d].state = "none"
      /\ \A e \in Draft : drafts[e].state # "pending"
      /\ UNCHANGED <<subject, restricted, versions, requests, builds, batched>>
  BY DEF Propose, NonePending
<1> HIDE DEF rec
<1>3. \A e \in Draft : drafts'[e] = IF e = d THEN rec ELSE drafts[e]
  BY <1>2 DEF Inv, PublicationTypeOK
<1>4. PublicationTypeOK'
  BY <1>1, <1>2 DEF Inv, PublicationTypeOK, Project
<1>5. OnePending'
  BY <1>2, <1>3 DEF OnePending
<1>6. RequestsInv'
  <2>1. \A r \in Request : requests[r].pc \notin {"locked", "checked", "numbered"}
    BY <1>2 DEF Inv, RequestsInv, RequestInv, Holds, Approvable
  <2> QED
    BY <2>1, <1>2 DEF Inv, RequestsInv, RequestInv, OneHolder, InTransaction
<1>7. VersionsInv'
  <2>1. \A v \in DOMAIN versions : versions[v].draft \in Draft /\ versions[v].draft # d
    BY <1>2, VersionTyped DEF Inv, VersionsInv
  <2> QED
    BY <2>1, <1>2, <1>3 DEF Inv, VersionsInv, Latest
<1>8. BuildsInv'
  BY <1>2 DEF Inv, BuildsInv
<1> QED
  BY <1>4, <1>5, <1>6, <1>7, <1>8 DEF Inv

LEMMA RejectKeeps ==
    ASSUME Inv, NEW d \in Draft, Reject(d)
    PROVE  Inv'
<1> DEFINE rec == [drafts[d] EXCEPT !.state = "rejected", !.version = drafts[d].version + 1]
<1>0. drafts[d] \in DraftRow
  BY DEF Inv, PublicationTypeOK
<1>1. rec \in DraftRow
  <2>1. drafts[d].version + 1 \in Nat
    BY <1>0 DEF DraftRow
  <2> QED
    BY <1>0, <2>1 DEF DraftRow
<1>2. /\ drafts' = [drafts EXCEPT ![d] = rec]
      /\ rec.state = "rejected" /\ rec.by = drafts[d].by
      /\ drafts[d].state = "pending"
      /\ UNCHANGED <<subject, restricted, versions, requests, builds, batched>>
  BY <1>0 DEF Reject, DraftRow, Inv, PublicationTypeOK
<1> HIDE DEF rec
<1>3. \A e \in Draft : drafts'[e] = IF e = d THEN rec ELSE drafts[e]
  BY <1>2 DEF Inv, PublicationTypeOK
<1>4. PublicationTypeOK'
  BY <1>1, <1>2 DEF Inv, PublicationTypeOK, Project
<1>5. OnePending'
  BY <1>2, <1>3 DEF OnePending, Inv
<1>6. RequestsInv'
  <2>1. \A r \in Request : InTransaction(r) => requests[r].draft # d
    BY DEF Reject, DraftFree
  <2>2. \A r \in Request : RequestInv(requests[r])'
    BY <1>2, <1>3, <2>1
    DEF Inv, RequestsInv, RequestInv, Holds, Approvable, StillSo, InTransaction, Project,
        PublishedStatus, Latest
  <2> QED
    BY <2>2, <1>2 DEF Inv, RequestsInv, OneHolder, InTransaction
<1>7. VersionsInv'
  <2>1. \A v \in DOMAIN versions : versions[v].draft \in Draft /\ versions[v].draft # d
    BY <1>2, VersionTyped DEF Inv, VersionsInv
  <2> QED
    BY <2>1, <1>2, <1>3 DEF Inv, VersionsInv, Latest
<1>8. BuildsInv'
  BY <1>2 DEF Inv, BuildsInv
<1> QED
  BY <1>4, <1>5, <1>6, <1>7, <1>8 DEF Inv

\* What a publication appends after relabelling the version before it.
LEMMA PublishedVersions ==
    ASSUME Inv, NEW new \in Version, versions' = Append(Supersede(Latest), new)
    PROVE  /\ versions' \in Seq(Version)
           /\ Latest' = Latest + 1
           /\ DOMAIN versions' = 1 .. Latest + 1
           /\ versions'[Latest + 1] = new
           /\ \A v \in DOMAIN versions :
                /\ v # Latest + 1
                /\ versions'[v].draft = versions[v].draft
                /\ versions'[v].approver = versions[v].approver
                /\ versions'[v].status = IF v = Latest THEN "superseded" ELSE versions[v].status
<1> DEFINE s == Supersede(Latest)
<1>0. /\ Latest \in Nat /\ DOMAIN versions = 1 .. Latest
      /\ \A v \in 1 .. Latest : versions[v] \in Version
  BY VersionTyped
<1>1. ASSUME NEW v \in 1 .. Latest
      PROVE  [versions[v] EXCEPT !.status = "superseded"] \in Version
  <2>1. versions[v] \in Version
    BY <1>0
  <2> QED
    BY <2>1 DEF Version, VersionStatus
<1>2. s = [w \in 1 .. Latest |->
             IF w = Latest THEN [versions[w] EXCEPT !.status = "superseded"] ELSE versions[w]]
  BY <1>0 DEF Supersede
<1>3. \A v \in 1 .. Latest : s[v] \in Version
  BY <1>0, <1>1, <1>2
<1>4. s \in Seq(Version) /\ Len(s) = Latest
  BY <1>0, <1>2, <1>3
<1>5. /\ \A v \in 1 .. Latest :
           /\ s[v].draft = versions[v].draft
           /\ s[v].approver = versions[v].approver
           /\ s[v].status = IF v = Latest THEN "superseded" ELSE versions[v].status
  BY <1>0, <1>2 DEF Version
<1> HIDE DEF s
<1>6. versions' = Append(s, new)
  BY DEF s
<1>7. /\ versions' \in Seq(Version) /\ Len(versions') = Latest + 1
      /\ versions'[Latest + 1] = new
      /\ \A v \in 1 .. Latest : versions'[v] = s[v]
  BY <1>0, <1>4, <1>6
<1>8. Latest' = Latest + 1
  BY <1>7 DEF Latest
<1>9. DOMAIN versions' = 1 .. Latest + 1
  BY <1>7
<1>10. \A v \in 1 .. Latest : v # Latest + 1
  BY <1>0
<1> QED
  BY <1>0, <1>5, <1>7, <1>8, <1>9, <1>10

\* The one request past the lock commits the number it read.
LEMMA PublishStep ==
    ASSUME Inv, NEW r \in Request, Publish(r)
    PROVE  LET q == requests[r]
               new == [status |-> "published", draft |-> q.draft,
                       stated |-> q.stated, approver |-> q.approver]
           IN  /\ new \in Version
               /\ q \in RequestRow /\ Holds(q) /\ StillSo(q) /\ q.previous = Latest
               /\ \A s \in Request : InTransaction(s) => s = r
               /\ versions' = Append(Supersede(Latest), new)
               /\ drafts' = [drafts EXCEPT ![q.draft].state = "published",
                                           ![q.draft].version = @ + 1]
               /\ subject' = [subject EXCEPT !.state = PublishedStatus]
               /\ requests' = [requests EXCEPT ![r] = Idle]
               /\ UNCHANGED <<restricted, builds, batched>>
<1> DEFINE q == requests[r]
<1>1. InTransaction(r) /\ q.pc = "numbered"
  BY DEF Publish, InTransaction
<1>2. /\ q \in RequestRow /\ Holds(q) /\ StillSo(q) /\ q.previous = Latest
      /\ \A s \in Request : InTransaction(s) => s = r
  BY <1>1, HolderMoves DEF RequestInv
<1>3. [status |-> "published", draft |-> q.draft,
       stated |-> q.stated, approver |-> q.approver] \in Version
  BY <1>2 DEF Version, VersionStatus, RequestRow, Holds
<1>4. subject' = [subject EXCEPT !.state = PublishedStatus]
  BY <1>2 DEF Publish, PublishedStatus
<1> QED
  BY <1>2, <1>3, <1>4 DEF Publish, End

LEMMA PublishKeeps ==
    ASSUME Inv, NEW r \in Request, Publish(r)
    PROVE  Inv'
<1> DEFINE q == requests[r]
           d == q.draft
           new == [status |-> "published", draft |-> q.draft,
                   stated |-> q.stated, approver |-> q.approver]
           rec == [drafts[d] EXCEPT !.state = "published", !.version = drafts[d].version + 1]
<1>1. /\ new \in Version
      /\ q \in RequestRow /\ Holds(q) /\ StillSo(q)
      /\ \A s \in Request : InTransaction(s) => s = r
      /\ versions' = Append(Supersede(Latest), new)
      /\ drafts' = [drafts EXCEPT ![d].state = "published", ![d].version = @ + 1]
      /\ subject' = [subject EXCEPT !.state = PublishedStatus]
      /\ requests' = [requests EXCEPT ![r] = Idle]
      /\ UNCHANGED <<restricted, builds, batched>>
  BY PublishStep
<1>2. /\ d \in Draft /\ drafts[d] \in DraftRow /\ drafts[d].state = "pending"
      /\ drafts[d].by # q.approver
  BY <1>1 DEF Holds, Approvable, Inv, PublicationTypeOK
<1>3. rec \in DraftRow /\ rec.state = "published" /\ rec.by = drafts[d].by
  <2>1. drafts[d].version + 1 \in Nat
    BY <1>2 DEF DraftRow
  <2> QED
    BY <1>2, <2>1 DEF DraftRow
<1>4. drafts' = [drafts EXCEPT ![d] = rec]
  BY <1>1, <1>2 DEF DraftRow, Inv, PublicationTypeOK
<1>5. new.status = "published" /\ new.draft = d /\ new.approver = q.approver
  OBVIOUS
<1> HIDE DEF new, rec
<1>6. \A e \in Draft : drafts'[e] = IF e = d THEN rec ELSE drafts[e]
  BY <1>4 DEF Inv, PublicationTypeOK
<1>7. /\ versions' \in Seq(Version)
      /\ Latest' = Latest + 1
      /\ DOMAIN versions' = 1 .. Latest + 1
      /\ versions'[Latest + 1] = new
      /\ \A v \in DOMAIN versions :
           /\ v # Latest + 1
           /\ versions'[v].draft = versions[v].draft
           /\ versions'[v].approver = versions[v].approver
           /\ versions'[v].status = IF v = Latest THEN "superseded" ELSE versions[v].status
  BY <1>1, PublishedVersions
<1>8. /\ Latest \in Nat /\ DOMAIN versions = 1 .. Latest
      /\ \A v \in DOMAIN versions : versions[v].draft \in Draft /\ versions[v].draft # d
  BY <1>2, VersionTyped DEF Inv, VersionsInv
<1>9. \A v \in DOMAIN versions' : v = Latest + 1 \/ v \in DOMAIN versions
  BY <1>7, <1>8
<1>10. PublicationTypeOK'
  <2>1. drafts' \in [Draft -> DraftRow]
    BY <1>3, <1>4 DEF Inv, PublicationTypeOK
  <2>2. requests' \in [Request -> RequestRow]
    BY <1>1, IdleTyped DEF Inv, PublicationTypeOK
  <2>3. (builds \in [Builder -> SUBSET DOMAIN versions] /\ batched \subseteq DOMAIN versions)'
    BY <1>1, <1>7, <1>8 DEF Inv, PublicationTypeOK
  <2>4. (subject \in [type: RegistryType, state: IF Project THEN Lifecycle ELSE Attestation,
                      prior: {"registered", "closure"}, evidence: 0 .. Evidence])'
    BY <1>1 DEF Inv, PublicationTypeOK, PublishedStatus, Project, Lifecycle
  <2> QED
    BY <1>1, <1>7, <2>1, <2>2, <2>3, <2>4 DEF Inv, PublicationTypeOK
<1>11. OnePending'
  BY <1>2, <1>3, <1>6 DEF OnePending, Inv
<1>12. RequestsInv'
  <2>1. \A s \in Request : requests'[s] = IF s = r THEN Idle ELSE requests[s]
    BY <1>1 DEF Inv, PublicationTypeOK
  <2>2. Idle.pc = "idle"
    BY DEF Idle
  <2>3. \A s \in Request : requests'[s].pc \notin {"locked", "checked", "numbered"}
    BY <1>1, <2>1, <2>2 DEF InTransaction
  <2>4. \A s \in Request : requests'[s].pc # "idle" => requests'[s].draft \in Draft
    BY <2>1, <2>2 DEF Inv, RequestsInv, RequestInv
  <2> QED
    BY <2>3, <2>4 DEF RequestsInv, OneHolder, InTransaction, RequestInv
<1>13. VersionsInv'
  <2>1. ASSUME NEW v \in DOMAIN versions'
        PROVE  /\ drafts'[versions'[v].draft].state = "published"
               /\ versions'[v].approver # drafts'[versions'[v].draft].by
               /\ versions'[v].status = "published" => v = Latest + 1
    <3>1. CASE v = Latest + 1
      BY <3>1, <1>2, <1>3, <1>5, <1>6, <1>7
    <3>2. CASE v \in DOMAIN versions
      BY <3>2, <1>6, <1>7, <1>8 DEF Inv, VersionsInv
    <3> QED
      BY <3>1, <3>2, <1>9
  <2>2. ASSUME NEW v \in DOMAIN versions', NEW w \in DOMAIN versions',
               versions'[v].draft = versions'[w].draft
        PROVE  v = w
    BY <2>2, <1>5, <1>7, <1>8, <1>9 DEF Inv, VersionsInv
  <2>3. ASSUME NEW e \in Draft, drafts'[e].state = "published"
        PROVE  \E v \in DOMAIN versions' : versions'[v].draft = e
    <3>1. CASE e = d
      <4>1. Latest + 1 \in DOMAIN versions'
        BY <1>7, <1>8
      <4> QED
        BY <3>1, <4>1, <1>5, <1>7
    <3>2. CASE e # d
      <4>1. PICK v \in DOMAIN versions : versions[v].draft = e
        BY <3>2, <2>3, <1>6 DEF Inv, VersionsInv
      <4>2. v \in DOMAIN versions'
        BY <1>7, <1>8
      <4> QED
        BY <4>1, <4>2, <1>7
    <3> QED
      BY <3>1, <3>2
  <2> QED
    BY <2>1, <2>2, <2>3, <1>7 DEF VersionsInv
<1>14. BuildsInv'
  BY <1>1 DEF Inv, BuildsInv
<1> QED
  BY <1>10, <1>11, <1>12, <1>13, <1>14 DEF Inv

\* Only the latest version is in force, and a revocation keeps the rest of it.
LEMMA RevokeStep ==
    ASSUME Inv, NEW expected \in DOMAIN versions, Revoke(expected)
    PROVE  /\ expected = Latest /\ Latest > 0 /\ versions[Latest].status = "published"
           /\ versions' \in Seq(Version)
           /\ Latest' = Latest /\ DOMAIN versions' = DOMAIN versions
           /\ \A v \in DOMAIN versions :
                /\ versions'[v].draft = versions[v].draft
                /\ versions'[v].approver = versions[v].approver
                /\ versions'[v].status = IF v = Latest THEN "revoked" ELSE versions[v].status
<1> DEFINE rec == [versions[expected] EXCEPT !.status = "revoked"]
<1>0. /\ Latest \in Nat /\ DOMAIN versions = 1 .. Latest
      /\ versions \in Seq(Version) /\ versions[expected] \in Version
  BY VersionTyped DEF Inv, PublicationTypeOK
<1>1. expected = Latest /\ versions[expected].status = "published"
  BY DEF Revoke, InForce, Inv, VersionsInv
<1>2. /\ rec \in Version /\ rec.status = "revoked"
      /\ rec.draft = versions[expected].draft /\ rec.approver = versions[expected].approver
  BY <1>0 DEF Version, VersionStatus
<1>3. versions' = [versions EXCEPT ![expected] = rec]
  BY DEF Revoke
<1> HIDE DEF rec
<1>4. versions' \in Seq(Version) /\ Len(versions') = Len(versions)
  BY <1>0, <1>2, <1>3
<1>5. DOMAIN versions' = DOMAIN versions
  BY <1>3
<1>6. \A v \in DOMAIN versions : versions'[v] = IF v = expected THEN rec ELSE versions[v]
  BY <1>3
<1>7. Latest' = Latest
  BY <1>4 DEF Latest
<1>8. Latest > 0
  BY <1>0, <1>1
<1> QED
  BY <1>1, <1>2, <1>4, <1>5, <1>6, <1>7, <1>8

LEMMA RevokeKeeps ==
    ASSUME Inv, NEW expected \in DOMAIN versions, Revoke(expected)
    PROVE  Inv'
<1>1. /\ versions' \in Seq(Version)
      /\ Latest' = Latest /\ DOMAIN versions' = DOMAIN versions
      /\ \A v \in DOMAIN versions :
           /\ versions'[v].draft = versions[v].draft
           /\ versions'[v].approver = versions[v].approver
           /\ versions'[v].status = IF v = Latest THEN "revoked" ELSE versions[v].status
  BY RevokeStep
<1>2. UNCHANGED <<subject, restricted, drafts, requests, builds, batched>>
  BY DEF Revoke
<1>3. PublicationTypeOK'
  BY <1>1, <1>2 DEF Inv, PublicationTypeOK, Project
<1>4. OnePending' /\ BuildsInv'
  BY <1>2 DEF Inv, OnePending, BuildsInv
<1>5. RequestsInv'
  BY <1>1, <1>2
  DEF Inv, RequestsInv, OneHolder, InTransaction, RequestInv, Holds, Approvable, StillSo, Project,
      PublishedStatus
<1>6. VersionsInv'
  BY <1>1, <1>2 DEF Inv, VersionsInv
<1> QED
  BY <1>3, <1>4, <1>5, <1>6 DEF Inv

---------------------------------------------------------------------------
(* Steps that change the subject or the restriction: each asks for the     *)
(* lock that would hide it from what a request has checked, except the     *)
(* moves of an attestation, of which a request promises nothing.           *)

LEMMA SurroundingsKeep ==
    ASSUME Inv, UNCHANGED <<drafts, versions, requests, builds, batched>>,
           restricted' \in BOOLEAN,
           (subject \in [type: RegistryType, state: IF Project THEN Lifecycle ELSE Attestation,
                         prior: {"registered", "closure"}, evidence: 0 .. Evidence])',
           \A r \in Request : requests[r].pc \in {"checked", "numbered"} => StillSo(requests[r])'
    PROVE  Inv'
<1>1. PublicationTypeOK'
  BY DEF Inv, PublicationTypeOK
<1>2. OnePending' /\ VersionsInv' /\ BuildsInv' /\ OneHolder'
  BY DEF Inv, RequestsInv, OnePending, VersionsInv, BuildsInv, OneHolder, InTransaction, Latest
<1>3. \A r \in Request : RequestInv(requests[r])'
  BY DEF Inv, RequestsInv, RequestInv, Holds, Approvable, Latest
<1> QED
  BY <1>1, <1>2, <1>3 DEF Inv, RequestsInv

LEMMA ChangeEvidenceKeeps ==
    ASSUME Inv, ChangeEvidence
    PROVE  Inv'
<1>1. /\ subject.evidence \in Nat /\ subject.evidence < Evidence
      /\ subject' = [subject EXCEPT !.evidence = subject.evidence + 1]
  BY PublicationAssumption DEF ChangeEvidence, Inv, PublicationTypeOK
<1>2. subject.evidence + 1 \in 0 .. Evidence
  BY <1>1, PublicationAssumption
<1>3. /\ subject'.type = subject.type /\ subject'.state = subject.state
      /\ subject' \in [type: RegistryType, state: IF Project THEN Lifecycle ELSE Attestation,
                        prior: {"registered", "closure"}, evidence: 0 .. Evidence]
  BY <1>1, <1>2 DEF Inv, PublicationTypeOK
<1>4. \A r \in Request : requests[r].pc \in {"checked", "numbered"} => StillSo(requests[r])'
  BY <1>3 DEF ChangeEvidence, EvidenceFree, InTransaction, Inv, RequestsInv, RequestInv, StillSo,
              Project, PublishedStatus
<1> QED
  BY <1>3, <1>4, SurroundingsKeep DEF ChangeEvidence, Project, Inv, PublicationTypeOK

LEMMA MoveLifecycleKeeps ==
    ASSUME Inv, NEW to \in Lifecycle, MoveLifecycle(to)
    PROVE  Inv'
<1>1. /\ subject'.type = subject.type /\ subject'.type = "project"
      /\ subject' \in [type: RegistryType, state: Lifecycle,
                        prior: {"registered", "closure"}, evidence: 0 .. Evidence]
  BY DEF MoveLifecycle, Inv, PublicationTypeOK, Project
<1>2. \A r \in Request : requests[r].pc \notin {"checked", "numbered"}
  BY DEF MoveLifecycle, ProjectFree, InTransaction
<1> QED
  BY <1>1, <1>2, SurroundingsKeep DEF MoveLifecycle, Project, Inv, PublicationTypeOK

LEMMA MoveAttestationKeeps ==
    ASSUME Inv, NEW to \in Attestation, MoveAttestation(to)
    PROVE  Inv'
<1>1. /\ subject'.type = subject.type /\ subject'.type # "project"
      /\ subject'.evidence = subject.evidence
      /\ subject' \in [type: RegistryType, state: Attestation,
                        prior: {"registered", "closure"}, evidence: 0 .. Evidence]
  BY DEF MoveAttestation, Inv, PublicationTypeOK, Project
<1>2. \A r \in Request : requests[r].pc \in {"checked", "numbered"} => StillSo(requests[r])'
  BY <1>1 DEF MoveAttestation, Inv, RequestsInv, RequestInv, StillSo, Project
<1> QED
  BY <1>1, <1>2, SurroundingsKeep DEF MoveAttestation, Project, Inv, PublicationTypeOK

LEMMA ToggleRestrictionKeeps ==
    ASSUME Inv, ToggleRestriction
    PROVE  Inv'
<1>1. \A r \in Request : requests[r].pc \notin {"checked", "numbered"}
  BY DEF ToggleRestriction, RestrictionFree
<1>2. restricted' \in BOOLEAN
  BY DEF ToggleRestriction
<1> QED
  BY <1>1, <1>2, SurroundingsKeep DEF ToggleRestriction, Inv, PublicationTypeOK, Project

---------------------------------------------------------------------------
(* Batches.                                                                *)

LEMMA BatchKeeps ==
    ASSUME Inv, NEW b \in Builder, ReadUnanchored(b) \/ CommitBatch(b)
    PROVE  Inv'
<1>1. UNCHANGED <<subject, restricted, drafts, versions, requests>>
  BY DEF ReadUnanchored, CommitBatch
<1>2. OnePending' /\ RequestsInv' /\ VersionsInv'
  BY <1>1
  DEF Inv, OnePending, RequestsInv, OneHolder, InTransaction, RequestInv, Holds, Approvable,
      StillSo, Project, PublishedStatus, Latest, VersionsInv
<1>3. CASE ReadUnanchored(b)
  <2>1. \A c \in Builder : builds'[c] = IF c = b THEN DOMAIN versions \ batched ELSE {}
    BY <1>3 DEF ReadUnanchored, BatchFree, Inv, PublicationTypeOK
  <2>2. builds' \in [Builder -> SUBSET DOMAIN versions]
    BY <1>3 DEF ReadUnanchored, Inv, PublicationTypeOK
  <2>3. PublicationTypeOK'
    BY <1>1, <1>3, <2>2 DEF ReadUnanchored, Inv, PublicationTypeOK, Project
  <2>4. BuildsInv'
    BY <1>3, <2>1 DEF ReadUnanchored, BuildsInv
  <2> QED
    BY <1>2, <2>3, <2>4 DEF Inv
<1>4. CASE CommitBatch(b)
  <2>1. \A c \in Builder : builds'[c] = {}
    BY <1>4 DEF CommitBatch, Inv, PublicationTypeOK, BuildsInv
  <2>2. builds' \in [Builder -> SUBSET DOMAIN versions] /\ batched' \subseteq DOMAIN versions
    BY <1>4 DEF CommitBatch, Inv, PublicationTypeOK
  <2>3. PublicationTypeOK'
    BY <1>1, <2>2 DEF Inv, PublicationTypeOK, Project
  <2>4. BuildsInv'
    BY <2>1 DEF BuildsInv
  <2> QED
    BY <1>2, <2>3, <2>4 DEF Inv
<1> QED
  BY <1>3, <1>4

---------------------------------------------------------------------------
(* Every step keeps the invariant.                                         *)

LEMMA NextKeeps ==
    ASSUME Inv, [PublicationNext]_publicationVars
    PROVE  Inv'
<1>1. CASE UNCHANGED publicationVars
  <2>1. PublicationTypeOK'
    BY <1>1 DEF publicationVars, Inv, PublicationTypeOK, Project
  <2> QED
    BY <1>1, <2>1
    DEF publicationVars, Inv, OnePending, RequestsInv, OneHolder, InTransaction, RequestInv, Holds,
        Approvable, StillSo, Project, PublishedStatus, Latest, VersionsInv, BuildsInv
<1>2. ASSUME NEW d \in Draft, NEW p \in Person, NEW ledger \in BOOLEAN,
             NEW claimed \in SubjectState, Propose(d, p, ledger, claimed)
      PROVE  Inv'
  BY <1>2, ProposeKeeps
<1>3. ASSUME NEW d \in Draft, Reject(d) PROVE Inv'
  BY <1>3, RejectKeeps
<1>4. ASSUME NEW r \in Request, NEW d \in Draft, NEW p \in Person, Ask(r, d, p) PROVE Inv'
  BY <1>4, AskKeeps
<1>5. ASSUME NEW r \in Request, LockDraft(r) PROVE Inv'
  BY <1>5, LockDraftKeeps
<1>6. ASSUME NEW r \in Request, Recheck(r) PROVE Inv'
  BY <1>6, RecheckKeeps
<1>7. ASSUME NEW r \in Request, ReadPrevious(r) PROVE Inv'
  BY <1>7, ReadPreviousKeeps
<1>8. ASSUME NEW r \in Request, Publish(r) PROVE Inv'
  BY <1>8, PublishKeeps
<1>9. ASSUME NEW r \in Request, Abort(r) PROVE Inv'
  BY <1>9, EndKeeps DEF Abort
<1>10. ASSUME NEW expected \in DOMAIN versions, Revoke(expected) PROVE Inv'
  BY <1>10, RevokeKeeps
<1>11. CASE ChangeEvidence
  BY <1>11, ChangeEvidenceKeeps
<1>12. ASSUME NEW to \in Lifecycle, MoveLifecycle(to) PROVE Inv'
  BY <1>12, MoveLifecycleKeeps
<1>13. CASE ToggleRestriction
  BY <1>13, ToggleRestrictionKeeps
<1>14. ASSUME NEW to \in Attestation, MoveAttestation(to) PROVE Inv'
  BY <1>14, MoveAttestationKeeps
<1>15. ASSUME NEW b \in Builder, ReadUnanchored(b) \/ CommitBatch(b) PROVE Inv'
  BY <1>15, BatchKeeps
<1> QED
  BY <1>1, <1>2, <1>3, <1>4, <1>5, <1>6, <1>7, <1>8, <1>9, <1>10, <1>11, <1>12, <1>13, <1>14,
     <1>15
  DEF PublicationNext

LEMMA InvAlways ==
    PublicationSpec => []Inv
<1>1. PublicationInit => Inv
  BY InitInv
<1>2. Inv /\ [PublicationNext]_publicationVars => Inv'
  BY NextKeeps
<1> QED
  BY <1>1, <1>2, PTL DEF PublicationSpec

---------------------------------------------------------------------------
(* What the invariant gives.                                               *)

LEMMA VersionsOfDraft ==
    ASSUME Inv, NEW d \in Draft
    PROVE  Cardinality({v \in DOMAIN versions : versions[v].draft = d})
              = IF drafts[d].state = "published" THEN 1 ELSE 0
<1> DEFINE V == {v \in DOMAIN versions : versions[v].draft = d}
<1>1. CASE drafts[d].state = "published"
  <2>1. PICK v \in DOMAIN versions : versions[v].draft = d
    BY <1>1 DEF Inv, VersionsInv
  <2>2. V = {v}
    BY <2>1 DEF Inv, VersionsInv
  <2> QED
    BY <1>1, <2>2, FS_Singleton
<1>2. CASE drafts[d].state # "published"
  <2>1. V = {}
    BY <1>2 DEF Inv, VersionsInv
  <2> QED
    BY <1>2, <2>1, FS_EmptySet
<1> QED
  BY <1>1, <1>2

LEMMA InvMakesPublishedOnce == Inv => PublishedOnce
<1> SUFFICES ASSUME Inv PROVE PublishedOnce
  OBVIOUS
<1>1. EachApprovalPublishesOnce
  BY VersionsOfDraft DEF EachApprovalPublishesOnce, Inv, VersionsInv
<1>2. NumbersNeverCollide
  BY DEF NumbersNeverCollide, Inv, RequestsInv, RequestInv
<1>3. BatchesNeverCollide
  BY DEF BatchesNeverCollide, Inv, BuildsInv
<1> QED
  BY <1>1, <1>2, <1>3 DEF PublishedOnce

(* PublicationTypeOK in every reachable state: every row keeps its shape,  *)
(* and batches only name versions that exist.                              *)
THEOREM PublicationTyped == PublicationSpec => []PublicationTypeOK
<1>1. Inv => PublicationTypeOK
  BY DEF Inv
<1> QED
  BY <1>1, InvAlways, PTL

(* One approval makes one version, a number that was read without a lock   *)
(* is free when the publication commits, and no version is in two batches: *)
(* for any number of requests, and for an entry about an attestation too,  *)
(* whose publication locks nothing but its draft.                          *)
THEOREM OneApprovalOneVersion == PublicationSpec => []PublishedOnce
BY InvAlways, InvMakesPublishedOnce, PTL

\* The history grows by a publication and by nothing else.
LEMMA GrowsByPublish ==
    ASSUME Inv, [PublicationNext]_publicationVars, ~(versions' = versions)
    PROVE  \/ \E r \in Request : Publish(r)
           \/ \E expected \in DOMAIN versions : Revoke(expected)
BY DEF PublicationNext, publicationVars, Propose, Reject, Ask, LockDraft, Recheck, ReadPrevious,
       Abort, ChangeEvidence, MoveLifecycle, ToggleRestriction, MoveAttestation, ReadUnanchored,
       CommitBatch

LEMMA LongerIsPublished ==
    ASSUME Inv, [PublicationNext]_publicationVars, Len(versions') > Latest
    PROVE  \E r \in Request : Publish(r)
<1>1. versions' # versions /\ Latest' # Latest
  BY VersionTyped DEF Latest
<1> QED
  BY <1>1, GrowsByPublish, RevokeStep

(* What a version states was checked several statements before it commits: *)
(* it still holds then, because a project entry locks the project row, a   *)
(* draft with a ledger takes the evidence barrier, and a restriction waits *)
(* for the request.                                                        *)
THEOREM PublishedStandsAsIs == PublicationSpec => PublishedAsItStands
<1>1. ASSUME Inv, [PublicationNext]_publicationVars, NEW r \in Request,
             Project, Len(versions') > Latest, requests[r] # requests'[r]
      PROVE  /\ versions'[Len(versions')].stated = subject'.state
             /\ drafts[requests[r].draft].ledger
                    => drafts[requests[r].draft].snapshot = subject.evidence
  <2>1. PICK s \in Request : Publish(s)
    BY <1>1, LongerIsPublished
  <2> DEFINE q == requests[s]
             new == [status |-> "published", draft |-> q.draft,
                     stated |-> q.stated, approver |-> q.approver]
  <2>2. /\ new \in Version /\ StillSo(q)
        /\ versions' = Append(Supersede(Latest), new)
        /\ subject' = [subject EXCEPT !.state = PublishedStatus]
        /\ requests' = [requests EXCEPT ![s] = Idle]
    BY <1>1, <2>1, PublishStep
  <2>3. r = s
    BY <1>1, <2>2 DEF Inv, PublicationTypeOK
  <2>4. new.stated = PublishedStatus
    BY <1>1, <2>2 DEF StillSo
  <2>5. subject'.state = PublishedStatus
    BY <1>1, <2>2 DEF Inv, PublicationTypeOK
  <2> HIDE DEF new
  <2>6. versions'[Len(versions')] = new
    BY <1>1, <2>2, PublishedVersions DEF Latest
  <2> QED
    BY <2>2, <2>3, <2>4, <2>5, <2>6 DEF StillSo
<1>2. ASSUME Inv, [PublicationNext]_publicationVars, Len(versions') > Latest
      PROVE  ~restricted
  BY <1>2, LongerIsPublished, PublishStep DEF StillSo
<1>3. Inv /\ [PublicationNext]_publicationVars =>
        [\A r \in Request :
           (Project /\ Len(versions') > Latest /\ requests[r] # requests'[r]) =>
             /\ versions'[Len(versions')].stated = subject'.state
             /\ drafts[requests[r].draft].ledger
                  => drafts[requests[r].draft].snapshot = subject.evidence]_publicationVars
  BY <1>1
<1>4. Inv /\ [PublicationNext]_publicationVars =>
        [Len(versions') > Latest => ~restricted]_publicationVars
  BY <1>2
<1>5. PublicationSpec => ProjectStatedAsItIs
  BY <1>3, InvAlways, PTL DEF PublicationSpec, ProjectStatedAsItIs
<1>6. PublicationSpec => NothingPublishedInBlackout
  BY <1>4, InvAlways, PTL DEF PublicationSpec, NothingPublishedInBlackout
<1> QED
  BY <1>5, <1>6, PTL DEF PublishedAsItStands

---------------------------------------------------------------------------
(* The requests together implement the version history.                    *)

\* The entry's history, as VersionHistory sees it.
Shown == [v \in DOMAIN versions |-> [status |-> versions[v].status, content |-> versions[v].draft]]

LEMMA ShownLength ==
    ASSUME Inv
    PROVE  Len(Shown) = Latest /\ DOMAIN Shown = 1 .. Latest
<1>1. Latest \in Nat /\ DOMAIN versions = 1 .. Latest
  BY VersionTyped
<1> QED
  BY <1>1 DEF Shown

\* There is room for a version of a draft that has none.
LEMMA RoomForDraft ==
    ASSUME Inv, IsFiniteSet(Draft), NEW d \in Draft,
           \A v \in DOMAIN versions : versions[v].draft # d
    PROVE  Latest < Cardinality(Draft)
<1> DEFINE n == Latest + 1
           f == [v \in 1 .. n |-> IF v = n THEN d ELSE versions[v].draft]
<1>1. /\ Latest \in Nat /\ DOMAIN versions = 1 .. Latest
      /\ \A v \in DOMAIN versions : versions[v].draft \in Draft
  BY VersionTyped
<1>2. n \in Nat /\ n >= 1 /\ \A v \in 1 .. n : v = n \/ v \in DOMAIN versions
  BY <1>1
<1>3. f \in [1 .. n -> Draft]
  BY <1>1, <1>2
<1>4. ASSUME NEW v \in 1 .. n, NEW w \in 1 .. n, f[v] = f[w]
      PROVE  v = w
  BY <1>2, <1>4 DEF Inv, VersionsInv
<1> HIDE DEF f
<1>5. f \in Injection(1 .. n, Draft)
  BY <1>3, <1>4, Fun_IsInj
<1>6. Cardinality(1 .. n) <= Cardinality(Draft)
  BY <1>5, FS_Injection
<1>7. Cardinality(1 .. n) = n
  BY <1>2, FS_Interval
<1>8. Cardinality(Draft) \in Nat
  BY FS_CardinalityType
<1> QED
  BY <1>1, <1>6, <1>7, <1>8

LEMMA AppendIs ==
    ASSUME NEW S, NEW n \in Nat, NEW s \in [1 .. n -> S], NEW e \in S,
           NEW t \in [1 .. n + 1 -> S], t[n + 1] = e, \A i \in 1 .. n : t[i] = s[i]
    PROVE  t = Append(s, e)
<1>1. s \in Seq(S) /\ Len(s) = n
  BY SeqDef
<1>2. t \in Seq(S) /\ Len(t) = n + 1
  BY SeqDef
<1>3. Append(s, e) \in Seq(S) /\ Len(Append(s, e)) = n + 1
  BY <1>1
<1>4. \A i \in 1 .. n + 1 : Append(s, e)[i] = t[i]
  BY <1>1
<1> QED
  BY <1>2, <1>3, <1>4, SeqEqual

\* A publication is a publication there: the draft it approves has no version yet.
LEMMA PublishIsPublishVersion ==
    ASSUME Inv, IsFiniteSet(Draft), NEW r \in Request, Publish(r)
    PROVE  History!PublishVersion(requests[r].draft)
<1> DEFINE q == requests[r]
           d == q.draft
           new == [status |-> "published", draft |-> q.draft,
                   stated |-> q.stated, approver |-> q.approver]
           hnew == [status |-> "published", content |-> d]
<1>1. /\ new \in Version /\ Holds(q)
      /\ versions' = Append(Supersede(Latest), new)
  BY PublishStep
<1>2. new.status = "published" /\ new.draft = d
  OBVIOUS
<1> HIDE DEF new
<1>3. /\ Latest' = Latest + 1
      /\ DOMAIN versions' = 1 .. Latest + 1
      /\ versions'[Latest + 1] = new
      /\ \A v \in DOMAIN versions :
           /\ v # Latest + 1
           /\ versions'[v].draft = versions[v].draft
           /\ versions'[v].status = IF v = Latest THEN "superseded" ELSE versions[v].status
  BY <1>1, PublishedVersions
<1>4. /\ Latest \in Nat /\ DOMAIN versions = 1 .. Latest
      /\ Len(Shown) = Latest /\ DOMAIN Shown = 1 .. Latest
  BY VersionTyped, ShownLength
<1>5. d \in Draft /\ drafts[d].state = "pending"
  BY <1>1 DEF Holds, Approvable
<1>6. \A v \in DOMAIN versions : versions[v].draft # d
  BY <1>5 DEF Inv, VersionsInv
<1>7. Latest < Cardinality(Draft)
  BY <1>5, <1>6, RoomForDraft
<1>8. \A v \in 1 .. Latest : Shown[v].content # d
  BY <1>4, <1>6 DEF Shown
<1> DEFINE sup == [v \in 1 .. Latest |->
                     IF v = Latest THEN [Shown[v] EXCEPT !.status = "superseded"] ELSE Shown[v]]
<1>9. Shown' = Append(sup, hnew)
  <2> DEFINE Row == [status: VersionStatus, content: Draft]
  <2>1. sup \in [1 .. Latest -> Row]
    BY <1>4, VersionTyped DEF Shown, Version, VersionStatus
  <2>2. hnew \in Row
    BY <1>5 DEF VersionStatus
  <2>3. \A v \in 1 .. Latest :
          sup[v] = [status |-> IF v = Latest THEN "superseded" ELSE versions[v].status,
                    content |-> versions[v].draft]
    BY <1>4 DEF Shown
  <2>4. Shown' = [v \in 1 .. Latest + 1 |->
                    [status |-> versions'[v].status, content |-> versions'[v].draft]]
    BY <1>3 DEF Shown
  <2>5. \A v \in 1 .. Latest : Shown'[v] = sup[v]
    BY <2>3, <2>4, <1>3, <1>4
  <2>6. Shown'[Latest + 1] = hnew
    BY <2>4, <1>2, <1>3, <1>4
  <2> HIDE DEF sup, hnew, Row
  <2>7. Shown' \in [1 .. Latest + 1 -> Row]
    <3>1. \A v \in 1 .. Latest + 1 : v = Latest + 1 \/ v \in 1 .. Latest
      BY <1>4
    <3>2. \A v \in 1 .. Latest + 1 : Shown'[v] \in Row
      BY <3>1, <2>1, <2>2, <2>5, <2>6
    <3> QED
      BY <2>4, <3>2
  <2> HIDE DEF Shown
  <2>8. Latest \in Nat
    BY <1>4
  <2> QED
    BY <2>1, <2>2, <2>5, <2>6, <2>7, <2>8, AppendIs
<1> QED
  BY <1>4, <1>7, <1>8, <1>9
  DEF History!PublishVersion, History!Latest, History!NeverPublished, History!SupersedeLatest, Shown

LEMMA RevokeIsRevokeVersion ==
    ASSUME Inv, NEW expected \in DOMAIN versions, Revoke(expected)
    PROVE  History!RevokeVersion
<1>1. /\ Latest > 0 /\ versions[Latest].status = "published"
      /\ DOMAIN versions' = DOMAIN versions
      /\ \A v \in DOMAIN versions :
           /\ versions'[v].draft = versions[v].draft
           /\ versions'[v].status = IF v = Latest THEN "revoked" ELSE versions[v].status
  BY RevokeStep
<1>2. /\ Latest \in Nat /\ DOMAIN versions = 1 .. Latest
      /\ Len(Shown) = Latest /\ DOMAIN Shown = 1 .. Latest
  BY VersionTyped, ShownLength
<1>3. Shown[Latest].status = "published"
  BY <1>1, <1>2 DEF Shown
<1>4. Shown' = [v \in 1 .. Latest |->
                  [status |-> versions'[v].status, content |-> versions'[v].draft]]
  BY <1>1, <1>2 DEF Shown
<1>5. Shown' = [Shown EXCEPT ![Latest].status = "revoked"]
  BY <1>1, <1>2, <1>4 DEF Shown
<1> QED
  BY <1>1, <1>2, <1>3, <1>5 DEF History!RevokeVersion, History!Latest, Shown

(* The concurrent requests together behave like one history of versions,   *)
(* however many there are: versions are numbered without a gap, no content *)
(* comes back or changes, and only the version in force is revoked.        *)
THEOREM RefinesHistory ==
    ASSUME IsFiniteSet(Draft) PROVE PublicationSpec => KeepsVersionHistory
<1>1. PublicationInit => History!HistoryInit
  BY DEF PublicationInit, History!HistoryInit
<1>2. ASSUME Inv, [PublicationNext]_publicationVars
      PROVE  [History!HistoryNext]_Shown
  <2>1. CASE versions' = versions
    BY <2>1 DEF Shown
  <2>2. ASSUME NEW r \in Request, Publish(r)
        PROVE  History!HistoryNext
    <3>1. requests[r].draft \in Draft
      BY <1>2, <2>2, PublishStep DEF Holds
    <3>2. History!PublishVersion(requests[r].draft)
      BY <1>2, <2>2, PublishIsPublishVersion
    <3> QED
      BY <3>1, <3>2 DEF History!HistoryNext, History!PublishVersion
  <2>3. ASSUME NEW expected \in DOMAIN versions, Revoke(expected)
        PROVE  History!HistoryNext
    BY <1>2, <2>3, RevokeIsRevokeVersion DEF History!HistoryNext
  <2> QED
    BY <1>2, <2>1, <2>2, <2>3, GrowsByPublish
<1>3. Inv /\ [PublicationNext]_publicationVars =>
        [History!HistoryNext]_[v \in DOMAIN versions |->
            [status |-> versions[v].status, content |-> versions[v].draft]]
  BY <1>2 DEF Shown
<1> QED
  BY <1>1, <1>3, InvAlways, PTL DEF PublicationSpec, KeepsVersionHistory, History!HistorySpec
=============================================================================
