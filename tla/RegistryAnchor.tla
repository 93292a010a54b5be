--------------------------- MODULE RegistryAnchor ---------------------------
(***************************************************************************)
(* contracts/src/RegistryAnchorV1.sol: the contract that fixes the Merkle  *)
(* root of an approved registry batch.  A transaction either executes      *)
(* whole or reverts, so one external function is one action; a call that   *)
(* reverts changes nothing and is not a step.                              *)
(*                                                                         *)
(* The payload of a batch (root and manifest hash) is one value.  The      *)
(* strings schemaVersion and reasonCode only travel into events and are    *)
(* left out, and so is the sender an event names.  The zero word of each   *)
(* bytes32 is kept, because the code tells it apart: a missing batch is a  *)
(* zero submittedAt and "not superseded" is a zero supersededBy.           *)
(***************************************************************************)
EXTENDS Naturals, Sequences

CONSTANTS
    BatchId,    \* the bytes32 values used as batch ids
    Root,       \* the bytes32 values used as roots
    Account,    \* the addresses that send transactions
    Zero,       \* bytes32(0): a member of BatchId and of Root
    Admin,      \* the holder of DEFAULT_ADMIN_ROLE
    MaxTime,    \* bound on block.timestamp
    MaxRecords  \* bound on recordCount

ASSUME ContractAssumption ==
    /\ Zero \in BatchId /\ Zero \in Root
    /\ Admin \in Account
    /\ MaxTime \in Nat /\ MaxRecords \in Nat

VARIABLES
    batches,    \* _batches: storage of each batch
    batchIds,   \* _batchIds: the ids in the order they were submitted
    paused,     \* Pausable's flag
    submitters, \* holders of ANCHOR_SUBMITTER_ROLE
    pausers,    \* holders of PAUSER_ROLE
    now,        \* block.timestamp, which never decreases and is not zero
    events      \* the events the contract has emitted

vars == <<batches, batchIds, paused, submitters, pausers, now, events>>
roles == <<submitters, pausers>>

Batch == [root: Root, recordCount: Nat, submittedAt: Nat,
          revoked: BOOLEAN, supersededBy: BatchId]

Event == [type: {"RootSubmitted"}, id: BatchId, root: Root]
         \cup [type: {"BatchRevoked"}, id: BatchId]
         \cup [type: {"BatchSuperseded"}, id: BatchId, next: BatchId]

\* What a read of a missing key of the mapping returns.
NoBatch == [root |-> Zero, recordCount |-> 0, submittedAt |-> 0,
            revoked |-> FALSE, supersededBy |-> Zero]

Exists(b) == batches[b].submittedAt # 0
IsHead(b) == batches[b].supersededBy = Zero
Submitted == {b \in BatchId : Exists(b)}

Init ==
    /\ batches = [b \in BatchId |-> NoBatch]
    /\ batchIds = <<>>
    /\ paused = FALSE
    /\ submitters \in {{a} : a \in Account}
    /\ pausers \in {{a} : a \in Account}
    /\ now = 1
    /\ events = {}

\* onlyRole(ANCHOR_SUBMITTER_ROLE) and whenNotPaused.
MayWrite(sender) == sender \in submitters /\ ~paused

FreshId_Reused(b) == b # Zero
FreshId_ZeroWord(b) == ~Exists(b)
FreshId(b) == b # Zero /\ ~Exists(b)

\* _batchIds.push(batchId): both arguments are bytes32.
PushId(b, root) == Append(batchIds, b)

Replaceable(b) == Exists(b) /\ ~batches[b].revoked /\ IsHead(b)
Replacement_NotHead(b) == Exists(b) /\ ~batches[b].revoked
Replacement(b) == Exists(b) /\ ~batches[b].revoked /\ IsHead(b)

SubmitRoot(sender, b, root, count) ==
    /\ MayWrite(sender)
    /\ FreshId(b)
    /\ root # Zero
    /\ count # 0
    /\ batches' = [batches EXCEPT ![b] =
                     [root |-> root, recordCount |-> count, submittedAt |-> now,
                      revoked |-> FALSE, supersededBy |-> Zero]]
    /\ batchIds' = PushId(b, root)
    /\ events' = events \cup {[type |-> "RootSubmitted", id |-> b, root |-> root]}
    /\ UNCHANGED <<paused, roles, now>>

RevokeBatch(sender, b) ==
    /\ MayWrite(sender)
    /\ Exists(b)
    /\ ~batches[b].revoked
    /\ batches' = [batches EXCEPT ![b].revoked = TRUE]
    /\ events' = events \cup {[type |-> "BatchRevoked", id |-> b]}
    /\ UNCHANGED <<batchIds, paused, roles, now>>

SupersedeBatch(sender, b, new) ==
    /\ MayWrite(sender)
    /\ b # new
    /\ Replaceable(b)
    /\ Replacement(new)
    /\ batches' = [batches EXCEPT ![b].supersededBy = new]
    /\ events' = events \cup {[type |-> "BatchSuperseded", id |-> b, next |-> new]}
    /\ UNCHANGED <<batchIds, paused, roles, now>>

Pause(sender) ==
    /\ sender \in pausers
    /\ ~paused
    /\ paused' = TRUE
    /\ UNCHANGED <<batches, batchIds, roles, now, events>>

Unpause(sender) ==
    /\ sender \in pausers
    /\ paused
    /\ paused' = FALSE
    /\ UNCHANGED <<batches, batchIds, roles, now, events>>

\* OpenZeppelin's grantRole and revokeRole, which only the admin may call:
\* how a stolen key is rotated, and all that the admin can do to a role.
RotateSubmitter(sender, new) ==
    /\ sender = Admin
    /\ submitters' = new
    /\ UNCHANGED <<batches, batchIds, paused, pausers, now, events>>

RotatePauser(sender, new) ==
    /\ sender = Admin
    /\ pausers' = new
    /\ UNCHANGED <<batches, batchIds, paused, submitters, now, events>>

NextBlock ==
    /\ now < MaxTime
    /\ now' = now + 1
    /\ UNCHANGED <<batches, batchIds, paused, roles, events>>

Next ==
    \/ \E a \in Account :
        \/ \E b \in BatchId, r \in Root, n \in 0..MaxRecords : SubmitRoot(a, b, r, n)
        \/ \E b \in BatchId : RevokeBatch(a, b)
        \/ \E b, new \in BatchId : SupersedeBatch(a, b, new)
        \/ Pause(a)
        \/ Unpause(a)
        \/ \E new \in SUBSET Account : RotateSubmitter(a, new) \/ RotatePauser(a, new)
    \/ NextBlock

Spec == Init /\ [][Next]_vars

-----------------------------------------------------------------------------

TypeOK ==
    /\ batches \in [BatchId -> Batch]
    /\ batchIds \in Seq(BatchId)
    /\ paused \in BOOLEAN
    /\ submitters \in SUBSET Account
    /\ pausers \in SUBSET Account
    /\ now \in Nat \ {0}
    /\ events \in SUBSET Event

(***************************************************************************)
(* Constraint 6 of the contract: following supersededBy from any batch     *)
(* ends.  A chain that never ended would visit a set of batches none of    *)
(* whose links leaves the set, so: every non-empty set of batches has one  *)
(* whose link leaves it or that has no link.  The links have no cycle.     *)
(***************************************************************************)
SupersedeAcyclic ==
    \A S \in SUBSET BatchId :
        S # {} => \E b \in S : IsHead(b) \/ batches[b].supersededBy \notin S

\* The batch reached from b by following at most n links.
Follow[b \in BatchId, n \in Nat] ==
    IF n = 0 \/ IsHead(b) THEN b ELSE Follow[batches[b].supersededBy, n - 1]

\* The bound the contract gives a reader: the head of every submitted batch
\* is reached within batchCount() steps, and it is itself a submitted batch.
HeadWithinBatchCount ==
    \A b \in Submitted :
        LET head == Follow[b, Len(batchIds)] IN IsHead(head) /\ Exists(head)

(***************************************************************************)
(* Constraints 1 to 3: what the events tell a reader who was offline and   *)
(* what storage answers now are the same history.  Each batch has exactly  *)
(* one RootSubmitted event and it carries the stored root; a batch is      *)
(* revoked, or has a successor, exactly when the one event saying so       *)
(* exists; an id never submitted, the zero word for one, reads as empty.   *)
(* The worker's search for an anchoring transaction relies on it.          *)
(***************************************************************************)
IsSingleton(S) == \E x \in S : S = {x}

Logged(t, b) == {e \in events : e.type = t /\ e.id = b}

HistoryAgrees(b) ==
    /\ \A e \in Logged("RootSubmitted", b) : Exists(b) /\ batches[b].root = e.root
    /\ Exists(b) => IsSingleton(Logged("RootSubmitted", b))
    /\ \A e \in Logged("BatchSuperseded", b) :
          batches[b].supersededBy = e.next /\ e.next # Zero
    /\ ~IsHead(b) => IsSingleton(Logged("BatchSuperseded", b))
    /\ batches[b].revoked <=> Logged("BatchRevoked", b) # {}
    /\ ~Exists(b) => batches[b] = NoBatch
    /\ b = Zero => ~Exists(b)

StorageMatchesEvents == \A b \in BatchId : HistoryAgrees(b)

\* batchIdAt lists every submitted batch exactly once, in the order of its
\* block time, so that a reader enumerating the contract misses nothing.
IdsListSubmitted ==
    /\ {batchIds[i] : i \in DOMAIN batchIds} = Submitted
    /\ \A i, j \in DOMAIN batchIds :
         i < j => /\ batchIds[i] # batchIds[j]
                  /\ batches[batchIds[i]].submittedAt =< batches[batchIds[j]].submittedAt

(***************************************************************************)
(* Constraints 1, 2 and 5: whoever sends the transaction, a stored root is *)
(* never changed or removed, a revocation is never withdrawn and a         *)
(* supersede link never re-pointed.                                        *)
(***************************************************************************)
HistoryStep ==
    \A b \in Submitted :
        /\ batches'[b].root = batches[b].root
        /\ batches'[b].recordCount = batches[b].recordCount
        /\ batches'[b].submittedAt = batches[b].submittedAt
        /\ batches[b].revoked => batches'[b].revoked
        /\ ~IsHead(b) => batches'[b].supersededBy = batches[b].supersededBy
HistoryAppendOnly == [][HistoryStep]_vars
=============================================================================
