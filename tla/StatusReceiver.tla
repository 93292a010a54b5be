--------------------------- MODULE StatusReceiver ---------------------------
(***************************************************************************)
(* contracts/src/RegistryStatusReceiver.sol: the contract that mirrors the *)
(* latest status report about a record.  The entries of its mapping do not *)
(* influence each other, so one record is modelled; a report that is       *)
(* refused reverts and is not a step.  The forwarder, the metadata and the *)
(* width of the ABI words are taken as checked: every report here was      *)
(* signed by the workflow.                                                 *)
(***************************************************************************)
EXTENDS Naturals

CONSTANTS
    ContentHash,  \* the bytes32 values used as content hashes
    ZeroHash,     \* bytes32(0)
    Destination,  \* the receivers a report can be addressed to
    This,         \* address(this) on block.chainid
    MaxReportTTL, \* maxReportTTL of the constructor
    MaxTime       \* bound on block.timestamp

ASSUME ReceiverAssumption ==
    /\ ZeroHash \in ContentHash
    /\ This \in Destination
    /\ MaxReportTTL \in Nat \ {0} /\ MaxTime \in Nat

VARIABLES
    mirror,   \* _states of the record
    chainTime \* block.timestamp

CURRENT == 1
NEEDS_RE_REVIEW == 2
REVOKED == 3
UNAVAILABLE == 5

StatusReport == [destination: Destination, version: Nat, content: ContentHash,
                 observedAt: Nat, validUntil: Nat, sequence: Nat, status: 0 .. UNAVAILABLE]

\* What the mapping holds before the first report.
EmptyMirror == [destination |-> This, version |-> 0, content |-> ZeroHash, observedAt |-> 0,
                validUntil |-> 0, sequence |-> 0, status |-> 0]

WellFormed(r) ==
    /\ r.content # ZeroHash
    /\ r.version # 0
    /\ r.sequence # 0
    /\ r.status \in CURRENT .. UNAVAILABLE

Timely(r) ==
    /\ r.observedAt <= chainTime
    /\ r.validUntil > chainTime
    /\ r.validUntil > r.observedAt
    /\ r.validUntil - r.observedAt <= MaxReportTTL

InOrder_Mutation(r) == r.observedAt >= mirror.observedAt
InOrder(r) == r.sequence > mirror.sequence /\ r.observedAt >= mirror.observedAt

SameRecord(r) ==
    /\ r.version >= mirror.version
    /\ r.version = mirror.version => r.content = mirror.content

OnReport(r) ==
    /\ r.destination = This
    /\ WellFormed(r)
    /\ Timely(r)
    /\ InOrder(r)
    /\ SameRecord(r)
    /\ mirror' = r
    /\ UNCHANGED chainTime

\* What a consumer contract reads.
IsCurrent == mirror.status = CURRENT /\ mirror.validUntil > chainTime
=============================================================================
