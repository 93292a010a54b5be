--------------------------- MODULE MCAnchorWorkers ---------------------------
(***************************************************************************)
(* Instances of AnchorSubmitter.  "workers": two workers, two rows and one *)
(* signer, what concurrent submissions and settlements make of the two     *)
(* ledgers.  "tracking": one row and one worker at a time, an outsider who *)
(* may anchor the same batch first, and reorgs: every way a row can be     *)
(* followed.  Two workers meet neither midnight nor a failing search of    *)
(* the contract, which one worker does; midnight, which frees the day's    *)
(* cap, is crossed where no outsider has anchored.                         *)
(***************************************************************************)
EXTENDS AnchorSubmitter, TLC

CONSTANTS r1, r2, w1, w2

VARIABLE part

MCRow == {r1, r2}
MCWorker == {w1, w2}
MCOutsiders == [row : MCRow, root : {"ours"}]
Interchangeable == Permutations(MCRow) \cup Permutations(MCWorker)

MCInit == Init /\ part \in {"workers", "tracking"}

Touched == {r \in Row : rows[r] # NewRow}
           \cup {worker[w].row : w \in {v \in Worker : "row" \in DOMAIN worker[v]}}
           \cup {blocks[n].tx.row : n \in {m \in DOMAIN blocks : blocks[m].tx # NoTx}}
           \cup {s.row : s \in {t \in Send : ledger[t] # "none"}}

TwoWorkers ==
  /\ gasToday = gas
  /\ \A r \in Row : ~rows[r].searching
  /\ Len(blocks) <= 2
  /\ \A n \in DOMAIN blocks : blocks[n].tx \notin Outsiders
  /\ \A s \in Send : ledger[s] # "none" => s.nonce = 0
  /\ \A r \in Row : rows[r].attempts <= 1
  /\ \A w \in Worker : worker[w].pc \in {"signed", "sent"} => worker[w].tx.nonce = 0

OneRow ==
  /\ gasToday = gas \/ \A n \in DOMAIN blocks : blocks[n].tx \notin Outsiders
  /\ Cardinality(Touched) <= 1
  /\ Cardinality({w \in Worker : worker[w] # Idle}) <= 1

MCNext ==
  /\ Next
  /\ IF part = "workers" THEN TwoWorkers' ELSE OneRow'
  /\ UNCHANGED part

MCSpec == MCInit /\ [][MCNext]_<<vars, part>>
=============================================================================
