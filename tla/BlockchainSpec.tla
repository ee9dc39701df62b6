---------------------------- MODULE BlockchainSpec ----------------------------
(***************************************************************************)
(* The block tree of one node, fed with every block that any miner may     *)
(* build, in every order, equivocating and repeated blocks included.       *)
(***************************************************************************)
EXTENDS Blockchain

CONSTANTS
  TxLists,     \* the transaction lists of the blocks that arrive
  MaxBlocks    \* bound on the number of blocks

ASSUME ArrivalAssumption == TxLists \subseteq Seq(Tx) /\ MaxBlocks \in Nat

VARIABLE blocks

Init == blocks = << >>

(***************************************************************************)
(* Any miner, slot and transactions, on any parent the node knows; what    *)
(* AddBlock refuses leaves the tree as it is.  OrphanBlock is the refusal  *)
(* of a block whose parent the node has never seen.                        *)
(***************************************************************************)
AddBlock ==
  \E m \in Native, s \in Slot, txs \in TxLists, signed \in BOOLEAN,
     parent \in Known(CalculateDepths(blocks)) :
    LET b == [NewCandidateBlock(m, s, parent, txs) EXCEPT !.signed = signed]
    IN  /\ Len(blocks) < MaxBlocks
        /\ CanAddBlock(blocks, b)
        /\ blocks' = Append(blocks, b)

OrphanBlock ==
  \E m \in Native, s \in Slot :
    LET b == NewCandidateBlock(m, s, << <<m, s>> >>, << >>)
    IN  /\ b.parent \notin Known(CalculateDepths(blocks))
        /\ ~CanAddBlock(blocks, b)
        /\ UNCHANGED blocks

Next == AddBlock \/ OrphanBlock

Spec == Init /\ [][Next]_blocks

-----------------------------------------------------------------------------
(***************************************************************************)
(* No miner signed two blocks with one hash (and different transactions).  *)
(***************************************************************************)
NoEquivocation(bs) ==
  \A b, c \in Range(bs) : GetBlockHash(b) = GetBlockHash(c) => b = c

(***************************************************************************)
(* The transactions of a list that replay from ledger l ignores.           *)
(***************************************************************************)
Dropped(l, txs) ==
  {i \in DOMAIN txs : ~Accepts(FoldLeft(Transaction, l, SubSeq(txs, 1, i - 1)), txs[i])}

(***************************************************************************)
(* AddBlock checks a block's transactions before it registers the miner;   *)
(* replay registers the miner first and drops what Transaction refuses.    *)
(* The two agree: without equivocation no transaction of a stored block is *)
(* dropped, on whatever branch it is replayed.                             *)
(***************************************************************************)
ReplayDropsNothing ==
  NoEquivocation(blocks) =>
    \A b \in Range(blocks) :
      Dropped(MarkValidator(BuildLedgerAtHash(CalculateDepths(blocks), b.parent), b.miner), b.txs) = {}

(***************************************************************************)
(* PKN is created by genesis, by one reward for every block of the best    *)
(* branch and by its mint transactions, and by nothing else: what accounts *)
(* and pools hold after the replay adds up to that, whatever was paid,     *)
(* deposited and swapped on the branch.  A swap for an asset that its pool *)
(* does not hold is the one exception.                                     *)
(***************************************************************************)
Minted(b) ==
  MapThenSumSet(LAMBDA i : IF b.txs[i].kind = "mint" THEN b.txs[i].amount ELSE 0, DOMAIN b.txs)

PairedSwaps(best) == \A i \in DOMAIN best : \A j \in DOMAIN best[i].txs : Paired(best[i].txs[j])

Issued(best) ==
  MapThenSumSet(LAMBDA a : Genesis[a], Account)
    + MapThenSumSet(LAMBDA i : MinerReward + Minted(best[i]), DOMAIN best)

SupplyFromBlocks ==
  LET best == CanonicalBlocks(blocks, 0)
  IN  NoEquivocation(blocks) /\ PairedSwaps(best) =>
        SupplyOf(LedgerFromBlockchain(blocks, 0), PKN) = Issued(best)

(***************************************************************************)
(* Convergence: two nodes that hold the same blocks agree on the best      *)
(* branch and on the ledger, in whatever order the blocks reached them.    *)
(***************************************************************************)
ParentsFirst(bs) ==
  \A i \in DOMAIN bs :
    bs[i].parent = GenesisHash \/ \E j \in 1 .. (i - 1) : GetBlockHash(bs[j]) = bs[i].parent

ArrivalOrders(bs) ==
  {p \in {[i \in DOMAIN bs |-> bs[f[i]]] : f \in Bijection(DOMAIN bs, DOMAIN bs)} : ParentsFirst(p)}

OrderIndependent ==
  NoEquivocation(blocks) =>
    \A p \in ArrivalOrders(blocks) :
      /\ BestLeafHash(p) = BestLeafHash(blocks)
      /\ LedgerFromBlockchain(p, 0) = LedgerFromBlockchain(blocks, 0)

(***************************************************************************)
(* A new block never shortens the best branch, and moves the tip to        *)
(* another branch of the same length only when the tie-break prefers it,   *)
(* so ties cannot make a node swing between two branches.                  *)
(***************************************************************************)
TipStep ==
  LET old == BestLeafHash(blocks)
      new == BestLeafHash(blocks')
  IN  new # old => Len(new) > Len(old) \/ (Len(new) = Len(old) /\ HashBefore(new, old))

TipOnlyImproves == [][TipStep]_blocks
=============================================================================
