------------------------------ MODULE Blockchain ------------------------------
(***************************************************************************)
(* The block tree of a node (src/peer/account/blockchain.go): which blocks *)
(* AddBlock accepts, which branch is the best one, and the ledger obtained *)
(* by replaying a branch.  A chain is the slice Blockchain.Blocks without  *)
(* its first element, the genesis block.                                   *)
(*                                                                         *)
(* A block is hashed over its miner, slot, draw, parent hash, proof and    *)
(* signature.  Draw, proof and signature are functions of the first two    *)
(* (RSA signatures here are deterministic), and the transactions are not   *)
(* hashed.  Unfolding the parent hashes, a hash is the path from genesis   *)
(* as a sequence of <<miner, slot>> pairs, and the genesis hash is << >>.  *)
(***************************************************************************)
EXTENDS Lottery, SequencesExt

CONSTANTS
  Slot,               \* slot numbers
  Draw,               \* the lottery draw of each account in each slot
  BlockSize,          \* BLOCK_SIZE
  HashBefore(_, _)    \* the lexicographic order on hashes

ASSUME SlotAssumption ==
  /\ Slot \subseteq Nat \ {0}
  /\ Draw \in [Native -> [Slot -> Nat]]
  /\ BlockSize \in Nat \ {0}

Hash == Seq(Native \X Slot)

(***************************************************************************)
(* Hashes are strings of one length, so that their comparison is a strict  *)
(* total order.  It is used for blocks of one height only.                 *)
(***************************************************************************)
Ordered(H) ==
  \A f, g \in H : Len(f) = Len(g) /\ f # g =>
    /\ HashBefore(f, g) <=> ~HashBefore(g, f)
    /\ \A h \in H : Len(h) = Len(g) /\ h # g /\ HashBefore(f, g) /\ HashBefore(g, h) => HashBefore(f, h)

GenesisHash == << >>

Block == [miner: Native, slot: Slot, parent: Hash, txs: Seq(Tx), signed: BOOLEAN]

GetBlockHash(b) == Append(b.parent, <<b.miner, b.slot>>)

-----------------------------------------------------------------------------
(* The tree and its best branch. *)

(***************************************************************************)
(* calculateDepths keeps the signed blocks whose ancestors are all there.  *)
(* It reads the list in order, and the lists it is given hold parents      *)
(* before children (AddBlock and the sync installers see to that, and      *)
(* ParentsFirst checks it).  Of two blocks with one hash the later one     *)
(* wins the map entry.                                                     *)
(***************************************************************************)
HashesIn(bs) == {GetBlockHash(b) : b \in {c \in Range(bs) : c.signed}}

Attached(bs) == {h \in HashesIn(bs) : \A k \in 1 .. Len(h) : SubSeq(h, 1, k) \in HashesIn(bs)}

\* Mutant: the first block to arrive at a height is the only one there.
DepthsFirstCome(bs) ==
  LET first(h) == Min({i \in DOMAIN bs : GetBlockHash(bs[i]) = h})
      kept     == {h \in Attached(bs) : \A g \in Attached(bs) : Len(g) = Len(h) => first(h) <= first(g)}
  IN  [h \in kept |-> bs[first(h)]]

CalculateDepths(bs) ==
  [h \in Attached(bs) |-> bs[Max({i \in DOMAIN bs : bs[i].signed /\ GetBlockHash(bs[i]) = h})]]

Known(nodes) == DOMAIN nodes \cup {GenesisHash}

\* Mutant: ties go to the largest hash.
LeafLargestHash(nodes) ==
  CHOOSE h \in Known(nodes) :
    \A g \in Known(nodes) \ {h} : Len(g) < Len(h) \/ (Len(g) = Len(h) /\ HashBefore(g, h))

GetLeafHash(nodes) ==
  CHOOSE h \in Known(nodes) :
    \A g \in Known(nodes) \ {h} : Len(g) < Len(h) \/ (Len(g) = Len(h) /\ HashBefore(h, g))

BlocksTo(nodes, h) == [i \in 1 .. Len(h) |-> nodes[SubSeq(h, 1, i)]]

BestLeafHash(bs) == GetLeafHash(CalculateDepths(bs))

BestHeight(bs) == Len(BestLeafHash(bs))

CanonicalBlocks(bs, rollback) ==
  LET nodes == CalculateDepths(bs)
      leaf  == GetLeafHash(nodes)
  IN  BlocksTo(nodes, SubSeq(leaf, 1, Len(leaf) - rollback))

-----------------------------------------------------------------------------
(* Ledgers. *)

\* Mutant: a block without transactions earns nothing.
ReplayIdleUnpaid(l, b) ==
  IF b.txs = << >> THEN MarkValidator(l, b.miner)
  ELSE PayReward(FoldLeft(Transaction, MarkValidator(l, b.miner), b.txs), b.miner)

(***************************************************************************)
(* Replay enters the miner in the registry first and ignores the answer of *)
(* Transaction, where AddBlock refuses the block.                          *)
(***************************************************************************)
ReplayBlock(l, b) ==
  PayReward(FoldLeft(Transaction, MarkValidator(l, b.miner), b.txs), b.miner)

BuildLedgerFromBlocks(bs) == FoldLeft(ReplayBlock, InitializeFromGenesis, bs)

BuildLedgerAtHash(nodes, h) == BuildLedgerFromBlocks(BlocksTo(nodes, h))

LedgerFromBlockchain(bs, rollback) == BuildLedgerFromBlocks(CanonicalBlocks(bs, rollback))

\* Mutant: every transaction is tried on the parent state.
EachAccepted(l, txs) == \A i \in 1 .. Len(txs) : Accepts(l, txs[i])

(***************************************************************************)
(* Whether every transaction of the list is accepted after the ones before *)
(* it.                                                                     *)
(***************************************************************************)
AllAccepted(l, txs) ==
  \A i \in 1 .. Len(txs) : Accepts(FoldLeft(Transaction, l, SubSeq(txs, 1, i - 1)), txs[i])

SlotsTo(h) == <<0>> \o [i \in 1 .. Len(h) |-> h[i][2]]

-----------------------------------------------------------------------------
\* Mutant: only a block on the best tip is taken.
CanAddBlockOnTip(bs, b) ==
  /\ b.parent = BestLeafHash(bs)
  /\ b.signed
  /\ Len(b.txs) <= BlockSize
  /\ AllAccepted(LedgerFromBlockchain(bs, 0), b.txs)

(***************************************************************************)
(* AddBlock.  signed stands for the three checks on signatures: the block, *)
(* the lottery proof and the draw derived from it.                         *)
(***************************************************************************)
CanAddBlock(bs, b) ==
  LET nodes == CalculateDepths(bs)
      l     == BuildLedgerAtHash(nodes, b.parent)
  IN  /\ b.parent \in Known(nodes)
      /\ b.signed
      /\ LotteryTickets(l, b.miner) > 0
      /\ WinsLottery(LotteryTickets(l, b.miner),
                     HardnessForBlock(l, SlotsTo(b.parent), b.miner, Len(b.txs)),
                     Draw[b.miner][b.slot])
      /\ Len(b.txs) <= BlockSize
      /\ AllAccepted(l, b.txs)

NewCandidateBlock(m, s, parent, txs) ==
  [miner |-> m, slot |-> s, parent |-> parent, txs |-> txs, signed |-> TRUE]

(***************************************************************************)
(* How often the replay of the best branch applies a transaction.          *)
(***************************************************************************)
Before(best, i, j) ==
  FoldLeft(Transaction, MarkValidator(BuildLedgerFromBlocks(SubSeq(best, 1, i - 1)), best[i].miner),
           SubSeq(best[i].txs, 1, j - 1))

TimesApplied(bs, t) ==
  LET best == CanonicalBlocks(bs, 0)
      here(i, j) == best[i].txs[j] = t /\ Accepts(Before(best, i, j), t)
  IN  Cardinality({p \in (DOMAIN best) \X (1 .. BlockSize) :
                     p[2] \in DOMAIN best[p[1]].txs /\ here(p[1], p[2])})
=============================================================================
