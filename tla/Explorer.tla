------------------------------- MODULE Explorer -------------------------------
(***************************************************************************)
(* The read side of a node: the explorer index (runtime_index.go), the     *)
(* pages the operations server cuts from it (runtime_ops.go) and the       *)
(* supply figures (peer.go).  Everything is computed from the block tree   *)
(* at each request, so the module is a set of views of BlockchainSpec's    *)
(* state and adds none.  Pages are cut by cursor and limit; a client walks *)
(* them by following nextCursor, which is None where the code answers nil. *)
(***************************************************************************)
EXTENDS BlockchainSpec

CONSTANTS
  FinalityDepth,   \* finalityDepth
  Reserved,        \* POKOINPOS_RESERVED_SUPPLY_ADDRESSES
  Limits           \* the page sizes that clients ask for

ASSUME ExplorerAssumption ==
  /\ FinalityDepth \in Nat
  /\ Reserved \subseteq Account
  /\ Limits \subseteq Nat \ {0}
  /\ None \notin Nat

-----------------------------------------------------------------------------
(* BuildExplorerIndex. *)

\* Mutant: the tip counts as its own confirmation.
FinalizedEarly(latest) == Max({0, latest - FinalityDepth + 1})

FinalizedHeight(latest) == Max({0, latest - FinalityDepth})

ExplorerTx(b, height, i, final) ==
  [tx |-> b.txs[i], blockHash |-> GetBlockHash(b), blockNumber |-> height,
   transactionIndex |-> i, finalized |-> final]

(***************************************************************************)
(* The transactions of the best branch, in chain order.                    *)
(***************************************************************************)
IndexedTxs(best) ==
  FoldLeftDomain(LAMBDA acc, height : acc \o
      [i \in DOMAIN best[height].txs |->
         ExplorerTx(best[height], height, i, height <= FinalizedHeight(Len(best)))],
    << >>, best)

(***************************************************************************)
(* indexAddressTx is called for the sender and then for the recipient, so  *)
(* a payment to oneself is listed twice.                                   *)
(***************************************************************************)
TxsOfAddress(txs, a) ==
  FoldLeft(LAMBDA acc, e : acc \o ((IF e.tx.from = a THEN <<e>> ELSE << >>)
                                    \o (IF e.tx.to = a THEN <<e>> ELSE << >>)),
           << >>, txs)

(***************************************************************************)
(* Block 0 is the genesis block, which holds no transactions.  Of two      *)
(* transactions with one identifier the later one wins the map entry.      *)
(***************************************************************************)
BuildExplorerIndex(bs) ==
  LET best == CanonicalBlocks(bs, 0)
      txs  == IndexedTxs(best)
      at(id) == Max({i \in DOMAIN txs : txs[i].tx.id = id})
  IN  [latestHeight    |-> Len(best),
       finalizedHeight |-> FinalizedHeight(Len(best)),
       txsByHash       |-> [id \in {e.tx.id : e \in Range(txs)} |-> txs[at(id)]],
       txsByAddress    |-> [a \in Account |-> TxsOfAddress(txs, a)]]

-----------------------------------------------------------------------------
(* Pages. *)

\* Mutant: the next page starts at the last block of this one.
PageRepeatsLast(idx, cursor, limit) ==
  LET top    == Min({cursor, idx.latestHeight})
      bottom == Max({0, top - limit + 1})
      page   == [i \in 1 .. (top - bottom + 1) |-> top - i + 1]
  IN  [items |-> page, next |-> IF Len(page) = limit /\ bottom > 0 THEN bottom ELSE None]

(***************************************************************************)
(* explorerBlocks: newest first from the cursor, which may lie above the   *)
(* tip or below zero.                                                      *)
(***************************************************************************)
ExplorerBlocks(idx, cursor, limit) ==
  LET top    == Min({cursor, idx.latestHeight})
      bottom == Max({0, top - limit + 1})
      page   == [i \in 1 .. (top - bottom + 1) |-> top - i + 1]
  IN  [items |-> page, next |-> IF Len(page) = limit /\ bottom > 0 THEN bottom - 1 ELSE None]

Newer(e, f) ==
  e.blockNumber > f.blockNumber
    \/ (e.blockNumber = f.blockNumber /\ e.transactionIndex > f.transactionIndex)

(***************************************************************************)
(* sort.Slice by Newer.  An entry is placed behind the ones that precede   *)
(* it; entries that compare equal are equal.                               *)
(***************************************************************************)
Place(s, i) ==
  1 + Cardinality({j \in DOMAIN s : Newer(s[j], s[i]) \/ (~Newer(s[i], s[j]) /\ j < i)})

NewestFirst(s) == [k \in DOMAIN s |-> s[CHOOSE i \in DOMAIN s : Place(s, i) = k]]

\* Mutant: the page that ends with the list still has a successor.
AddressPageForever(idx, a, cursor, limit) ==
  LET txs == NewestFirst(idx.txsByAddress[a])
      end == Min({cursor + limit, Len(txs)})
  IN  [items |-> SubSeq(txs, cursor + 1, end), next |-> IF end <= Len(txs) - 1 THEN end + 1 ELSE None]

(***************************************************************************)
(* explorerAddress: the cursor is an offset into the sorted list.          *)
(***************************************************************************)
ExplorerAddress(idx, a, cursor, limit) ==
  LET txs == NewestFirst(idx.txsByAddress[a])
      end == Min({cursor + limit, Len(txs)})
  IN  [items |-> SubSeq(txs, cursor + 1, end), next |-> IF end < Len(txs) THEN end ELSE None]

(***************************************************************************)
(* What a client collects that starts at a cursor and follows nextCursor.  *)
(***************************************************************************)
WalkBlocks(idx, limit) ==
  LET walk[c \in 0 .. idx.latestHeight] ==
        LET page == ExplorerBlocks(idx, c, limit)
        IN  page.items \o (IF page.next = None \/ page.next >= c THEN << >> ELSE walk[page.next])
  IN  walk[idx.latestHeight]

WalkAddress(idx, a, limit) ==
  LET walk[c \in 0 .. Len(idx.txsByAddress[a])] ==
        LET page == ExplorerAddress(idx, a, c, limit)
        IN  page.items \o (IF page.next = None THEN << >> ELSE walk[page.next])
  IN  walk[0]

-----------------------------------------------------------------------------
(* SupplySnapshot, on the committed ledger. *)

Positive(l, S) == MapThenSumSet(LAMBDA a : IF l.bal[PKN][a] > 0 THEN l.bal[PKN][a] ELSE 0, S)

SupplySnapshot(bs) ==
  LET l        == LedgerFromBlockchain(bs, FinalityDepth)
      total    == Positive(l, Account)
      reserved == Positive(l, Reserved)
  IN  [total |-> total, reserved |-> reserved,
       circulating |-> Max({0, total - reserved})]

CommittedHeight(bs) == IF BestHeight(bs) <= FinalityDepth THEN 0 ELSE BestHeight(bs) - FinalityDepth

-----------------------------------------------------------------------------
(***************************************************************************)
(* "`blocks`: newest-first block summaries", "`nextCursor`: next block     *)
(* number for pagination" (docs/explorer-api.md:22): a client that follows *)
(* nextCursor through explorerBlocks, with any page size, sees every block *)
(* of the best branch once, newest first, and stops at genesis.            *)
(***************************************************************************)
PagesCoverChain ==
  LET idx == BuildExplorerIndex(blocks)
  IN  \A limit \in Limits :
        WalkBlocks(idx, limit) = [i \in 1 .. (idx.latestHeight + 1) |-> idx.latestHeight - i + 1]

(***************************************************************************)
(* The pages of an address, which explorerAddress cuts by offset from the  *)
(* list it sorts anew for every request, put together give the balance     *)
(* that the same answer reports: what the address held at genesis, plus    *)
(* the rewards of the blocks it mined, plus and minus the amounts of its   *)
(* listed payments and mints.  Only a mint to oneself spoils the sum: it   *)
(* is paid once and listed twice.                                          *)
(***************************************************************************)
Delta(a, e) ==
  (IF e.tx.to = a THEN e.tx.amount ELSE 0)
    - (IF e.tx.from = a /\ e.tx.kind = "transfer" THEN e.tx.amount ELSE 0)

Additive(t) == t.kind \in {"transfer", "mint"} /\ (t.kind = "mint" => t.from # t.to)

AddressAddsUp ==
  NoEquivocation(blocks) =>
    LET idx  == BuildExplorerIndex(blocks)
        best == CanonicalBlocks(blocks, 0)
        mined(a) == Cardinality({i \in DOMAIN best : best[i].miner = a})
    IN  (\A i \in DOMAIN best : \A j \in DOMAIN best[i].txs : Additive(best[i].txs[j])) =>
          \A a \in Account, limit \in Limits :
            LET txs == WalkAddress(idx, a, limit)
            IN  LedgerFromBlockchain(blocks, 0).bal[PKN][a] =
                  Genesis[a] + mined(a) * MinerReward
                    + MapThenSumSet(LAMBDA i : Delta(a, txs[i]), DOMAIN txs)

(***************************************************************************)
(* "`committedHeight`: height considered finalized after `finalityDepth`"  *)
(* (docs/node-endpoints.md:27).  Finality is computed three times: by the  *)
(* explorer index, by CommittedHeight and by the rollback of the ledger    *)
(* that SupplySnapshot reads.  They agree at every height, chains shorter  *)
(* than the depth included: a transaction is marked finalized exactly when *)
(* the committed ledger recorded it, the index finds it by its identifier, *)
(* and the supply, with what the pools hold, is what the blocks up to the  *)
(* finalized height issued.                                                *)
(***************************************************************************)
FinalizedIsCommitted ==
  NoEquivocation(blocks) =>
    LET idx    == BuildExplorerIndex(blocks)
        best   == CanonicalBlocks(blocks, 0)
        ledger == LedgerFromBlockchain(blocks, FinalityDepth)
        supply == SupplySnapshot(blocks)
    IN  /\ idx.finalizedHeight = CommittedHeight(blocks)
        /\ {e.tx : e \in {f \in Range(IndexedTxs(best)) : f.finalized}} = ledger.history
        /\ \A t \in ledger.history : idx.txsByHash[t.id].tx = t
        /\ PairedSwaps(best) =>
             supply.total + PoolSupply(ledger, PKN) = Issued(SubSeq(best, 1, idx.finalizedHeight))
        /\ supply.circulating + supply.reserved = supply.total
=============================================================================
