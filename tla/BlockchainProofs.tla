--------------------------- MODULE BlockchainProofs ---------------------------
(***************************************************************************)
(* Proofs about one node's block tree, for every number of blocks, every   *)
(* genesis configuration and every lottery draw: the tip only improves, it *)
(* does not depend on the order in which the blocks arrived, and replay    *)
(* applies what AddBlock accepted, so that the supply is what the blocks   *)
(* issued.  Then about the explorer's views of the tree: its pages, the    *)
(* histories of addresses and the finality marks.                          *)
(***************************************************************************)
EXTENDS Explorer, BlockTreeProofs

Typed == blocks \in Seq(Block)

(***************************************************************************)
(* The tree holds blocks.                                                  *)
(***************************************************************************)
LEMMA BlocksTyped == Spec => []Typed
<1>1. Init => Typed BY DEF Init, Typed
<1>2. Typed /\ [Next]_blocks => Typed'
  <2> SUFFICES ASSUME blocks \in Seq(Block), [Next]_blocks PROVE blocks' \in Seq(Block) BY DEF Typed
  <2>1. CASE AddBlock
    <3>1. PICK m \in Native, s \in Slot, txs \in TxLists, signed \in BOOLEAN,
               parent \in Known(CalculateDepths(blocks)) :
            blocks' = Append(blocks, [NewCandidateBlock(m, s, parent, txs) EXCEPT !.signed = signed])
      BY <2>1 DEF AddBlock
    <3>2. parent \in Hash BY KnownHashes
    <3>3. txs \in Seq(Tx) BY ArrivalAssumption
    <3> DEFINE b == [NewCandidateBlock(m, s, parent, txs) EXCEPT !.signed = signed]
    <3>4. b \in Block BY <3>2, <3>3 DEF Block, NewCandidateBlock
    <3> HIDE DEF b
    <3>5. Append(blocks, b) \in Seq(Block) BY <3>4
    <3> QED BY <3>1, <3>5 DEF b
  <2>2. CASE OrphanBlock BY <2>2 DEF OrphanBlock
  <2>3. CASE UNCHANGED blocks BY <2>3
  <2> QED BY <2>1, <2>2, <2>3 DEF Next
<1> QED BY <1>1, <1>2, PTL DEF Spec

(***************************************************************************)
(* An accepted block is put behind the others.                             *)
(***************************************************************************)
LEMMA BlocksGrow ==
  ASSUME blocks \in Seq(Block), Next PROVE Range(blocks) \subseteq Range(blocks')
<1>1. CASE AddBlock
  <2>1. PICK b : blocks' = Append(blocks, b) BY <1>1 DEF AddBlock
  <2>2. \A i \in DOMAIN blocks : i \in DOMAIN blocks' /\ blocks'[i] = blocks[i] BY <2>1
  <2> QED BY <2>2 DEF Range
<1>2. CASE OrphanBlock BY <1>2 DEF OrphanBlock
<1> QED BY <1>1, <1>2 DEF Next

(***************************************************************************)
(* The best branch of a node never gets shorter, and a tie never makes the *)
(* node swing between two branches, whichever blocks arrive.               *)
(***************************************************************************)
THEOREM TipNeverWorsens ==
  ASSUME Ordered(Hash) PROVE Spec => TipOnlyImproves
<1>1. Typed /\ Typed' /\ [Next]_blocks => [TipStep]_blocks
  <2> SUFFICES ASSUME blocks \in Seq(Block), blocks' \in Seq(Block), [Next]_blocks
               PROVE  [TipStep]_blocks
    BY DEF Typed
  <2>1. CASE UNCHANGED blocks BY <2>1
  <2>2. CASE Next
    <3>1. Range(blocks) \subseteq Range(blocks') BY <2>2, BlocksGrow
    <3> QED BY <3>1, TipImproves DEF TipStep, Beats
  <2> QED BY <2>1, <2>2
<1> QED BY <1>1, BlocksTyped, PTL DEF Spec, TipOnlyImproves

(***************************************************************************)
(* Two nodes that hold the same blocks agree on the best branch and on the *)
(* ledger, in whatever order the blocks reached them.                      *)
(***************************************************************************)
THEOREM OrderDoesNotMatter == Spec => []OrderIndependent
<1>1. Typed => OrderIndependent
  <2> SUFFICES ASSUME blocks \in Seq(Block), NoEquivocation(blocks), NEW p \in ArrivalOrders(blocks)
               PROVE  /\ BestLeafHash(p) = BestLeafHash(blocks)
                      /\ LedgerFromBlockchain(p, 0) = LedgerFromBlockchain(blocks, 0)
    BY DEF OrderIndependent, Typed
  <2>1. PICK f \in Bijection(DOMAIN blocks, DOMAIN blocks) : p = [i \in DOMAIN blocks |-> blocks[f[i]]]
    BY DEF ArrivalOrders
  <2>2. f \in [DOMAIN blocks -> DOMAIN blocks] /\ \A j \in DOMAIN blocks : \E i \in DOMAIN blocks : f[i] = j
    BY <2>1 DEF Bijection, Injection, Surjection
  <2>3. DOMAIN blocks = 1 .. Len(blocks) /\ Len(blocks) \in Nat OBVIOUS
  <2>4. p \in Seq(Block) BY <2>1, <2>2, <2>3
  <2>5. DOMAIN p = DOMAIN blocks BY <2>1
  <2>6. Range(p) = Range(blocks) BY <2>1, <2>2, <2>5 DEF Range
  <2>7. CalculateDepths(p) = CalculateDepths(blocks)
    BY <2>4, <2>6, SameTree DEF NoEquivocation
  <2> QED BY <2>7 DEF BestLeafHash, LedgerFromBlockchain, CanonicalBlocks
<1> QED BY <1>1, BlocksTyped, PTL
-----------------------------------------------------------------------------
(* What AddBlock accepted stays accepted. *)

(***************************************************************************)
(* The inductive invariant: every block passed AddBlock's test on the      *)
(* blocks that were there before it.                                       *)
(***************************************************************************)
Passed == \A i \in 1 .. Len(blocks) : CanAddBlock(SubSeq(blocks, 1, i - 1), blocks[i])

(***************************************************************************)
(* AddBlock appends what it accepts, and nothing else changes the list.    *)
(***************************************************************************)
LEMMA BlocksPassed == Spec => []Passed
<1>1. Init => Passed BY DEF Init, Passed
<1>2. Typed /\ Passed /\ [Next]_blocks => Passed'
  <2> SUFFICES ASSUME blocks \in Seq(Block), Passed, [Next]_blocks PROVE Passed' BY DEF Typed
  <2>1. CASE AddBlock
    <3>1. PICK b : CanAddBlock(blocks, b) /\ blocks' = Append(blocks, b) BY <2>1 DEF AddBlock
    <3>2. PICK n \in Nat : n = Len(blocks) OBVIOUS
    <3>3. Len(blocks') = n + 1 BY <3>1, <3>2
    <3> SUFFICES ASSUME NEW i \in 1 .. (n + 1)
                 PROVE  CanAddBlock(SubSeq(blocks', 1, i - 1), blocks'[i])
      BY <3>3 DEF Passed
    <3>4. SubSeq(blocks', 1, i - 1) = SubSeq(blocks, 1, i - 1) BY <3>1, <3>2
    <3>5. CASE i = n + 1
      <4>1. SubSeq(blocks, 1, i - 1) = blocks /\ blocks'[i] = b BY <3>1, <3>2, <3>5
      <4> QED BY <3>1, <3>4, <4>1
    <3>6. CASE i # n + 1
      <4>1. i \in 1 .. Len(blocks) /\ blocks'[i] = blocks[i] BY <3>1, <3>2, <3>6
      <4> QED BY <3>4, <4>1 DEF Passed
    <3> QED BY <3>5, <3>6
  <2>2. CASE OrphanBlock BY <2>2 DEF OrphanBlock, Passed
  <2>3. CASE UNCHANGED blocks BY <2>3 DEF Passed
  <2> QED BY <2>1, <2>2, <2>3 DEF Next
<1> QED BY <1>1, <1>2, BlocksTyped, PTL DEF Spec

(***************************************************************************)
(* The transactions of a stored block are accepted on top of the branch it *)
(* sits on, whatever arrived after it: the tree that AddBlock tested the   *)
(* block on and today's tree have the same branch below it, and entering   *)
(* the miner in the registry first refuses nothing.                        *)
(***************************************************************************)
LEMMA StoredAccepted ==
  ASSUME blocks \in Seq(Block), Passed, NoEquivocation(blocks), NEW b \in Range(blocks)
  PROVE  AllAccepted(MarkValidator(BuildLedgerAtHash(CalculateDepths(blocks), b.parent), b.miner), b.txs)
<1>1. PICK i \in 1 .. Len(blocks) : b = blocks[i] BY DEF Range
<1> DEFINE bs == SubSeq(blocks, 1, i - 1)
<1>2. bs \in Seq(Block) /\ b \in Block /\ \A k \in DOMAIN bs : k \in DOMAIN blocks /\ bs[k] = blocks[k]
  BY <1>1
<1>3. CanAddBlock(bs, b) BY <1>1 DEF Passed
<1> HIDE DEF bs
<1>4. Range(bs) \subseteq Range(blocks) BY <1>2 DEF Range
<1>5. b.parent \in Attached(bs) \cup {GenesisHash} BY <1>2, <1>3, KnownHashes DEF CanAddBlock
<1>6. b.parent \in Attached(blocks) \cup {GenesisHash} BY <1>4, <1>5, AttachedGrows
<1>7. \A c \in Range(bs), d \in Range(blocks) : GetBlockHash(c) = GetBlockHash(d) => c = d
  BY <1>4 DEF NoEquivocation
<1>8. BlocksTo(CalculateDepths(bs), b.parent) = BlocksTo(CalculateDepths(blocks), b.parent)
  BY <1>2, <1>5, <1>6, <1>7, SameBranch
<1> DEFINE p == BlocksTo(CalculateDepths(blocks), b.parent)
<1>9. p \in Seq(Block) BY <1>6, BranchPath
<1>10. BuildLedgerAtHash(CalculateDepths(bs), b.parent) = BuildLedgerFromBlocks(p)
  BY <1>8 DEF BuildLedgerAtHash
<1>11. BuildLedgerAtHash(CalculateDepths(blocks), b.parent) = BuildLedgerFromBlocks(p)
  BY DEF BuildLedgerAtHash
<1> HIDE DEF p
<1>12. AllAccepted(BuildLedgerFromBlocks(p), b.txs) BY <1>3, <1>10 DEF CanAddBlock
<1> QED BY <1>2, <1>9, <1>11, <1>12, EarlyEntry

(***************************************************************************)
(* Replay drops no transaction of a stored block, on whatever branch the   *)
(* block sits.                                                             *)
(***************************************************************************)
THEOREM ReplayKeepsEverything == Spec => []ReplayDropsNothing
<1>1. Typed /\ Passed => ReplayDropsNothing
  <2> SUFFICES ASSUME blocks \in Seq(Block), Passed, NoEquivocation(blocks), NEW b \in Range(blocks)
               PROVE  Dropped(MarkValidator(BuildLedgerAtHash(CalculateDepths(blocks), b.parent), b.miner),
                              b.txs) = {}
    BY DEF Typed, ReplayDropsNothing
  <2> DEFINE l == MarkValidator(BuildLedgerAtHash(CalculateDepths(blocks), b.parent), b.miner)
  <2>1. AllAccepted(l, b.txs) BY StoredAccepted
  <2>2. DOMAIN b.txs = 1 .. Len(b.txs)
    <3>1. b \in Block BY DEF Range
    <3>2. b.txs \in Seq(Tx) BY <3>1 DEF Block
    <3> QED BY <3>2
  <2> HIDE DEF l
  <2>3. Dropped(l, b.txs) = {} BY <2>1, <2>2 DEF Dropped, AllAccepted
  <2> QED BY <2>3 DEF l
<1> QED BY <1>1, BlocksTyped, BlocksPassed, PTL
-----------------------------------------------------------------------------
(* The pages of the explorer. *)

(***************************************************************************)
(* The block numbers from c down to genesis.                               *)
(***************************************************************************)
Down(c) == [i \in 1 .. (c + 1) |-> c - i + 1]

(***************************************************************************)
(* Of two integers, the larger and the smaller one.                        *)
(***************************************************************************)
LEMMA MaxMinOfTwo ==
  ASSUME NEW x \in Int, NEW y \in Int
  PROVE  /\ Max({x, y}) = IF x <= y THEN y ELSE x
         /\ Min({x, y}) = IF x <= y THEN x ELSE y
<1>1. Max({x, y}) \in {x, y} /\ \A z \in {x, y} : Max({x, y}) >= z
  <2>1. \E m \in {x, y} : \A z \in {x, y} : m >= z OBVIOUS
  <2> QED BY <2>1 DEF Max
<1>2. Min({x, y}) \in {x, y} /\ \A z \in {x, y} : Min({x, y}) <= z
  <2>1. \E m \in {x, y} : \A z \in {x, y} : m <= z OBVIOUS
  <2> QED BY <2>1 DEF Min
<1> QED BY <1>1, <1>2

(***************************************************************************)
(* A page from a block of the chain: all that is left, or limit blocks and *)
(* the number below them.                                                  *)
(***************************************************************************)
LEMMA BlockPage ==
  ASSUME NEW idx, NEW n \in Nat, idx.latestHeight = n, NEW limit \in Nat \ {0}, NEW c \in 0 .. n
  PROVE  /\ c < limit => ExplorerBlocks(idx, c, limit) = [items |-> Down(c), next |-> None]
         /\ c >= limit => ExplorerBlocks(idx, c, limit) =
                            [items |-> [i \in 1 .. limit |-> c - i + 1], next |-> c - limit]
<1>1. c \in Nat /\ c <= n /\ limit \in Nat /\ limit > 0 OBVIOUS
<1>2. Min({c, idx.latestHeight}) = c BY <1>1, MaxMinOfTwo
<1>3. CASE c < limit
  <2>1. Max({0, c - limit + 1}) = 0
    <3>1. c - limit + 1 \in Int /\ c - limit + 1 <= 0 BY <1>1, <1>3
    <3> QED BY <3>1, MaxMinOfTwo
  <2> DEFINE page == [i \in 1 .. (c - 0 + 1) |-> c - i + 1]
  <2>2. ExplorerBlocks(idx, c, limit)
          = [items |-> page, next |-> IF Len(page) = limit /\ 0 > 0 THEN 0 - 1 ELSE None]
    BY <1>2, <2>1, Zenon DEF ExplorerBlocks
  <2>3. c - 0 + 1 = c + 1 /\ ~(0 > 0) BY <1>1
  <2>4. page = Down(c) BY <2>3, Zenon DEF Down
  <2> HIDE DEF page
  <2>5. ExplorerBlocks(idx, c, limit) = [items |-> Down(c), next |-> None] BY <2>2, <2>3, <2>4
  <2> QED BY <1>1, <1>3, <2>5
<1>4. CASE c >= limit
  <2> DEFINE bottom == c - limit + 1
             page == [i \in 1 .. limit |-> c - i + 1]
  <2>1. bottom \in Int /\ bottom > 0 /\ bottom - 1 = c - limit /\ c - bottom + 1 = limit BY <1>1, <1>4
  <2>2. Max({0, bottom}) = bottom BY <2>1, MaxMinOfTwo
  <2>3. Len(page) = limit BY <1>1
  <2> HIDE DEF bottom
  <2> DEFINE part == [i \in 1 .. (c - bottom + 1) |-> c - i + 1]
  <2>4. ExplorerBlocks(idx, c, limit)
          = [items |-> part, next |-> IF Len(part) = limit /\ bottom > 0 THEN bottom - 1 ELSE None]
    BY <1>2, <2>2, Zenon DEF ExplorerBlocks, bottom
  <2>5. part = page BY <2>1, Zenon
  <2> HIDE DEF page, part
  <2>6. ExplorerBlocks(idx, c, limit) = [items |-> page, next |-> c - limit]
    BY <2>1, <2>3, <2>4, <2>5
  <2> QED BY <1>1, <1>4, <2>6 DEF page
<1> QED BY <1>1, <1>3, <1>4

(***************************************************************************)
(* The equation that the walk over the pages solves.                       *)
(***************************************************************************)
Rest(next, c, f) == IF next = None \/ next >= c THEN << >> ELSE f[next]

Filled(idx, limit, f, c) ==
  ExplorerBlocks(idx, c, limit).items \o Rest(ExplorerBlocks(idx, c, limit).next, c, f)

Walks(idx, limit, f) == f = [c \in 0 .. idx.latestHeight |-> Filled(idx, limit, f, c)]

Below(limit, f, c) == c >= limit => f[c - limit] = Down(c - limit)

(***************************************************************************)
(* A page and what is below it make up the numbers down to genesis.        *)
(***************************************************************************)
LEMMA PageAndRest ==
  ASSUME None \notin Nat, NEW idx, NEW n \in Nat, idx.latestHeight = n, NEW limit \in Nat \ {0},
         NEW c \in 0 .. n, NEW f, Below(limit, f, c)
  PROVE  Filled(idx, limit, f, c) = Down(c)
<1>1. c \in Nat /\ limit \in Nat /\ limit > 0 OBVIOUS
<1>2. CASE c < limit
  <2>1. ExplorerBlocks(idx, c, limit) = [items |-> Down(c), next |-> None] BY <1>2, BlockPage
  <2>2. Down(c) \in Seq(Int) BY <1>1 DEF Down
  <2>3. Down(c) \o << >> = Down(c) BY <2>2
  <2> QED BY <2>1, <2>3 DEF Rest, Filled
<1>3. CASE c >= limit
  <2> DEFINE k == c - limit
             page == [i \in 1 .. limit |-> c - i + 1]
  <2>1. ExplorerBlocks(idx, c, limit) = [items |-> page, next |-> k] BY <1>3, BlockPage
  <2>2. k \in Nat /\ k < c /\ ~(k >= c) /\ k # None BY <1>1, <1>3
  <2>3. Rest(k, c, f) = Down(k) BY <1>3, <2>2 DEF Rest, Below
  <2>4. page \in Seq(Int) /\ Len(page) = limit /\ \A i \in 1 .. limit : page[i] = c - i + 1 BY <1>1
  <2>5. Down(k) \in Seq(Int) /\ Len(Down(k)) = k + 1 /\ \A i \in 1 .. (k + 1) : Down(k)[i] = k - i + 1
    BY <2>2 DEF Down
  <2>6. Down(c) \in Seq(Int) /\ Len(Down(c)) = c + 1 /\ \A i \in 1 .. (c + 1) : Down(c)[i] = c - i + 1
    BY <1>1 DEF Down
  <2> DEFINE both == page \o Down(k)
  <2>7. /\ both \in Seq(Int) /\ Len(both) = c + 1
        /\ \A i \in 1 .. (c + 1) : both[i] = IF i <= limit THEN page[i] ELSE Down(k)[i - limit]
    <3> HIDE DEF page
    <3>1. limit + (k + 1) = c + 1 BY <1>1
    <3> HIDE DEF k
    <3> QED BY <1>1, <2>2, <2>4, <2>5, <3>1
  <2>8. \A i \in 1 .. (c + 1) : both[i] = Down(c)[i]
    <3> SUFFICES ASSUME NEW i \in 1 .. (c + 1) PROVE both[i] = c - i + 1 BY <2>6
    <3>1. CASE i <= limit
      <4>1. i \in 1 .. limit BY <1>1, <3>1
      <4> HIDE DEF both
      <4> QED BY <2>4, <2>7, <3>1, <4>1
    <3>2. CASE ~(i <= limit)
      <4>1. i - limit \in 1 .. (k + 1) BY <1>1, <3>2
      <4>2. Down(k)[i - limit] = k - (i - limit) + 1 BY <2>5, <4>1
      <4>3. k - (i - limit) + 1 = c - i + 1 BY <1>1
      <4>4. both[i] = Down(k)[i - limit]
        <5> HIDE DEF both, k
        <5> QED BY <2>7, <3>2
      <4> QED BY <4>2, <4>3, <4>4
    <3> QED BY <3>1, <3>2
  <2>9. both = Down(c)
    <3> HIDE DEF both
    <3> QED BY <2>6, <2>7, <2>8
  <2> QED BY <2>1, <2>3, <2>9 DEF Filled
<1> QED BY <1>1, <1>2, <1>3

(***************************************************************************)
(* With any page size, the walk sees every block once, newest first.       *)
(***************************************************************************)
LEMMA WalkIsDown ==
  ASSUME None \notin Nat, NEW idx, NEW n \in Nat, idx.latestHeight = n, NEW limit \in Nat \ {0}
  PROVE  WalkBlocks(idx, limit) = Down(n)
<1> DEFINE d == [c \in 0 .. n |-> Down(c)]
<1>1. Walks(idx, limit, d)
  <2>1. ASSUME NEW c \in 0 .. n
        PROVE  Filled(idx, limit, d, c) = d[c]
    <3>1. c >= limit => c - limit \in 0 .. n OBVIOUS
    <3>2. Below(limit, d, c) BY <3>1 DEF Below
    <3>3. d[c] = Down(c) OBVIOUS
    <3> HIDE DEF d
    <3> QED BY <3>2, <3>3, PageAndRest
  <2>2. d = [c \in 0 .. n |-> d[c]] OBVIOUS
  <2> HIDE DEF d
  <2> QED BY <2>1, <2>2 DEF Walks
<1> HIDE DEF d
<1>2. PICK f : Walks(idx, limit, f) /\ WalkBlocks(idx, limit) = f[idx.latestHeight]
  BY <1>1 DEF WalkBlocks, Walks, Filled, Rest
<1>3. \A c \in 0 .. n : f[c] = Filled(idx, limit, f, c)
  BY <1>2 DEF Walks
<1> DEFINE S == {k \in Nat : \A c \in 0 .. n : c <= k => f[c] = Down(c)}
<1>4. 0 \in S
  <2>1. ASSUME NEW c \in 0 .. n, c <= 0 PROVE f[c] = Down(c)
    <3>1. Below(limit, f, c) BY <2>1 DEF Below
    <3> HIDE DEF S
    <3> QED BY <1>3, <3>1, PageAndRest
  <2> QED BY <2>1
<1>5. ASSUME NEW k \in S PROVE k + 1 \in S
  <2>1. ASSUME NEW c \in 0 .. n, c <= k + 1 PROVE f[c] = Down(c)
    <3>1. c >= limit => c - limit \in 0 .. n /\ c - limit <= k BY <2>1
    <3>2. Below(limit, f, c) BY <3>1 DEF Below
    <3> HIDE DEF S
    <3> QED BY <1>3, <3>2, PageAndRest
  <2> QED BY <2>1
<1>6. S \in SUBSET Nat OBVIOUS
<1> HIDE DEF S
<1>7. n \in S BY <1>4, <1>5, <1>6, Induction
<1>8. f[n] = Down(n) BY <1>7 DEF S
<1> QED BY <1>2, <1>8

(***************************************************************************)
(* A client that follows nextCursor through the block pages sees every     *)
(* block of the best branch once, newest first, for every tree and every   *)
(* page size.                                                              *)
(***************************************************************************)
THEOREM EveryBlockListed ==
  ASSUME Ordered(Hash) PROVE Spec => []PagesCoverChain
<1>1. Typed => PagesCoverChain
  <2> SUFFICES ASSUME blocks \in Seq(Block), NEW limit \in Limits
               PROVE  WalkBlocks(BuildExplorerIndex(blocks), limit)
                        = [i \in 1 .. (BuildExplorerIndex(blocks).latestHeight + 1)
                             |-> BuildExplorerIndex(blocks).latestHeight - i + 1]
    BY DEF Typed, PagesCoverChain
  <2>1. PICK idx : idx = BuildExplorerIndex(blocks) OBVIOUS
  <2>2. CanonicalBlocks(blocks, 0) \in Seq(Block) BY CanonicalPath
  <2>3. PICK n \in Nat : n = Len(CanonicalBlocks(blocks, 0)) BY <2>2
  <2>4. idx.latestHeight = n BY <2>1, <2>3 DEF BuildExplorerIndex
  <2>5. limit \in Nat \ {0} /\ None \notin Nat BY ExplorerAssumption
  <2>6. WalkBlocks(idx, limit) = Down(n) BY <2>4, <2>5, WalkIsDown
  <2> QED BY <2>1, <2>4, <2>6 DEF Down
<1> QED BY <1>1, BlocksTyped, PTL
-----------------------------------------------------------------------------
(* What the replay of a branch leaves: the supply and the history. *)

(***************************************************************************)
(* Replay of a list of transactions keeps the ledger sound.                *)
(***************************************************************************)
LEMMA TxsSound ==
  ASSUME NEW l, Sound(l), NEW txs \in Seq(Tx)
  PROVE  \A k \in 0 .. Len(txs) : Sound(FoldLeft(Transaction, l, SubSeq(txs, 1, k)))
<1> DEFINE F(k) == FoldLeft(Transaction, l, SubSeq(txs, 1, k))
           S == {k \in Nat : k <= Len(txs) => Sound(F(k))}
<1>1. F(0) = l /\ \A k \in 1 .. Len(txs) : F(k) = Transaction(F(k - 1), txs[k]) BY TxFold
<1>2. Len(txs) \in Nat /\ \A k \in 1 .. Len(txs) : txs[k] \in Tx OBVIOUS
<1> HIDE DEF F
<1>3. 0 \in S BY <1>1
<1>4. ASSUME NEW k \in S PROVE k + 1 \in S
  <2> SUFFICES ASSUME k + 1 <= Len(txs) PROVE Sound(F(k + 1)) OBVIOUS
  <2>1. k + 1 \in 1 .. Len(txs) /\ k + 1 - 1 = k /\ k <= Len(txs) BY <1>2
  <2>2. Sound(F(k)) BY <2>1
  <2>3. F(k + 1) = Transaction(F(k), txs[k + 1]) BY <1>1, <2>1
  <2> QED BY <1>2, <2>1, <2>2, <2>3, TransactionSound
<1>5. S \in SUBSET Nat OBVIOUS
<1> HIDE DEF S
<1>6. \A k \in Nat : k \in S BY <1>3, <1>4, <1>5, Induction
<1> QED BY <1>6 DEF S, F

(***************************************************************************)
(* Replay of accepted transactions records them all and nothing else.      *)
(***************************************************************************)
LEMMA TxsHistory ==
  ASSUME NEW l, Sound(l), NEW txs \in Seq(Tx), AllAccepted(l, txs)
  PROVE  FoldLeft(Transaction, l, txs).history = l.history \cup Range(txs)
<1> DEFINE F(k) == FoldLeft(Transaction, l, SubSeq(txs, 1, k))
           H(k) == l.history \cup {txs[j] : j \in 1 .. k}
           S == {k \in Nat : k <= Len(txs) => F(k).history = H(k)}
<1>1. F(0) = l /\ \A k \in 1 .. Len(txs) : F(k) = Transaction(F(k - 1), txs[k]) BY TxFold
<1>2. Len(txs) \in Nat /\ \A k \in 1 .. Len(txs) : txs[k] \in Tx OBVIOUS
<1>3. \A k \in 0 .. Len(txs) : Sound(F(k)) BY TxsSound
<1>4. \A k \in 1 .. Len(txs) : Accepts(F(k - 1), txs[k]) BY DEF AllAccepted
<1>5. SubSeq(txs, 1, Len(txs)) = txs /\ DOMAIN txs = 1 .. Len(txs) BY FoldStart
<1>6. F(Len(txs)) = FoldLeft(Transaction, l, txs) BY <1>5
<1> HIDE DEF F
<1>7. 0 \in S BY <1>1
<1>8. ASSUME NEW k \in S PROVE k + 1 \in S
  <2> SUFFICES ASSUME k + 1 <= Len(txs) PROVE F(k + 1).history = H(k + 1) OBVIOUS
  <2>1. k + 1 \in 1 .. Len(txs) /\ k + 1 - 1 = k /\ k <= Len(txs) /\ k \in 0 .. Len(txs) BY <1>2
  <2>2. F(k).history = H(k) BY <2>1
  <2> HIDE DEF S
  <2>3. F(k + 1) = Transaction(F(k), txs[k + 1]) BY <1>1, <2>1
  <2>4. Sound(F(k)) /\ Accepts(F(k), txs[k + 1]) /\ txs[k + 1] \in Tx BY <1>2, <1>3, <1>4, <2>1
  <2>5. F(k + 1).history = F(k).history \cup {txs[k + 1]} BY <2>3, <2>4, HistoryStep DEF Transaction
  <2>6. 1 .. (k + 1) = (1 .. k) \cup {k + 1} BY <2>1
  <2>7. H(k + 1) = H(k) \cup {txs[k + 1]} BY <2>6
  <2> QED BY <2>2, <2>5, <2>7
<1>9. S \in SUBSET Nat OBVIOUS
<1> HIDE DEF S
<1>10. Len(txs) \in S BY <1>2, <1>7, <1>8, <1>9, Induction
<1>11. F(Len(txs)).history = H(Len(txs)) BY <1>2, <1>10 DEF S
<1>12. Range(txs) = {txs[j] : j \in 1 .. Len(txs)} BY <1>5 DEF Range
<1> QED BY <1>6, <1>11, <1>12

Gains(txs) == [j \in DOMAIN txs |-> Created(txs[j])]

(***************************************************************************)
(* Replay of accepted transactions changes the supply by what they mint.   *)
(***************************************************************************)
LEMMA TxsSupply ==
  ASSUME Finite, NEW l, Sound(l), NEW txs \in Seq(Tx), AllAccepted(l, txs),
         \A j \in DOMAIN txs : Paired(txs[j])
  PROVE  /\ SupplyOf(FoldLeft(Transaction, l, txs), PKN)
              = SupplyOf(l, PKN) + Sum(Gains(txs), DOMAIN txs)
         /\ Sum(Gains(txs), DOMAIN txs) \in Int
<1> DEFINE F(k) == FoldLeft(Transaction, l, SubSeq(txs, 1, k))
           G == Gains(txs)
           S == {k \in Nat : k <= Len(txs) => SupplyOf(F(k), PKN) = SupplyOf(l, PKN) + Sum(G, 1 .. k)}
<1>1. F(0) = l /\ \A k \in 1 .. Len(txs) : F(k) = Transaction(F(k - 1), txs[k]) BY TxFold
<1>2. Len(txs) \in Nat /\ \A k \in 1 .. Len(txs) : txs[k] \in Tx OBVIOUS
<1>3. \A k \in 0 .. Len(txs) : Sound(F(k)) BY TxsSound
<1>4. \A k \in 1 .. Len(txs) : Accepts(F(k - 1), txs[k]) BY DEF AllAccepted
<1>5. SubSeq(txs, 1, Len(txs)) = txs /\ DOMAIN txs = 1 .. Len(txs) BY FoldStart
<1>6. F(Len(txs)) = FoldLeft(Transaction, l, txs) BY <1>5
<1>7. \A k \in 1 .. Len(txs) : G[k] = Created(txs[k]) /\ G[k] \in Int
  <2>1. \A k \in 1 .. Len(txs) : txs[k].amount \in Int BY <1>2, TxFields
  <2>2. \A k \in 1 .. Len(txs) : G[k] = Created(txs[k]) BY <1>5 DEF Gains
  <2> QED BY <2>1, <2>2 DEF Created
<1>8. SupplyOf(l, PKN) \in Int BY AccountAssumption, SupplyInteger
<1> HIDE DEF F, G
<1>9. 0 \in S
  <2>1. 1 .. 0 = {} OBVIOUS
  <2>2. Sum(G, 1 .. 0) = 0 BY <2>1, SumEmpty
  <2> QED BY <1>1, <1>8, <2>2
<1>10. ASSUME NEW k \in S PROVE k + 1 \in S
  <2> SUFFICES ASSUME k + 1 <= Len(txs)
               PROVE  SupplyOf(F(k + 1), PKN) = SupplyOf(l, PKN) + Sum(G, 1 .. (k + 1))
    OBVIOUS
  <2>1. k + 1 \in 1 .. Len(txs) /\ k + 1 - 1 = k /\ k <= Len(txs) /\ k \in 0 .. Len(txs) /\ k \in Nat BY <1>2
  <2>2. SupplyOf(F(k), PKN) = SupplyOf(l, PKN) + Sum(G, 1 .. k) BY <2>1
  <2> HIDE DEF S
  <2>3. F(k + 1) = Transaction(F(k), txs[k + 1]) BY <1>1, <2>1
  <2>4. Sound(F(k)) /\ Accepts(F(k), txs[k + 1]) /\ txs[k + 1] \in Tx /\ Paired(txs[k + 1])
    BY <1>2, <1>3, <1>4, <1>5, <2>1
  <2>5. SupplyOf(F(k + 1), PKN) = SupplyOf(F(k), PKN) + Created(txs[k + 1])
    BY <2>3, <2>4, SupplyStep DEF Transaction
  <2>6. Sum(G, 1 .. k) \in Int /\ Sum(G, 1 .. (k + 1)) = Sum(G, 1 .. k) + G[k + 1]
    BY <1>2, <1>7, <2>1, SumNext
  <2>7. G[k + 1] = Created(txs[k + 1]) /\ G[k + 1] \in Int BY <1>7, <2>1
  <2> QED BY <1>8, <2>2, <2>5, <2>6, <2>7
<1>11. S \in SUBSET Nat OBVIOUS
<1> HIDE DEF S
<1>12. Len(txs) \in S BY <1>2, <1>9, <1>10, <1>11, Induction
<1>13. SupplyOf(F(Len(txs)), PKN) = SupplyOf(l, PKN) + Sum(G, 1 .. Len(txs)) BY <1>2, <1>12 DEF S
<1>14. Sum(G, 1 .. Len(txs)) \in Int
  <2>1. IsFiniteSet(1 .. Len(txs)) BY <1>2, FS_Interval
  <2> QED BY <1>7, <2>1, SumInteger
<1> QED BY <1>5, <1>6, <1>13, <1>14 DEF G

(***************************************************************************)
(* The blocks of a branch replay without a refusal.                        *)
(***************************************************************************)
Kept(best) ==
  \A i \in 1 .. Len(best) :
    AllAccepted(MarkValidator(BuildLedgerFromBlocks(SubSeq(best, 1, i - 1)), best[i].miner), best[i].txs)

(***************************************************************************)
(* One block: its fields, and what its replay leaves.                      *)
(***************************************************************************)
LEMMA BlockReplayed ==
  ASSUME NEW l, Sound(l), NEW b \in Block
  PROVE  /\ Sound(ReplayBlock(l, b))
         /\ AllAccepted(MarkValidator(l, b.miner), b.txs) =>
              /\ ReplayBlock(l, b).history = l.history \cup Range(b.txs)
              /\ Finite /\ (\A j \in DOMAIN b.txs : Paired(b.txs[j])) =>
                   /\ SupplyOf(ReplayBlock(l, b), PKN)
                        = SupplyOf(l, PKN) + (MinerReward + Sum(Gains(b.txs), DOMAIN b.txs))
                   /\ Sum(Gains(b.txs), DOMAIN b.txs) \in Int
<1> DEFINE m == MarkValidator(l, b.miner)
           n == FoldLeft(Transaction, m, b.txs)
<1>1. b.txs \in Seq(Tx) /\ b.miner \in Account BY AccountAssumption DEF Block
<1>2. Sound(m) /\ m.bal = l.bal /\ m.pools = l.pools /\ m.history = l.history BY <1>1, MinerSound
<1> HIDE DEF m
<1>3. Sound(n)
  <2>1. Len(b.txs) \in 0 .. Len(b.txs) /\ SubSeq(b.txs, 1, Len(b.txs)) = b.txs BY <1>1, FoldStart
  <2> QED BY <1>1, <1>2, <2>1, TxsSound
<1>4. ReplayBlock(l, b) = PayReward(n, b.miner) BY DEF ReplayBlock, m
<1>5. AllAccepted(m, b.txs) => n.history = m.history \cup Range(b.txs) BY <1>1, <1>2, TxsHistory
<1>6. ASSUME AllAccepted(m, b.txs), Finite, \A j \in DOMAIN b.txs : Paired(b.txs[j])
      PROVE  /\ SupplyOf(n, PKN) = SupplyOf(m, PKN) + Sum(Gains(b.txs), DOMAIN b.txs)
             /\ Sum(Gains(b.txs), DOMAIN b.txs) \in Int
  BY <1>1, <1>2, <1>6, TxsSupply
<1> HIDE DEF n
<1>7. /\ Sound(PayReward(n, b.miner))
      /\ PayReward(n, b.miner).bal = CreditAsset(n.bal, PKN, b.miner, MinerReward)
      /\ PayReward(n, b.miner).pools = n.pools /\ PayReward(n, b.miner).history = n.history
  BY <1>1, <1>3, MinerSound
<1>8. ASSUME AllAccepted(m, b.txs), Finite, \A j \in DOMAIN b.txs : Paired(b.txs[j])
      PROVE  /\ SupplyOf(ReplayBlock(l, b), PKN)
                  = SupplyOf(l, PKN) + (MinerReward + Sum(Gains(b.txs), DOMAIN b.txs))
             /\ Sum(Gains(b.txs), DOMAIN b.txs) \in Int
  <2>1. MinerReward \in Int /\ PKN \in Asset BY AmountAssumption, AccountAssumption
  <2>2. SupplyOf(PayReward(n, b.miner), PKN) = SupplyOf(n, PKN) + IF PKN = PKN THEN MinerReward ELSE 0
    BY <1>1, <1>3, <1>7, <1>8, <2>1, SupplyCredited
  <2>3. SupplyOf(m, PKN) = SupplyOf(l, PKN) BY <1>2, <1>8, SupplySame
  <2>4. SupplyOf(l, PKN) \in Int BY <1>8, <2>1, SupplyInteger
  <2> QED BY <1>4, <1>6, <1>8, <2>1, <2>2, <2>3, <2>4
<1> QED BY <1>2, <1>4, <1>5, <1>7, <1>8 DEF m

(***************************************************************************)
(* A branch cut off at a height is the branch to that height.              *)
(***************************************************************************)
LEMMA BranchPrefix ==
  ASSUME NEW nodes, NEW h \in Hash, NEW k \in 0 .. Len(h), BlocksTo(nodes, h) \in Seq(Block)
  PROVE  BlocksTo(nodes, SubSeq(h, 1, k)) = SubSeq(BlocksTo(nodes, h), 1, k)
<1> DEFINE p == BlocksTo(nodes, h)
           g == SubSeq(h, 1, k)
           q == SubSeq(p, 1, k)
<1>1. Len(h) \in Nat /\ k \in Nat /\ k <= Len(h) BY DEF Hash
<1>2. Len(g) = k /\ \A j \in 1 .. k : SubSeq(g, 1, j) = SubSeq(h, 1, j) BY Prefix
<1>3. Len(p) = Len(h) /\ \A j \in 1 .. Len(h) : p[j] = nodes[SubSeq(h, 1, j)] BY <1>1 DEF BlocksTo
<1> HIDE DEF p, g
<1>4. BlocksTo(nodes, g) = [j \in 1 .. k |-> nodes[SubSeq(h, 1, j)]]
  BY <1>2 DEF BlocksTo
<1>5. q = [j \in 1 .. k |-> p[j]] BY <1>1, <1>3 DEF p
<1>6. \A j \in 1 .. k : j \in 1 .. Len(h) BY <1>1
<1> QED BY <1>3, <1>4, <1>5, <1>6 DEF g, p

(***************************************************************************)
(* The best branch, and the branch that a rollback leaves of it.           *)
(***************************************************************************)
LEMMA RolledBack ==
  ASSUME Ordered(Hash), NEW bs \in Seq(Block), NEW r \in Nat
  PROVE  /\ CanonicalBlocks(bs, 0) = BlocksTo(CalculateDepths(bs), BestLeafHash(bs))
         /\ BestHeight(bs) \in Nat /\ Len(CanonicalBlocks(bs, 0)) = BestHeight(bs)
         /\ CanonicalBlocks(bs, r) = SubSeq(CanonicalBlocks(bs, 0), 1,
                                            IF BestHeight(bs) <= r THEN 0 ELSE BestHeight(bs) - r)
<1> DEFINE h == BestLeafHash(bs)
           nodes == CalculateDepths(bs)
           n == Len(h)
<1>1. h \in Hash /\ h \in Attached(bs) \cup {GenesisHash} BY BestLeaf
<1>2. BlocksTo(nodes, h) \in Seq(Block) /\ Len(BlocksTo(nodes, h)) = n BY <1>1, BranchPath
<1>3. CanonicalBlocks(bs, 0) = BlocksTo(nodes, SubSeq(h, 1, n - 0))
  BY DEF CanonicalBlocks, BestLeafHash
<1>4. CanonicalBlocks(bs, r) = BlocksTo(nodes, SubSeq(h, 1, n - r))
  BY DEF CanonicalBlocks, BestLeafHash
<1>5. BestHeight(bs) = n /\ n \in Nat BY <1>1 DEF BestHeight, Hash
<1> HIDE DEF h, nodes, n
<1>6. n = Len(h) /\ n - 0 = n BY <1>5 DEF n
<1>7. CanonicalBlocks(bs, 0) = BlocksTo(nodes, h)
  <2>1. Len(h) \in 0 .. Len(h) BY <1>5, <1>6
  <2>2. SubSeq(h, 1, Len(h)) = h BY <1>1, <2>1, Prefix
  <2> QED BY <1>3, <1>6, <2>2
<1>8. CASE n <= r
  <2>1. SubSeq(h, 1, n - r) = << >> BY <1>1, <1>5, <1>8 DEF Hash
  <2>2. SubSeq(h, 1, 0) = << >> BY <1>1 DEF Hash
  <2>3. BlocksTo(nodes, SubSeq(h, 1, 0)) = SubSeq(BlocksTo(nodes, h), 1, 0)
    BY <1>1, <1>2, <1>5, <1>6, BranchPrefix
  <2> QED BY <1>2, <1>4, <1>5, <1>7, <1>8, <2>1, <2>2, <2>3 DEF h, nodes
<1>9. CASE ~(n <= r)
  <2>1. n - r \in 0 .. Len(h) BY <1>5, <1>6, <1>9
  <2>2. BlocksTo(nodes, SubSeq(h, 1, n - r)) = SubSeq(BlocksTo(nodes, h), 1, n - r)
    BY <1>1, <1>2, <2>1, BranchPrefix
  <2> QED BY <1>2, <1>4, <1>5, <1>7, <1>9, <2>2 DEF h, nodes
<1> QED BY <1>8, <1>9

(***************************************************************************)
(* Without equivocation the best branch replays without a refusal.         *)
(***************************************************************************)
LEMMA BestKept ==
  ASSUME Ordered(Hash), blocks \in Seq(Block), Passed, NoEquivocation(blocks)
  PROVE  CanonicalBlocks(blocks, 0) \in Seq(Block) /\ Kept(CanonicalBlocks(blocks, 0))
<1> DEFINE h == BestLeafHash(blocks)
           nodes == CalculateDepths(blocks)
           best == BlocksTo(nodes, h)
<1>1. h \in Hash /\ h \in Attached(blocks) \cup {GenesisHash} BY BestLeaf
<1>2. /\ best \in Seq(Block) /\ Len(best) = Len(h)
      /\ \A i \in 1 .. Len(h) : best[i] \in Range(blocks) /\ GetBlockHash(best[i]) = SubSeq(h, 1, i)
  BY <1>1, BranchPath
<1>3. CanonicalBlocks(blocks, 0) = best BY RolledBack
<1>4. ASSUME NEW i \in 1 .. Len(h)
      PROVE  AllAccepted(MarkValidator(BuildLedgerFromBlocks(SubSeq(best, 1, i - 1)), best[i].miner),
                         best[i].txs)
  <2> DEFINE b == best[i]
  <2>1. b \in Range(blocks) /\ b \in Block /\ GetBlockHash(b) = SubSeq(h, 1, i) BY <1>2
  <2>2. Len(h) \in Nat /\ i \in 0 .. Len(h) /\ i - 1 \in 0 .. Len(h) /\ i - 1 \in 0 .. i BY <1>1 DEF Hash
  <2>3. Len(SubSeq(h, 1, i)) = i /\ SubSeq(SubSeq(h, 1, i), 1, i - 1) = SubSeq(h, 1, i - 1)
    BY <1>1, <2>2, Prefix
  <2> HIDE DEF b, h, nodes
  <2>4. b.parent = SubSeq(h, 1, i - 1)
    <3>1. b.parent \in Hash /\ i = Len(b.parent) + 1 /\ SubSeq(SubSeq(h, 1, i), 1, Len(b.parent)) = b.parent
      BY <2>1, <2>3, BlockHash
    <3>2. Len(b.parent) = i - 1 BY <3>1 DEF Hash
    <3> QED BY <2>3, <3>1, <3>2
  <2>5. BlocksTo(nodes, b.parent) = SubSeq(best, 1, i - 1) BY <1>1, <1>2, <2>2, <2>4, BranchPrefix
  <2>6. AllAccepted(MarkValidator(BuildLedgerAtHash(nodes, b.parent), b.miner), b.txs)
    BY <2>1, StoredAccepted DEF nodes
  <2> HIDE DEF best
  <2>7. BuildLedgerAtHash(nodes, b.parent) = BuildLedgerFromBlocks(SubSeq(best, 1, i - 1))
    BY <2>5 DEF BuildLedgerAtHash
  <2> QED BY <2>6, <2>7 DEF b
<1> HIDE DEF best
<1> QED BY <1>2, <1>3, <1>4 DEF Kept

Contents(best, k) == UNION {Range(best[i].txs) : i \in 1 .. k}

Earned(best) == [i \in DOMAIN best |-> MinerReward + Minted(best[i])]

(***************************************************************************)
(* What a block mints, as a sum.                                           *)
(***************************************************************************)
LEMMA MintedIs ==
  ASSUME NEW b \in Block PROVE Minted(b) = Sum(Gains(b.txs), DOMAIN b.txs)
<1> DEFINE D == DOMAIN b.txs
           h == Gains(b.txs)
<1>1. IsFiniteSet(D)
  <2>1. b.txs \in Seq(Tx) BY DEF Block
  <2>2. D = 1 .. Len(b.txs) /\ Len(b.txs) \in Nat BY <2>1
  <2> QED BY <2>2, FS_Interval
<1>2. \A i \in D : h[i] = IF b.txs[i].kind = "mint" THEN b.txs[i].amount ELSE 0 BY DEF Gains, Created
<1>3. Minted(b) = MapThenSumSet(LAMBDA i : IF b.txs[i].kind = "mint" THEN b.txs[i].amount ELSE 0, D)
  BY DEF Minted
<1> HIDE DEF h, D
<1>4. ASSUME NEW g
      PROVE  Adds(h, D, g) <=>
               g = [d \in SUBSET D |->
                      IF d = {} THEN 0
                      ELSE (IF b.txs[Some(d)].kind = "mint" THEN b.txs[Some(d)].amount ELSE 0)
                             + g[d \ {Some(d)}]]
  <2>1. \A d \in SUBSET D : d # {} =>
          h[Some(d)] = IF b.txs[Some(d)].kind = "mint" THEN b.txs[Some(d)].amount ELSE 0
    BY <1>2 DEF Some
  <2> QED BY <2>1 DEF Adds
<1>5. \E g : Adds(h, D, g) BY <1>1, AddsExists
<1>6. PICK g : /\ g = [d \in SUBSET D |->
                         IF d = {} THEN 0
                         ELSE (IF b.txs[Some(d)].kind = "mint" THEN b.txs[Some(d)].amount ELSE 0)
                                + g[d \ {Some(d)}]]
               /\ Minted(b) = g[D]
  <2>1. \E g : g = [d \in SUBSET D |->
                      IF d = {} THEN 0
                      ELSE (IF b.txs[Some(d)].kind = "mint" THEN b.txs[Some(d)].amount ELSE 0)
                             + g[d \ {Some(d)}]]
    BY <1>4, <1>5
  <2> QED BY <1>3, <2>1 DEF MapThenSumSet, MapThenFoldSet, Some
<1>7. Adds(h, D, g) BY <1>4, <1>6
<1>8. Sum(h, D) = g[D] BY <1>1, <1>7, SumIs
<1> QED BY <1>6, <1>8 DEF h, D

(***************************************************************************)
(* What a branch issues, as a sum.                                         *)
(***************************************************************************)
LEMMA IssuedIs ==
  ASSUME NEW best \in Seq(Block)
  PROVE  Issued(best) = Sum(Genesis, Account) + Sum(Earned(best), 1 .. Len(best))
<1> DEFINE D == DOMAIN best
           h == Earned(best)
           T == MapThenSumSet(LAMBDA i : MinerReward + Minted(best[i]), D)
<1>1. IsFiniteSet(D) /\ D = 1 .. Len(best)
  <2>1. D = 1 .. Len(best) /\ Len(best) \in Nat OBVIOUS
  <2> QED BY <2>1, FS_Interval
<1>2. \A i \in D : h[i] = MinerReward + Minted(best[i]) BY DEF Earned
<1>3. Issued(best) = Sum(Genesis, Account) + T BY DEF Issued, Sum
<1> HIDE DEF h, D
<1>4. ASSUME NEW g
      PROVE  Adds(h, D, g) <=>
               g = [d \in SUBSET D |->
                      IF d = {} THEN 0 ELSE (MinerReward + Minted(best[Some(d)])) + g[d \ {Some(d)}]]
  <2>1. \A d \in SUBSET D : d # {} => h[Some(d)] = MinerReward + Minted(best[Some(d)])
    BY <1>2 DEF Some
  <2> QED BY <2>1 DEF Adds
<1>5. \E g : Adds(h, D, g) BY <1>1, AddsExists
<1>6. PICK g : /\ g = [d \in SUBSET D |->
                         IF d = {} THEN 0 ELSE (MinerReward + Minted(best[Some(d)])) + g[d \ {Some(d)}]]
               /\ T = g[D]
  <2>1. \E g : g = [d \in SUBSET D |->
                      IF d = {} THEN 0 ELSE (MinerReward + Minted(best[Some(d)])) + g[d \ {Some(d)}]]
    BY <1>4, <1>5
  <2> QED BY <2>1 DEF MapThenSumSet, MapThenFoldSet, Some
<1>7. Adds(h, D, g) BY <1>4, <1>6
<1>8. Sum(h, D) = g[D] BY <1>1, <1>7, SumIs
<1> HIDE DEF T
<1> QED BY <1>1, <1>3, <1>6, <1>8 DEF h

(***************************************************************************)
(* The supply of the genesis ledger.                                       *)
(***************************************************************************)
LEMMA GenesisSupply ==
  ASSUME Finite
  PROVE  SupplyOf(InitializeFromGenesis, PKN) = Sum(Genesis, Account) /\ Sum(Genesis, Account) \in Int
<1> DEFINE l == InitializeFromGenesis
<1>1. IsFiniteSet(Account) /\ IsFiniteSet(Asset) /\ IsFiniteSet(PoolId) BY FinitePools DEF Finite
<1>2. \A a \in Account : l.bal[PKN][a] = Genesis[a] /\ Genesis[a] \in Int
  BY AccountAssumption, AmountAssumption DEF InitializeFromGenesis
<1>3. \A p \in PoolId : Holdings(l.pools, PKN)[p] = 0 BY DEF InitializeFromGenesis, Holdings, PoolHolding
<1> HIDE DEF l
<1>4. Total(l.bal, PKN) = Sum(Genesis, Account) BY <1>1, <1>2, SumSame DEF Total
<1>5. Sum(Genesis, Account) \in Int BY <1>1, <1>2, SumInteger
<1>6. Pooled(l.pools, PKN) = 0
  <2>1. Sum(Holdings(l.pools, PKN), PoolId) = 0 * Cardinality(PoolId) BY <1>1, <1>3, SumConstant
  <2>2. Cardinality(PoolId) \in Nat BY <1>1, FS_CardinalityType
  <2> QED BY <2>1, <2>2 DEF Pooled
<1>7. SupplyOf(l, PKN) = Total(l.bal, PKN) + Pooled(l.pools, PKN) BY <1>1, SupplyIs
<1> QED BY <1>4, <1>5, <1>6, <1>7 DEF l

(***************************************************************************)
(* After k blocks of a branch that replays without a refusal, the ledger   *)
(* is sound, has recorded the transactions of these blocks and holds what  *)
(* they issued.                                                            *)
(***************************************************************************)
Replays(best, k, l) ==
  /\ Sound(l)
  /\ l.history = Contents(best, k)
  /\ Finite /\ PairedSwaps(best) =>
       SupplyOf(l, PKN) = Sum(Genesis, Account) + Sum(Earned(best), 1 .. k)

(***************************************************************************)
(* What the blocks of a branch earn are numbers.                           *)
(***************************************************************************)
LEMMA EarnedIs ==
  ASSUME NEW best \in Seq(Block), NEW i \in 1 .. Len(best)
  PROVE  /\ best[i] \in Block /\ i \in DOMAIN best
         /\ Earned(best)[i] = MinerReward + Sum(Gains(best[i].txs), DOMAIN best[i].txs)
         /\ Earned(best)[i] \in Int
<1> DEFINE b == best[i]
<1>1. b \in Block /\ i \in DOMAIN best OBVIOUS
<1>2. Earned(best)[i] = MinerReward + Minted(b) BY <1>1 DEF Earned
<1> HIDE DEF b
<1>3. Minted(b) = Sum(Gains(b.txs), DOMAIN b.txs) BY <1>1, MintedIs
<1>4. b.txs \in Seq(Tx) BY <1>1 DEF Block
<1>5. Sum(Gains(b.txs), DOMAIN b.txs) \in Int
  <2>1. DOMAIN b.txs = 1 .. Len(b.txs) /\ Len(b.txs) \in Nat BY <1>4
  <2>2. IsFiniteSet(DOMAIN b.txs) BY <2>1, FS_Interval
  <2>3. \A j \in DOMAIN b.txs : b.txs[j] \in Tx BY <1>4
  <2>4. \A j \in DOMAIN b.txs : b.txs[j].amount \in Int BY <2>3, TxFields
  <2>5. \A j \in DOMAIN b.txs : Gains(b.txs)[j] \in Int BY <2>4 DEF Gains, Created
  <2> QED BY <2>2, <2>5, SumInteger
<1>6. MinerReward \in Int BY AmountAssumption
<1> QED BY <1>1, <1>2, <1>3, <1>5, <1>6 DEF b

(***************************************************************************)
(* One more block.                                                         *)
(***************************************************************************)
LEMMA BranchStep ==
  ASSUME NEW best \in Seq(Block), Kept(best), NEW k \in Nat, k + 1 <= Len(best),
         NEW l, l = BuildLedgerFromBlocks(SubSeq(best, 1, k)), Replays(best, k, l)
  PROVE  Replays(best, k + 1, ReplayBlock(l, best[k + 1]))
<1> DEFINE b == best[k + 1]
           m == ReplayBlock(l, b)
<1>1. Len(best) \in Nat /\ k + 1 \in 1 .. Len(best) /\ k + 1 - 1 = k OBVIOUS
<1>2. /\ b \in Block /\ k + 1 \in DOMAIN best
      /\ Earned(best)[k + 1] = MinerReward + Sum(Gains(b.txs), DOMAIN b.txs)
  BY <1>1, EarnedIs
<1>3. AllAccepted(MarkValidator(l, b.miner), b.txs) BY <1>1 DEF Kept
<1>4. Sound(l) BY DEF Replays
<1> HIDE DEF b
<1>5. /\ Sound(m) /\ m.history = l.history \cup Range(b.txs)
      /\ Finite /\ (\A j \in DOMAIN b.txs : Paired(b.txs[j])) =>
           SupplyOf(m, PKN) = SupplyOf(l, PKN) + (MinerReward + Sum(Gains(b.txs), DOMAIN b.txs))
  BY <1>2, <1>3, <1>4, BlockReplayed
<1> HIDE DEF m
<1>6. m.history = Contents(best, k + 1)
  <2>1. 1 .. (k + 1) = (1 .. k) \cup {k + 1} OBVIOUS
  <2>2. Contents(best, k + 1) = Contents(best, k) \cup Range(best[k + 1].txs) BY <2>1 DEF Contents
  <2> QED BY <1>5, <2>2 DEF Replays, b
<1>7. ASSUME Finite, PairedSwaps(best)
      PROVE  SupplyOf(m, PKN) = Sum(Genesis, Account) + Sum(Earned(best), 1 .. (k + 1))
  <2>1. \A j \in DOMAIN b.txs : Paired(b.txs[j]) BY <1>2, <1>7 DEF PairedSwaps, b
  <2>2. SupplyOf(m, PKN) = SupplyOf(l, PKN) + Earned(best)[k + 1] BY <1>2, <1>5, <1>7, <2>1
  <2>3. SupplyOf(l, PKN) = Sum(Genesis, Account) + Sum(Earned(best), 1 .. k) BY <1>7 DEF Replays
  <2>4. \A i \in 1 .. Len(best) : Earned(best)[i] \in Int BY EarnedIs
  <2>5. /\ Sum(Earned(best), 1 .. k) \in Int
        /\ Sum(Earned(best), 1 .. (k + 1)) = Sum(Earned(best), 1 .. k) + Earned(best)[k + 1]
    BY <1>1, <2>4, SumNext
  <2>6. Earned(best)[k + 1] \in Int BY <1>1, <2>4
  <2>7. Sum(Genesis, Account) \in Int BY <1>7, GenesisSupply
  <2> QED BY <2>2, <2>3, <2>5, <2>6, <2>7
<1> QED BY <1>5, <1>6, <1>7 DEF Replays, m, b

(***************************************************************************)
(* Every prefix of a branch that replays without a refusal.                *)
(***************************************************************************)
LEMMA BranchReplayed ==
  ASSUME NEW best \in Seq(Block), Kept(best)
  PROVE  \A k \in 0 .. Len(best) : Replays(best, k, BuildLedgerFromBlocks(SubSeq(best, 1, k)))
<1> DEFINE L(k) == BuildLedgerFromBlocks(SubSeq(best, 1, k))
           S == {k \in Nat : k <= Len(best) => Replays(best, k, L(k))}
<1>1. Len(best) \in Nat OBVIOUS
<1>2. /\ L(0) = InitializeFromGenesis
      /\ \A k \in 1 .. Len(best) : L(k) = ReplayBlock(L(k - 1), best[k])
  BY BlockFold
<1>3. 0 \in S
  <2>1. Sound(InitializeFromGenesis) BY GenesisSound
  <2>2. 1 .. 0 = {} OBVIOUS
  <2>3. Contents(best, 0) = {} BY <2>2 DEF Contents
  <2>4. InitializeFromGenesis.history = {} BY DEF InitializeFromGenesis
  <2>5. Sum(Earned(best), 1 .. 0) = 0 BY <2>2, SumEmpty
  <2>6. Finite => SupplyOf(InitializeFromGenesis, PKN) = Sum(Genesis, Account) + Sum(Earned(best), 1 .. 0)
    BY <2>5, GenesisSupply
  <2>7. Replays(best, 0, InitializeFromGenesis) BY <2>1, <2>3, <2>4, <2>6 DEF Replays
  <2> HIDE DEF L
  <2> QED BY <1>2, <2>7
<1>4. ASSUME NEW k \in S PROVE k + 1 \in S
  <2> SUFFICES ASSUME k + 1 <= Len(best) PROVE Replays(best, k + 1, L(k + 1)) OBVIOUS
  <2>1. k \in Nat /\ k + 1 \in 1 .. Len(best) /\ k + 1 - 1 = k /\ k <= Len(best) BY <1>1
  <2>2. Replays(best, k, L(k)) BY <2>1
  <2> HIDE DEF S
  <2>3. Replays(best, k + 1, ReplayBlock(L(k), best[k + 1])) BY <2>1, <2>2, BranchStep
  <2>4. L(k + 1) = ReplayBlock(L(k), best[k + 1])
    <3> HIDE DEF L
    <3> QED BY <1>2, <2>1
  <2> QED BY <2>3, <2>4
<1>5. S \in SUBSET Nat OBVIOUS
<1> HIDE DEF S
<1>6. \A k \in Nat : k \in S BY <1>3, <1>4, <1>5, Induction
<1> QED BY <1>6 DEF S

(***************************************************************************)
(* What a prefix of a branch issues.                                       *)
(***************************************************************************)
LEMMA IssuedByPrefix ==
  ASSUME NEW best \in Seq(Block), NEW k \in 0 .. Len(best)
  PROVE  Issued(SubSeq(best, 1, k)) = Sum(Genesis, Account) + Sum(Earned(best), 1 .. k)
<1> DEFINE p == SubSeq(best, 1, k)
<1>1. /\ p \in Seq(Block) /\ Len(p) = k /\ k \in Nat /\ DOMAIN p = 1 .. k
      /\ \A i \in 1 .. k : p[i] = best[i] /\ i \in DOMAIN best
  OBVIOUS
<1> HIDE DEF p
<1>2. \A i \in 1 .. k : Earned(p)[i] = Earned(best)[i] BY <1>1 DEF Earned
<1>3. IsFiniteSet(1 .. k) BY <1>1, FS_Interval
<1>4. Sum(Earned(p), 1 .. k) = Sum(Earned(best), 1 .. k) BY <1>2, <1>3, SumSame
<1>5. Issued(p) = Sum(Genesis, Account) + Sum(Earned(p), 1 .. k) BY <1>1, IssuedIs
<1> QED BY <1>4, <1>5 DEF p

(***************************************************************************)
(* PKN comes from genesis, from block rewards and from mint transactions   *)
(* only, for every tree and every branch that wins: what accounts and      *)
(* pools hold after the replay of the best branch is what its blocks       *)
(* issued.                                                                 *)
(***************************************************************************)
THEOREM SupplyComesFromBlocks ==
  ASSUME Ordered(Hash), IsFiniteSet(Account), IsFiniteSet(Asset)
  PROVE  Spec => []SupplyFromBlocks
<1>1. Typed /\ Passed => SupplyFromBlocks
  <2> DEFINE best == CanonicalBlocks(blocks, 0)
  <2> SUFFICES ASSUME blocks \in Seq(Block), Passed, NoEquivocation(blocks), PairedSwaps(best)
               PROVE  SupplyOf(LedgerFromBlockchain(blocks, 0), PKN) = Issued(best)
    BY DEF Typed, SupplyFromBlocks
  <2>1. best \in Seq(Block) /\ Kept(best) BY BestKept
  <2>2. LedgerFromBlockchain(blocks, 0) = BuildLedgerFromBlocks(best) BY DEF LedgerFromBlockchain
  <2> HIDE DEF best
  <2>3. Len(best) \in 0 .. Len(best) /\ SubSeq(best, 1, Len(best)) = best BY <2>1, FoldStart
  <2>4. Replays(best, Len(best), BuildLedgerFromBlocks(best)) BY <2>1, <2>3, BranchReplayed
  <2>5. Issued(best) = Sum(Genesis, Account) + Sum(Earned(best), 1 .. Len(best)) BY <2>1, IssuedIs
  <2> QED BY <2>2, <2>4, <2>5 DEF Replays, Finite
<1> QED BY <1>1, BlocksTyped, BlocksPassed, PTL
-----------------------------------------------------------------------------
(* The explorer index. *)

Entry(best, i, j) == ExplorerTx(best[i], i, j, i <= FinalizedHeight(Len(best)))

Listing(best, i) == [j \in DOMAIN best[i].txs |-> Entry(best, i, j)]

Entries(best, k) == UNION {Range(Listing(best, i)) : i \in 1 .. k}

(***************************************************************************)
(* The listings of the blocks are put one behind the other.                *)
(***************************************************************************)
Indexes(best, g) ==
  g[0] = << >> /\ \A k \in 1 .. Len(best) : g[k] = g[k - 1] \o Listing(best, k)

(***************************************************************************)
(* The iteration that IndexedTxs stands for.                               *)
(***************************************************************************)
IndexIterates(best, s, f) ==
  f = [d \in SUBSET DOMAIN s |->
         IF d = {} THEN << >>
         ELSE f[d \ {Max(d)}] \o
              [i \in DOMAIN best[s[Max(d)]].txs |->
                 ExplorerTx(best[s[Max(d)]], s[Max(d)], i, s[Max(d)] <= FinalizedHeight(Len(best)))]]

(***************************************************************************)
(* IndexedTxs lists block after block.                                     *)
(***************************************************************************)
LEMMA IndexWay ==
  ASSUME NEW best \in Seq(Block)
  PROVE  \E g : Indexes(best, g) /\ IndexedTxs(best) = g[Len(best)]
<1> DEFINE n == Len(best)
           s == [i \in DOMAIN best |-> i]
           F == [i \in 1 .. n |-> Listing(best, i)]
           op == <<"glue", F>>
<1>1. n \in Nat /\ DOMAIN best = 1 .. n OBVIOUS
<1>2. s \in Seq(Nat) /\ Len(s) = n /\ DOMAIN s = 1 .. n /\ \A i \in 1 .. n : s[i] = i BY <1>1
<1>3. \A i \in 1 .. n : F[i] = Listing(best, i) OBVIOUS
<1>4. \A r, e : Act(op, r, e) = r \o F[e] BY DEF Act
<1>5. IndexedTxs(best) = FoldLeft(LAMBDA acc, height : acc \o
            [i \in DOMAIN best[height].txs |->
               ExplorerTx(best[height], height, i, height <= FinalizedHeight(Len(best)))], << >>, s)
  BY DEF IndexedTxs, FoldLeftDomain
<1> HIDE DEF n, s, F, op
<1>6. \E f : Iterates(op, << >>, s, DOMAIN s, f)
  <2>1. \E f : Iterates(op, << >>, s, 1 .. n, f) BY <1>1, IterateExists
  <2> QED BY <1>2, <2>1, Zenon
<1>7. ASSUME NEW f PROVE Iterates(op, << >>, s, DOMAIN s, f) <=> IndexIterates(best, s, f)
  <2>1. ASSUME NEW d \in SUBSET DOMAIN s, d # {} PROVE Max(d) \in 1 .. n
    <3>1. d \in SUBSET Nat /\ \A x \in d : x <= n BY <1>1, <1>2
    <3>2. Max(d) \in d BY <1>1, <2>1, <3>1, MaxOfBounded
    <3> QED BY <1>2, <3>2
  <2>2. ASSUME NEW d \in SUBSET DOMAIN s, d # {}
        PROVE  Act(op, f[d \ {Max(d)}], s[Max(d)]) =
                 f[d \ {Max(d)}] \o
                 [i \in DOMAIN best[s[Max(d)]].txs |->
                    ExplorerTx(best[s[Max(d)]], s[Max(d)], i, s[Max(d)] <= FinalizedHeight(Len(best)))]
    <3>1. PICK m : m = Max(d) OBVIOUS
    <3>2. m \in 1 .. n /\ s[m] = m BY <1>2, <2>1, <2>2, <3>1
    <3>3. F[m] = [i \in DOMAIN best[m].txs |-> ExplorerTx(best[m], m, i, m <= FinalizedHeight(Len(best)))]
      BY <1>3, <3>2 DEF Listing, Entry
    <3>4. Act(op, f[d \ {m}], m) = f[d \ {m}] \o F[m] BY <1>4
    <3> QED BY <3>1, <3>2, <3>3, <3>4, Zenon
  <2> QED BY <2>2 DEF Iterates, IndexIterates
<1>8. \E f : IndexIterates(best, s, f) BY <1>6, <1>7
<1>9. PICK f : IndexIterates(best, s, f) /\ IndexedTxs(best) = f[DOMAIN s]
  BY <1>5, <1>8 DEF FoldLeft, MapThenFoldSet, IndexIterates
<1>10. Iterates(op, << >>, s, DOMAIN s, f) BY <1>7, <1>9
<1>11. PICK g : Way(op, << >>, s, Len(s), g) /\ f[DOMAIN s] = g[Len(s)] BY <1>2, <1>10, IterateWay
<1>12. Indexes(best, g)
  <2>1. g[0] = << >> /\ \A k \in 1 .. n : g[k] = Act(op, g[k - 1], s[k]) BY <1>2, <1>11 DEF Way
  <2>2. ASSUME NEW k \in 1 .. n PROVE g[k] = g[k - 1] \o Listing(best, k)
    <3>1. g[k] = Act(op, g[k - 1], k) BY <1>2, <2>1, Zenon
    <3> QED BY <1>3, <1>4, <3>1, Zenon
  <2> QED BY <2>1, <2>2 DEF Indexes, n
<1> QED BY <1>2, <1>9, <1>11, <1>12 DEF n

Joined(s, t, A, B) == s \o t \in Seq(A \cup B) /\ Range(s \o t) = Range(s) \cup Range(t)

(***************************************************************************)
(* The range of two sequences put together.                                *)
(***************************************************************************)
LEMMA RangeJoined ==
  ASSUME NEW A, NEW B, NEW s \in Seq(A), NEW t \in Seq(B)
  PROVE  Joined(s, t, A, B)
<1>1. s \in Seq(A \cup B) /\ t \in Seq(A \cup B)
  <2>1. A \subseteq A \cup B /\ B \subseteq A \cup B OBVIOUS
  <2> QED BY <2>1, SeqMonotonic
<1>2. s \o t \in Seq(A \cup B) BY <1>1, ConcatProperties
<1>3. Range(s \o t) = Range(s) \cup Range(t) BY <1>1, RangeConcatenation
<1> QED BY <1>2, <1>3 DEF Joined

(***************************************************************************)
(* The index lists the transactions of the best branch and no others.      *)
(***************************************************************************)
LEMMA IndexRange ==
  ASSUME NEW best \in Seq(Block)
  PROVE  /\ IndexedTxs(best) \in Seq(Entries(best, Len(best)))
         /\ Range(IndexedTxs(best)) = Entries(best, Len(best))
<1> DEFINE n == Len(best)
<1>1. n \in Nat OBVIOUS
<1>2. PICK g : Indexes(best, g) /\ IndexedTxs(best) = g[n] BY IndexWay
<1>3. g[0] = << >> /\ \A k \in 1 .. n : g[k] = g[k - 1] \o Listing(best, k) BY <1>2 DEF Indexes
<1>4. ASSUME NEW k \in 1 .. n
      PROVE  Listing(best, k) \in Seq(Range(Listing(best, k)))
  <2>1. best[k] \in Block OBVIOUS
  <2>2. best[k].txs \in Seq(Tx) BY <2>1 DEF Block
  <2>3. PICK m \in Nat : DOMAIN best[k].txs = 1 .. m BY <2>2
  <2>4. DOMAIN Listing(best, k) = 1 .. m BY <2>3 DEF Listing
  <2>5. Listing(best, k) = [j \in 1 .. m |-> Listing(best, k)[j]] BY <2>3 DEF Listing
  <2>6. \A j \in 1 .. m : Listing(best, k)[j] \in Range(Listing(best, k)) BY <2>4 DEF Range
  <2> QED BY <2>5, <2>6
<1> HIDE DEF n
<1> DEFINE S == {k \in Nat : k <= n => g[k] \in Seq(Entries(best, k)) /\ Range(g[k]) = Entries(best, k)}
<1>5. 0 \in S
  <2>1. 1 .. 0 = {} OBVIOUS
  <2>2. Entries(best, 0) = {} BY <2>1 DEF Entries
  <2>3. Range(<< >>) = {} BY DEF Range
  <2>4. << >> \in Seq(Entries(best, 0)) OBVIOUS
  <2>5. g[0] \in Seq(Entries(best, 0)) /\ Range(g[0]) = Entries(best, 0) BY <1>3, <2>2, <2>3, <2>4, Zenon
  <2> QED BY <2>5
<1>6. ASSUME NEW k \in S PROVE k + 1 \in S
  <2> SUFFICES ASSUME k + 1 <= n
               PROVE  g[k + 1] \in Seq(Entries(best, k + 1)) /\ Range(g[k + 1]) = Entries(best, k + 1)
    OBVIOUS
  <2>1. k \in Nat /\ k + 1 \in 1 .. n /\ k + 1 - 1 = k /\ k <= n BY <1>1
  <2>2. g[k] \in Seq(Entries(best, k)) /\ Range(g[k]) = Entries(best, k) BY <2>1
  <2> HIDE DEF S
  <2>3. PICK m \in 1 .. n : m = k + 1 /\ m - 1 = k BY <2>1
  <2>4. PICK t : t = Listing(best, m) OBVIOUS
  <2>5. PICK u : u = g[k] OBVIOUS
  <2>6. g[m] = u \o t BY <1>3, <2>3, <2>4, <2>5, Zenon
  <2>7. t \in Seq(Range(t)) BY <1>4, <2>3, <2>4, Zenon
  <2>8. u \in Seq(Entries(best, k)) BY <2>2, <2>5, Zenon
  <2>9. u \o t \in Seq(Entries(best, k) \cup Range(t)) /\ Range(u \o t) = Range(u) \cup Range(t)
    <3>1. Joined(u, t, Entries(best, k), Range(t)) BY <2>7, <2>8, RangeJoined
    <3> QED BY <3>1 DEF Joined
  <2>10. 1 .. m = (1 .. k) \cup {m} BY <2>1, <2>3
  <2>11. Entries(best, m) = Entries(best, k) \cup Range(t) BY <2>4, <2>10 DEF Entries
  <2>12. g[m] \in Seq(Entries(best, m)) /\ Range(g[m]) = Entries(best, m)
    BY <2>2, <2>5, <2>6, <2>9, <2>11, Zenon
  <2> QED BY <2>3, <2>12
<1>7. S \in SUBSET Nat OBVIOUS
<1> HIDE DEF S
<1>8. n \in S BY <1>1, <1>5, <1>6, <1>7, Induction
<1> QED BY <1>1, <1>2, <1>8 DEF S, n

(***************************************************************************)
(* An entry of the index.                                                  *)
(***************************************************************************)
LEMMA IndexEntry ==
  ASSUME NEW best \in Seq(Block)
  PROVE  /\ \A i, j : /\ Entry(best, i, j).tx = best[i].txs[j]
                      /\ Entry(best, i, j).finalized <=> i <= FinalizedHeight(Len(best))
                      /\ Entry(best, i, j).blockNumber = i /\ Entry(best, i, j).transactionIndex = j
         /\ \A e \in Range(IndexedTxs(best)) :
              \E i \in 1 .. Len(best) : \E j \in DOMAIN best[i].txs : e = Entry(best, i, j)
         /\ \A i \in 1 .. Len(best) : \A j \in DOMAIN best[i].txs :
              Entry(best, i, j) \in Range(IndexedTxs(best))
<1>1. \A i, j : /\ Entry(best, i, j).tx = best[i].txs[j]
                /\ Entry(best, i, j).finalized <=> i <= FinalizedHeight(Len(best))
                /\ Entry(best, i, j).blockNumber = i /\ Entry(best, i, j).transactionIndex = j
  BY DEF Entry, ExplorerTx
<1>2. \A i : /\ DOMAIN Listing(best, i) = DOMAIN best[i].txs
             /\ \A j \in DOMAIN best[i].txs : Listing(best, i)[j] = Entry(best, i, j)
  BY DEF Listing
<1>3. Range(IndexedTxs(best)) = Entries(best, Len(best)) BY IndexRange
<1>4. ASSUME NEW e \in Entries(best, Len(best))
      PROVE  \E i \in 1 .. Len(best) : \E j \in DOMAIN best[i].txs : e = Entry(best, i, j)
  <2>1. PICK i \in 1 .. Len(best) : e \in Range(Listing(best, i)) BY DEF Entries
  <2>2. PICK j \in DOMAIN best[i].txs : e = Entry(best, i, j) BY <1>2, <2>1 DEF Range
  <2> QED BY <2>1, <2>2
<1>5. ASSUME NEW i \in 1 .. Len(best), NEW j \in DOMAIN best[i].txs
      PROVE  Entry(best, i, j) \in Entries(best, Len(best))
  <2>1. Entry(best, i, j) \in Range(Listing(best, i)) BY <1>2 DEF Range
  <2> QED BY <2>1 DEF Entries
<1> QED BY <1>1, <1>3, <1>4, <1>5, Zenon

(***************************************************************************)
(* The height of the blocks that are final.                                *)
(***************************************************************************)
LEMMA FinalHeight ==
  ASSUME NEW n \in Nat
  PROVE  /\ FinalizedHeight(n) = IF n <= FinalityDepth THEN 0 ELSE n - FinalityDepth
         /\ FinalizedHeight(n) \in 0 .. n
<1>1. FinalityDepth \in Nat BY ExplorerAssumption
<1>2. n - FinalityDepth \in Int BY <1>1
<1>3. FinalizedHeight(n) = IF 0 <= n - FinalityDepth THEN n - FinalityDepth ELSE 0
  BY <1>2, MaxMinOfTwo DEF FinalizedHeight
<1> QED BY <1>1, <1>3

(***************************************************************************)
(* The index marks as final what the committed ledger recorded.            *)
(***************************************************************************)
LEMMA FinalTxs ==
  ASSUME NEW best \in Seq(Block), NEW k, k = FinalizedHeight(Len(best))
  PROVE  {e.tx : e \in {f \in Range(IndexedTxs(best)) : f.finalized}} = Contents(best, k)
<1> DEFINE R == Range(IndexedTxs(best))
           F == {e.tx : e \in {f \in R : f.finalized}}
<1>1. Len(best) \in Nat /\ k \in 0 .. Len(best)
  <2>1. Len(best) \in Nat OBVIOUS
  <2> QED BY <2>1, FinalHeight
<1>2. \A i, j : Entry(best, i, j).tx = best[i].txs[j] /\ (Entry(best, i, j).finalized <=> i <= k)
  BY IndexEntry
<1>3. \A e \in R : \E i \in 1 .. Len(best) : \E j \in DOMAIN best[i].txs : e = Entry(best, i, j)
  BY IndexEntry
<1>4. \A i \in 1 .. Len(best) : \A j \in DOMAIN best[i].txs : Entry(best, i, j) \in R BY IndexEntry
<1> HIDE DEF R
<1>5. ASSUME NEW t \in F PROVE t \in Contents(best, k)
  <2>1. PICK e \in R : e.finalized /\ t = e.tx OBVIOUS
  <2>2. PICK i \in 1 .. Len(best) : \E j \in DOMAIN best[i].txs : e = Entry(best, i, j) BY <1>3
  <2>3. PICK j \in DOMAIN best[i].txs : e = Entry(best, i, j) BY <2>2
  <2>4. i <= k /\ t = best[i].txs[j] BY <1>2, <2>1, <2>3
  <2>5. i \in 1 .. k BY <1>1, <2>4
  <2>6. t \in Range(best[i].txs) BY <2>3, <2>4 DEF Range
  <2> QED BY <2>5, <2>6 DEF Contents
<1>6. ASSUME NEW t \in Contents(best, k) PROVE t \in F
  <2>1. PICK i \in 1 .. k : t \in Range(best[i].txs) BY DEF Contents
  <2>2. PICK j \in DOMAIN best[i].txs : t = best[i].txs[j] BY <2>1 DEF Range
  <2>3. i \in 1 .. Len(best) /\ i <= k BY <1>1
  <2>4. Entry(best, i, j) \in R /\ Entry(best, i, j).finalized /\ Entry(best, i, j).tx = t
    BY <1>2, <1>4, <2>2, <2>3
  <2> QED BY <2>4
<1>7. F = Contents(best, k) BY <1>5, <1>6, Zenon
<1> QED BY <1>7 DEF R

(***************************************************************************)
(* A lookup by identifier finds the transaction of the branch that has it. *)
(***************************************************************************)
LEMMA FoundById ==
  ASSUME NEW bs, NEW best \in Seq(Block), best = CanonicalBlocks(bs, 0),
         NEW i \in 1 .. Len(best), NEW j \in DOMAIN best[i].txs, NEW t, t = best[i].txs[j]
  PROVE  BuildExplorerIndex(bs).txsByHash[t.id].tx = t
<1> DEFINE txs == IndexedTxs(best)
           M == {m \in DOMAIN txs : txs[m].tx.id = t.id}
<1>1. txs \in Seq(Entries(best, Len(best))) BY IndexRange
<1>2. DOMAIN txs = 1 .. Len(txs) /\ Len(txs) \in Nat BY <1>1
<1>3. ASSUME NEW x \in 1 .. Len(best), NEW y \in DOMAIN best[x].txs PROVE best[x].txs[y] \in Tx
  <2>1. best[x] \in Block OBVIOUS
  <2>2. best[x].txs \in Seq(Tx) BY <2>1 DEF Block
  <2> QED BY <2>2
<1>4. \A e \in Range(txs) : e.tx \in Tx BY <1>3, IndexEntry
<1>5. Entry(best, i, j) \in Range(txs) /\ Entry(best, i, j).tx = t BY IndexEntry
<1>6. t \in Tx BY <1>3
<1>7. BuildExplorerIndex(bs).txsByHash[t.id] = txs[Max(M)]
  <2>1. BuildExplorerIndex(bs).txsByHash =
          [id \in {e.tx.id : e \in Range(txs)} |-> txs[Max({m \in DOMAIN txs : txs[m].tx.id = id})]]
    BY DEF BuildExplorerIndex
  <2>2. t.id \in {e.tx.id : e \in Range(txs)}
    <3> HIDE DEF txs
    <3> QED BY <1>5
  <2> HIDE DEF txs
  <2> QED BY <2>1, <2>2
<1> HIDE DEF txs
<1>8. M # {} /\ M \in SUBSET Nat /\ \A m \in M : m <= Len(txs)
  <2>1. PICK m \in DOMAIN txs : txs[m] = Entry(best, i, j) BY <1>5 DEF Range
  <2>2. m \in M BY <1>5, <2>1
  <2>3. \A x \in M : x \in 1 .. Len(txs) BY <1>2
  <2>4. \A x \in M : x \in Nat /\ x <= Len(txs) BY <1>2, <2>3
  <2> QED BY <2>2, <2>4
<1>9. Max(M) \in M BY <1>2, <1>8, MaxOfBounded
<1>10. Max(M) \in DOMAIN txs /\ txs[Max(M)].tx.id = t.id BY <1>9
<1>11. txs[Max(M)].tx \in Tx BY <1>4, <1>10 DEF Range
<1>12. txs[Max(M)].tx = t BY <1>6, <1>10, <1>11, TxAssumption
<1> QED BY <1>7, <1>12

(***************************************************************************)
(* In a sound ledger no account is left out of the supply figures.         *)
(***************************************************************************)
LEMMA PositiveIs ==
  ASSUME IsFiniteSet(Account), NEW l, Sound(l), NEW S \in SUBSET Account
  PROVE  /\ Positive(l, S) = Sum(l.bal[PKN], S)
         /\ \A a \in Account : l.bal[PKN][a] \in Nat
<1> DEFINE h == l.bal[PKN]
<1>1. \A a \in Account : h[a] \in Nat
  BY AccountAssumption DEF Sound, LedgerType, Solvent
<1>2. \A a \in S : h[a] = IF l.bal[PKN][a] > 0 THEN l.bal[PKN][a] ELSE 0 BY <1>1
<1>3. IsFiniteSet(S) BY FS_Subset
<1>4. Positive(l, S) = MapThenSumSet(LAMBDA a : IF l.bal[PKN][a] > 0 THEN l.bal[PKN][a] ELSE 0, S)
  BY DEF Positive
<1> HIDE DEF h
<1>5. ASSUME NEW g
      PROVE  Adds(h, S, g) <=>
               g = [d \in SUBSET S |->
                      IF d = {} THEN 0
                      ELSE (IF l.bal[PKN][Some(d)] > 0 THEN l.bal[PKN][Some(d)] ELSE 0) + g[d \ {Some(d)}]]
  <2>1. \A d \in SUBSET S : d # {} =>
          h[Some(d)] = IF l.bal[PKN][Some(d)] > 0 THEN l.bal[PKN][Some(d)] ELSE 0
    BY <1>2 DEF Some
  <2> QED BY <2>1 DEF Adds
<1>6. \E g : Adds(h, S, g) BY <1>3, AddsExists
<1>7. PICK g : /\ g = [d \in SUBSET S |->
                      IF d = {} THEN 0
                      ELSE (IF l.bal[PKN][Some(d)] > 0 THEN l.bal[PKN][Some(d)] ELSE 0) + g[d \ {Some(d)}]]
               /\ Positive(l, S) = g[S]
  <2>1. \E g : g = [d \in SUBSET S |->
                      IF d = {} THEN 0
                      ELSE (IF l.bal[PKN][Some(d)] > 0 THEN l.bal[PKN][Some(d)] ELSE 0) + g[d \ {Some(d)}]]
    BY <1>5, <1>6
  <2> QED BY <1>4, <2>1 DEF MapThenSumSet, MapThenFoldSet, Some
<1>8. Adds(h, S, g) BY <1>5, <1>7
<1>9. Sum(h, S) = g[S] BY <1>3, <1>8, SumIs
<1> QED BY <1>1, <1>7, <1>9 DEF h

(***************************************************************************)
(* What is circulating and what is reserved make up the total.             *)
(***************************************************************************)
LEMMA SupplyFigures ==
  ASSUME IsFiniteSet(Account), NEW bs, NEW l, Sound(l), l = LedgerFromBlockchain(bs, FinalityDepth)
  PROVE  /\ SupplySnapshot(bs).total = Total(l.bal, PKN)
         /\ SupplySnapshot(bs).circulating + SupplySnapshot(bs).reserved = SupplySnapshot(bs).total
<1> DEFINE total == Positive(l, Account)
           reserved == Positive(l, Reserved)
<1>1. SupplySnapshot(bs) = [total |-> total, reserved |-> reserved,
                            circulating |-> Max({0, total - reserved})]
  BY DEF SupplySnapshot
<1>2. Reserved \in SUBSET Account /\ Account \in SUBSET Account BY ExplorerAssumption
<1>3. /\ total = Sum(l.bal[PKN], Account) /\ reserved = Sum(l.bal[PKN], Reserved)
      /\ \A a \in Account : l.bal[PKN][a] \in Nat
  BY <1>2, PositiveIs
<1> HIDE DEF total, reserved
<1>4. /\ Sum(l.bal[PKN], Reserved) \in Int /\ Sum(l.bal[PKN], Account) \in Int
      /\ Sum(l.bal[PKN], Reserved) <= Sum(l.bal[PKN], Account)
  BY <1>2, <1>3, SumOfPart
<1>5. total \in Int /\ reserved \in Int /\ reserved <= total BY <1>3, <1>4
<1>6. total - reserved \in Int /\ 0 <= total - reserved BY <1>5
<1>7. Max({0, total - reserved}) = total - reserved BY <1>6, MaxMinOfTwo
<1> QED BY <1>1, <1>3, <1>5, <1>7 DEF Total

(***************************************************************************)
(* The three notions of finality agree, for every tree, every depth and    *)
(* every set of reserved addresses: what the index marks final is what the *)
(* committed ledger recorded, and the supply figures are what the blocks   *)
(* up to the finalized height issued.                                      *)
(***************************************************************************)
THEOREM FinalityAgrees ==
  ASSUME Ordered(Hash), IsFiniteSet(Account), IsFiniteSet(Asset)
  PROVE  Spec => []FinalizedIsCommitted
<1>1. Typed /\ Passed => FinalizedIsCommitted
  <2> DEFINE best == CanonicalBlocks(blocks, 0)
             ledger == LedgerFromBlockchain(blocks, FinalityDepth)
             n == Len(best)
             fin == FinalizedHeight(n)
  <2> SUFFICES ASSUME blocks \in Seq(Block), Passed, NoEquivocation(blocks)
      PROVE /\ BuildExplorerIndex(blocks).finalizedHeight = CommittedHeight(blocks)
            /\ {e.tx : e \in {f \in Range(IndexedTxs(best)) : f.finalized}} = ledger.history
            /\ \A t \in ledger.history : BuildExplorerIndex(blocks).txsByHash[t.id].tx = t
            /\ PairedSwaps(best) =>
                 SupplySnapshot(blocks).total + PoolSupply(ledger, PKN)
                   = Issued(SubSeq(best, 1, BuildExplorerIndex(blocks).finalizedHeight))
            /\ SupplySnapshot(blocks).circulating + SupplySnapshot(blocks).reserved
                 = SupplySnapshot(blocks).total
    BY DEF Typed, FinalizedIsCommitted
  <2>1. best \in Seq(Block) /\ Kept(best) BY BestKept
  <2>2. FinalityDepth \in Nat BY ExplorerAssumption
  <2>3. /\ n \in Nat /\ BestHeight(blocks) = n
        /\ CanonicalBlocks(blocks, FinalityDepth)
             = SubSeq(best, 1, IF n <= FinalityDepth THEN 0 ELSE n - FinalityDepth)
    BY <2>2, RolledBack
  <2>4. fin = (IF n <= FinalityDepth THEN 0 ELSE n - FinalityDepth) /\ fin \in 0 .. n
    <3> HIDE DEF n
    <3> QED BY <2>3, FinalHeight
  <2>5. BuildExplorerIndex(blocks).finalizedHeight = fin BY DEF BuildExplorerIndex
  <2>6. CommittedHeight(blocks) = fin
    <3> HIDE DEF n, fin
    <3> QED BY <2>3, <2>4 DEF CommittedHeight
  <2>7. ledger = BuildLedgerFromBlocks(SubSeq(best, 1, fin))
    <3>1. ledger = BuildLedgerFromBlocks(CanonicalBlocks(blocks, FinalityDepth)) BY DEF LedgerFromBlockchain
    <3> HIDE DEF n, fin, best, ledger
    <3> QED BY <2>3, <2>4, <3>1
  <2>8. n = Len(best) /\ fin = FinalizedHeight(Len(best)) OBVIOUS
  <2>9. SupplySnapshot(blocks).total = Total(ledger.bal, PKN)
           /\ SupplySnapshot(blocks).circulating + SupplySnapshot(blocks).reserved
                = SupplySnapshot(blocks).total
           /\ Replays(best, fin, ledger)
    <3> HIDE DEF best, fin, n
    <3>1. Replays(best, fin, BuildLedgerFromBlocks(SubSeq(best, 1, fin))) BY <2>1, <2>4, <2>8, BranchReplayed
    <3>2. Replays(best, fin, ledger)
      <4> HIDE DEF ledger
      <4> QED BY <2>7, <3>1
    <3>3. Sound(ledger) BY <3>2 DEF Replays
    <3> QED BY <3>2, <3>3, SupplyFigures
  <2> HIDE DEF best, ledger, n, fin
  <2>10. ledger.history = Contents(best, fin) BY <2>9 DEF Replays
  <2>11. {e.tx : e \in {f \in Range(IndexedTxs(best)) : f.finalized}} = ledger.history
    BY <2>1, <2>8, <2>10, FinalTxs
  <2>12. ASSUME NEW t \in ledger.history PROVE BuildExplorerIndex(blocks).txsByHash[t.id].tx = t
    <3>1. PICK i \in 1 .. fin : t \in Range(best[i].txs) BY <2>10 DEF Contents
    <3>2. PICK j \in DOMAIN best[i].txs : t = best[i].txs[j] BY <3>1 DEF Range
    <3>3. i \in 1 .. Len(best) BY <2>3, <2>4, <2>8
    <3>4. best = CanonicalBlocks(blocks, 0) BY DEF best
    <3> QED BY <2>1, <3>2, <3>3, <3>4, FoundById
  <2>13. ASSUME PairedSwaps(best)
         PROVE  SupplySnapshot(blocks).total + PoolSupply(ledger, PKN) = Issued(SubSeq(best, 1, fin))
    <3>1. SupplyOf(ledger, PKN) = Sum(Genesis, Account) + Sum(Earned(best), 1 .. fin)
      BY <2>9, <2>13 DEF Replays, Finite
    <3>2. SupplyOf(ledger, PKN) = Total(ledger.bal, PKN) + Pooled(ledger.pools, PKN)
          /\ PoolSupply(ledger, PKN) = Pooled(ledger.pools, PKN)
      BY SupplyIs
    <3>3. Issued(SubSeq(best, 1, fin)) = Sum(Genesis, Account) + Sum(Earned(best), 1 .. fin)
      BY <2>1, <2>4, <2>8, IssuedByPrefix
    <3> QED BY <2>9, <3>1, <3>2, <3>3
  <2> QED BY <2>5, <2>6, <2>9, <2>11, <2>12, <2>13 DEF best, ledger
<1> QED BY <1>1, BlocksTyped, BlocksPassed, PTL

-----------------------------------------------------------------------------
(* The pages of an address. *)

-----------------------------------------------------------------------------
(* Sorting. *)

(***************************************************************************)
(* The order in which NewestFirst places the entries of a list.            *)
(***************************************************************************)
Precedes(s, j, i) == Newer(s[j], s[i]) \/ (~Newer(s[i], s[j]) /\ j < i)

Preceding(s, i) == {j \in DOMAIN s : Precedes(s, j, i)}

(***************************************************************************)
(* A list whose entries carry a block number and a position in the block.  *)
(***************************************************************************)
Dated(s, n) ==
  /\ n \in Nat /\ DOMAIN s = 1 .. n
  /\ \A i \in 1 .. n : s[i].blockNumber \in Int /\ s[i].transactionIndex \in Int

(***************************************************************************)
(* It is a total order of the positions.                                   *)
(***************************************************************************)
LEMMA PrecedesOrder ==
  ASSUME NEW s, NEW n, Dated(s, n), NEW i \in 1 .. n, NEW j \in 1 .. n
  PROVE  /\ ~Precedes(s, i, i)
         /\ i # j => Precedes(s, i, j) \/ Precedes(s, j, i)
         /\ \A k \in 1 .. n : Precedes(s, k, j) /\ Precedes(s, j, i) => Precedes(s, k, i)
<1>1. i \in Int /\ j \in Int /\ \A k \in 1 .. n : k \in Int BY DEF Dated
<1>2. \A k \in 1 .. n : s[k].blockNumber \in Int /\ s[k].transactionIndex \in Int BY DEF Dated
<1>3. ~Precedes(s, i, i) BY <1>1, <1>2 DEF Precedes, Newer
<1>4. i # j => Precedes(s, i, j) \/ Precedes(s, j, i) BY <1>1, <1>2 DEF Precedes, Newer
<1>5. ASSUME NEW k \in 1 .. n, Precedes(s, k, j), Precedes(s, j, i) PROVE Precedes(s, k, i)
  <2>1. PICK x \in Int, x2 \in Int : x = s[k].blockNumber /\ x2 = s[k].transactionIndex BY <1>2
  <2>2. PICK y \in Int, y2 \in Int : y = s[j].blockNumber /\ y2 = s[j].transactionIndex BY <1>2
  <2>3. PICK z \in Int, z2 \in Int : z = s[i].blockNumber /\ z2 = s[i].transactionIndex BY <1>2
  <2> QED BY <1>1, <1>5, <2>1, <2>2, <2>3 DEF Precedes, Newer
<1> QED BY <1>3, <1>4, <1>5

(***************************************************************************)
(* The place of an entry is a position of the list, and an entry that      *)
(* precedes another one has the smaller place.                             *)
(***************************************************************************)
LEMMA Places ==
  ASSUME NEW s, NEW n, Dated(s, n), NEW i \in 1 .. n
  PROVE  /\ Place(s, i) \in 1 .. n
         /\ \A j \in 1 .. n : Precedes(s, j, i) => Place(s, j) < Place(s, i)
<1>1. n \in Nat /\ DOMAIN s = 1 .. n BY DEF Dated
<1>2. IsFiniteSet(1 .. n) /\ Cardinality(1 .. n) = n BY <1>1, FS_Interval
<1>3. ASSUME NEW k \in 1 .. n
      PROVE  /\ Place(s, k) = 1 + Cardinality(Preceding(s, k)) /\ Preceding(s, k) \in SUBSET (1 .. n)
             /\ k \notin Preceding(s, k)
             /\ IsFiniteSet(Preceding(s, k)) /\ Cardinality(Preceding(s, k)) \in Nat
  <2>1. Place(s, k) = 1 + Cardinality(Preceding(s, k)) BY DEF Place, Preceding, Precedes
  <2>2. Preceding(s, k) \in SUBSET (1 .. n) BY <1>1 DEF Preceding
  <2>3. k \notin Preceding(s, k) BY PrecedesOrder DEF Preceding
  <2>4. IsFiniteSet(Preceding(s, k)) BY <1>2, <2>2, FS_Subset
  <2>5. Cardinality(Preceding(s, k)) \in Nat BY <2>4, FS_CardinalityType
  <2> QED BY <2>1, <2>2, <2>3, <2>4, <2>5
<1>4. Place(s, i) \in 1 .. n
  <2>1. PICK c \in Nat : c = Cardinality(Preceding(s, i)) BY <1>3
  <2>2. Preceding(s, i) \cup {i} \in SUBSET (1 .. n) BY <1>3
  <2>3. Cardinality(Preceding(s, i) \cup {i}) = c + 1 BY <1>3, <2>1, FS_AddElement
  <2>4. c + 1 <= n BY <1>2, <2>2, <2>3, FS_Subset
  <2>5. Place(s, i) = 1 + c BY <1>3, <2>1
  <2> QED BY <1>1, <2>4, <2>5
<1>5. ASSUME NEW j \in 1 .. n, Precedes(s, j, i) PROVE Place(s, j) < Place(s, i)
  <2>1. PICK c \in Nat : c = Cardinality(Preceding(s, i)) BY <1>3
  <2>2. PICK d \in Nat : d = Cardinality(Preceding(s, j)) BY <1>3
  <2>3. \A k \in Preceding(s, j) : k \in Preceding(s, i)
    <3> SUFFICES ASSUME NEW k \in 1 .. n, Precedes(s, k, j) PROVE Precedes(s, k, i) BY <1>1 DEF Preceding
    <3> QED BY <1>5, PrecedesOrder
  <2>4. j \in Preceding(s, i) BY <1>1, <1>5 DEF Preceding
  <2>5. Preceding(s, j) \cup {j} \in SUBSET Preceding(s, i) BY <2>3, <2>4
  <2>6. Cardinality(Preceding(s, j) \cup {j}) = d + 1 BY <1>3, <2>2, FS_AddElement
  <2>7. d + 1 <= c BY <1>3, <2>1, <2>5, <2>6, FS_Subset
  <2>8. Place(s, j) = 1 + d /\ Place(s, i) = 1 + c BY <1>3, <2>1, <2>2
  <2> QED BY <2>7, <2>8
<1> QED BY <1>4, <1>5

Reorders(s, n, b) ==
  /\ b \in [1 .. n -> 1 .. n]
  /\ \A x, y \in 1 .. n : b[x] = b[y] => x = y
  /\ \A z \in 1 .. n : \E x \in 1 .. n : b[x] = z
  /\ DOMAIN NewestFirst(s) = 1 .. n
  /\ \A k \in 1 .. n : NewestFirst(s)[k] = s[b[k]]

(***************************************************************************)
(* NewestFirst reorders the list: no entry is lost or repeated.            *)
(***************************************************************************)
LEMMA SortReorders ==
  ASSUME NEW s, NEW n, Dated(s, n) PROVE \E b : Reorders(s, n, b)
<1> DEFINE P == [i \in 1 .. n |-> Place(s, i)]
           b == [k \in 1 .. n |-> CHOOSE i \in 1 .. n : Place(s, i) = k]
<1>1. n \in Nat /\ DOMAIN s = 1 .. n BY DEF Dated
<1>2. \A i \in 1 .. n : Place(s, i) \in 1 .. n BY Places
<1>3. ASSUME NEW i \in 1 .. n, NEW j \in 1 .. n, Place(s, i) = Place(s, j) PROVE i = j
  <2>1. Place(s, i) \in Int /\ Place(s, j) \in Int BY <1>2
  <2>2. ~Precedes(s, i, j) /\ ~Precedes(s, j, i) BY <1>3, <2>1, Places
  <2> QED BY <2>2, PrecedesOrder
<1>4. \A k \in 1 .. n : \E i \in 1 .. n : Place(s, i) = k
  <2>1. P \in Injection(1 .. n, 1 .. n) 
    <3>1. P \in [1 .. n -> 1 .. n] BY <1>2
    <3>2. \A i, j \in 1 .. n : P[i] = P[j] => i = j BY <1>3
    <3> HIDE DEF P
    <3> QED BY <3>1, <3>2 DEF Injection, IsInjective
  <2>2. IsFiniteSet(1 .. n) BY <1>1, FS_Interval
  <2> HIDE DEF P
  <2>3. P \in Surjection(1 .. n, 1 .. n) BY <2>1, <2>2, FS_Injection
  <2>4. \A k \in 1 .. n : \E i \in 1 .. n : P[i] = k BY <2>3 DEF Surjection
  <2> QED BY <2>4 DEF P
<1>5. ASSUME NEW k \in 1 .. n PROVE b[k] \in 1 .. n /\ Place(s, b[k]) = k
  BY <1>4
<1>6. \A x, y \in 1 .. n : b[x] = b[y] => x = y
  <2> HIDE DEF b
  <2> QED BY <1>5
<1>7. ASSUME NEW z \in 1 .. n PROVE \E x \in 1 .. n : b[x] = z
  <2>1. Place(s, z) \in 1 .. n BY <1>2
  <2>2. b[Place(s, z)] \in 1 .. n /\ Place(s, b[Place(s, z)]) = Place(s, z) BY <1>5, <2>1
  <2> HIDE DEF b
  <2>3. b[Place(s, z)] = z BY <1>3, <2>2
  <2> QED BY <2>1, <2>3
<1>8. NewestFirst(s) = [k \in 1 .. n |-> s[b[k]]] BY <1>1 DEF NewestFirst
<1>9. b \in [1 .. n -> 1 .. n]
  <2>1. b = [k \in 1 .. n |-> b[k]] OBVIOUS
  <2> HIDE DEF b
  <2> QED BY <1>5, <2>1
<1> HIDE DEF b
<1>10. Reorders(s, n, b) BY <1>6, <1>7, <1>8, <1>9 DEF Reorders
<1> QED BY <1>10

-----------------------------------------------------------------------------
(* Paging by offset. *)

(***************************************************************************)
(* What follows offset c in the list.                                      *)
(***************************************************************************)
Remainder(s, n, c) == SubSeq(s, c + 1, n)

(***************************************************************************)
(* The two pieces of s around offset e are together the one after c.       *)
(***************************************************************************)
Meet(s, n, c, e) == SubSeq(s, c + 1, e) \o SubSeq(s, e + 1, n) = SubSeq(s, c + 1, n)

(***************************************************************************)
(* Neighbouring pieces of a list meet.                                     *)
(***************************************************************************)
LEMMA Pieces ==
  ASSUME NEW X, NEW s \in Seq(X), NEW c \in 0 .. Len(s), NEW e \in c .. Len(s)
  PROVE  Meet(s, Len(s), c, e)
<1>1. c + 1 \in 1 .. Len(s) + 1 /\ e \in (c + 1) - 1 .. Len(s) /\ Len(s) \in e .. Len(s) OBVIOUS
<1>2. PICK m : m = c + 1 OBVIOUS
<1>3. SubSeq(s, m, e) \o SubSeq(s, e + 1, Len(s)) = SubSeq(s, m, Len(s))
  BY <1>1, <1>2, ConcatAdjacentSubSeq
<1> QED BY <1>2, <1>3 DEF Meet

(***************************************************************************)
(* The sorted list that the pages of address a are cut from.               *)
(***************************************************************************)
Sorted(idx, a, X, N, n) ==
  N = NewestFirst(idx.txsByAddress[a]) /\ N \in Seq(X) /\ Len(N) = n

(***************************************************************************)
(* A page of an address: all that is left, or limit entries and the offset *)
(* behind them.                                                            *)
(***************************************************************************)
LEMMA AddressPage ==
  ASSUME NEW idx, NEW a, NEW X, NEW N, NEW n \in Nat, Sorted(idx, a, X, N, n),
         NEW limit \in Nat \ {0}, NEW c \in 0 .. n
  PROVE  /\ c + limit < n => ExplorerAddress(idx, a, c, limit)
                               = [items |-> SubSeq(N, c + 1, c + limit), next |-> c + limit]
         /\ c + limit >= n => ExplorerAddress(idx, a, c, limit)
                               = [items |-> SubSeq(N, c + 1, n), next |-> None]
<1>1. c + limit \in Int /\ n \in Int OBVIOUS
<1> DEFINE end == Min({c + limit, n})
<1>2. end = IF c + limit <= n THEN c + limit ELSE n BY <1>1, MaxMinOfTwo
<1>3. ExplorerAddress(idx, a, c, limit)
        = [items |-> SubSeq(N, c + 1, end), next |-> IF end < n THEN end ELSE None]
  <2>1. N = NewestFirst(idx.txsByAddress[a]) /\ Len(N) = n BY DEF Sorted
  <2> QED BY <2>1, Zenon DEF ExplorerAddress
<1> HIDE DEF end
<1>4. ASSUME c + limit < n PROVE end = c + limit /\ end < n BY <1>1, <1>2, <1>4
<1>5. ASSUME c + limit >= n PROVE end = n /\ ~(end < n) BY <1>1, <1>2, <1>5
<1> QED BY <1>3, <1>4, <1>5

(***************************************************************************)
(* The equation that the walk over the pages of an address solves.         *)
(***************************************************************************)
Onward(next, f) == IF next = None THEN << >> ELSE f[next]

Turned(idx, a, limit, f, c) ==
  ExplorerAddress(idx, a, c, limit).items \o Onward(ExplorerAddress(idx, a, c, limit).next, f)

Turns(idx, a, limit, n, f) == f = [c \in 0 .. n |-> Turned(idx, a, limit, f, c)]

Behind(N, n, limit, f, c) == c + limit < n => f[c + limit] = Remainder(N, n, c + limit)

(***************************************************************************)
(* A page and what follows it make up the rest of the list.                *)
(***************************************************************************)
LEMMA PageAndTail ==
  ASSUME None \notin Nat, NEW idx, NEW a, NEW X, NEW N, NEW n \in Nat, Sorted(idx, a, X, N, n),
         NEW limit \in Nat \ {0}, NEW c \in 0 .. n, NEW f,
         Behind(N, n, limit, f, c)
  PROVE  Turned(idx, a, limit, f, c) = Remainder(N, n, c)
<1>1. c \in Nat /\ limit \in Nat /\ limit > 0 OBVIOUS
<1>2. N \in Seq(X) /\ Len(N) = n BY DEF Sorted
<1>3. CASE c + limit >= n
  <2>1. PICK p : p = SubSeq(N, c + 1, n) OBVIOUS
  <2>2. ExplorerAddress(idx, a, c, limit) = [items |-> p, next |-> None]
    <3>1. ExplorerAddress(idx, a, c, limit) = [items |-> SubSeq(N, c + 1, n), next |-> None]
      BY <1>3, AddressPage
    <3> QED BY <2>1, <3>1
  <2>3. p \in Seq(X) BY <1>1, <1>2, <2>1
  <2>4. p \o << >> = p BY <2>3
  <2>5. Turned(idx, a, limit, f, c) = p BY <2>2, <2>4 DEF Turned, Onward
  <2> QED BY <2>1, <2>5 DEF Remainder
<1>4. CASE c + limit < n
  <2>1. PICK e \in Nat : e = c + limit BY <1>1
  <2>2. PICK p : p = SubSeq(N, c + 1, e) OBVIOUS
  <2>3. ExplorerAddress(idx, a, c, limit) = [items |-> p, next |-> e] BY <1>4, <2>1, <2>2, AddressPage
  <2>4. e # None /\ e \in c .. Len(N) /\ c \in 0 .. Len(N) BY <1>1, <1>2, <1>4, <2>1
  <2>5. Onward(e, f) = SubSeq(N, e + 1, n) BY <1>4, <2>1, <2>4 DEF Onward, Behind, Remainder
  <2>6. Meet(N, n, c, e) BY <1>2, <2>4, Pieces
  <2>7. Turned(idx, a, limit, f, c) = p \o Onward(e, f) BY <2>3 DEF Turned
  <2>8. PICK q : q = SubSeq(N, e + 1, n) OBVIOUS
  <2>9. p \o q = SubSeq(N, c + 1, n) BY <2>2, <2>6, <2>8 DEF Meet
  <2>10. Turned(idx, a, limit, f, c) = p \o q BY <2>5, <2>7, <2>8
  <2> QED BY <2>9, <2>10 DEF Remainder
<1> QED BY <1>1, <1>3, <1>4

(***************************************************************************)
(* With any page size, the walk sees the sorted list.                      *)
(***************************************************************************)
LEMMA WalkIsSorted ==
  ASSUME None \notin Nat, NEW idx, NEW a, NEW X, NEW N, NEW n \in Nat, Sorted(idx, a, X, N, n),
         Len(idx.txsByAddress[a]) = n, NEW limit \in Nat \ {0}
  PROVE  WalkAddress(idx, a, limit) = N
<1> DEFINE d == [c \in 0 .. n |-> Remainder(N, n, c)]
<1>1. Turns(idx, a, limit, n, d)
  <2>1. ASSUME NEW c \in 0 .. n
        PROVE  Turned(idx, a, limit, d, c) = d[c]
    <3>1. c + limit < n => c + limit \in 0 .. n OBVIOUS
    <3>2. Behind(N, n, limit, d, c) BY <3>1 DEF Behind
    <3>3. d[c] = Remainder(N, n, c) OBVIOUS
    <3> HIDE DEF d
    <3> QED BY <3>2, <3>3, PageAndTail
  <2>2. d = [c \in 0 .. n |-> d[c]] OBVIOUS
  <2> HIDE DEF d
  <2> QED BY <2>1, <2>2 DEF Turns
<1> HIDE DEF d
<1>2. PICK f : Turns(idx, a, limit, n, f) /\ WalkAddress(idx, a, limit) = f[0]
  BY <1>1 DEF WalkAddress, Turns, Turned, Onward
<1>3. \A c \in 0 .. n : f[c] = Turned(idx, a, limit, f, c) BY <1>2 DEF Turns
<1> DEFINE S == {k \in Nat : \A c \in 0 .. n : n - c <= k => f[c] = Remainder(N, n, c)}
<1>4. 0 \in S
  <2>1. ASSUME NEW c \in 0 .. n, n - c <= 0 PROVE f[c] = Remainder(N, n, c)
    <3>1. ~(c + limit < n) BY <2>1
    <3>2. Behind(N, n, limit, f, c) BY <3>1 DEF Behind
    <3> HIDE DEF S
    <3> QED BY <1>3, <3>2, PageAndTail
  <2> QED BY <2>1
<1>5. ASSUME NEW k \in S PROVE k + 1 \in S
  <2>1. ASSUME NEW c \in 0 .. n, n - c <= k + 1 PROVE f[c] = Remainder(N, n, c)
    <3>1. c + limit < n => c + limit \in 0 .. n /\ n - (c + limit) <= k BY <2>1
    <3>2. Behind(N, n, limit, f, c) BY <3>1 DEF Behind
    <3> HIDE DEF S
    <3> QED BY <1>3, <3>2, PageAndTail
  <2> QED BY <2>1
<1>6. S \in SUBSET Nat OBVIOUS
<1> HIDE DEF S
<1>7. n \in S BY <1>4, <1>5, <1>6, Induction
<1>8. f[0] = Remainder(N, n, 0) BY <1>7 DEF S
<1>9. Remainder(N, n, 0) = N BY DEF Remainder, Sorted
<1> QED BY <1>2, <1>8, <1>9
-----------------------------------------------------------------------------
(* What a list of entries is worth to an account. *)

Deltas(a, s) == [i \in DOMAIN s |-> Delta(a, s[i])]

Worth(a, s) == Sum(Deltas(a, s), DOMAIN s)

Valued(a, A) == \A e \in A : Delta(a, e) \in Int

Added(a, s, t) == Worth(a, s \o t) = Worth(a, s) + Worth(a, t)

(***************************************************************************)
(* A list with another one behind it is worth what the two are.            *)
(***************************************************************************)
LEMMA WorthJoined ==
  ASSUME NEW a, NEW A, Valued(a, A), NEW s \in Seq(A), NEW t \in Seq(A)
  PROVE  Added(a, s, t) /\ Worth(a, s) \in Int /\ Worth(a, t) \in Int
<1> DEFINE u == s \o t
<1>1. PICK m \in Nat, n \in Nat : m = Len(s) /\ n = Len(t) OBVIOUS
<1>2. u \in Seq(A) /\ Len(u) = m + n BY <1>1, ConcatProperties
<1>3. /\ \A i \in 1 .. m : u[i] = s[i]
      /\ \A j \in 1 .. n : u[m + j] = t[j]
  BY <1>1
<1> HIDE DEF u
<1>4. DOMAIN s = 1 .. m /\ DOMAIN t = 1 .. n /\ DOMAIN u = 1 .. (m + n) BY <1>1, <1>2
<1>5. \A i \in 1 .. (m + n) : Deltas(a, u)[i] \in Int
  <2>1. \A i \in 1 .. (m + n) : u[i] \in A BY <1>2
  <2> QED BY <1>4, <2>1 DEF Deltas, Valued
<1>6. \A j \in 1 .. n : Deltas(a, t)[j] = Deltas(a, u)[m + j]
  <2> SUFFICES ASSUME NEW j \in 1 .. n PROVE Deltas(a, t)[j] = Deltas(a, u)[m + j] OBVIOUS
  <2>1. m + j \in 1 .. (m + n) OBVIOUS
  <2> QED BY <1>3, <1>4, <2>1 DEF Deltas
<1>7. \A i \in 1 .. m : Deltas(a, s)[i] = Deltas(a, u)[i]
  <2> SUFFICES ASSUME NEW i \in 1 .. m PROVE Deltas(a, s)[i] = Deltas(a, u)[i] OBVIOUS
  <2>1. i \in 1 .. (m + n) OBVIOUS
  <2> QED BY <1>3, <1>4, <2>1 DEF Deltas
<1>8. IsFiniteSet(1 .. m) BY FS_Interval
<1>9. Sum(Deltas(a, s), 1 .. m) = Sum(Deltas(a, u), 1 .. m) BY <1>7, <1>8, SumSame
<1>10. /\ Sum(Deltas(a, u), 1 .. m) \in Int /\ Sum(Deltas(a, t), 1 .. n) \in Int
       /\ Sum(Deltas(a, u), 1 .. (m + n)) = Sum(Deltas(a, u), 1 .. m) + Sum(Deltas(a, t), 1 .. n)
  <2>1. RunsOn(Deltas(a, u), Deltas(a, t), m, n) BY <1>5, <1>6 DEF RunsOn
  <2> QED BY <2>1, SumAppended
<1>11. Worth(a, u) = Worth(a, s) + Worth(a, t) /\ Worth(a, s) \in Int /\ Worth(a, t) \in Int
  BY <1>4, <1>9, <1>10 DEF Worth
<1> QED BY <1>11 DEF Added, u

(***************************************************************************)
(* The worth of the empty list and of a list of one entry.                 *)
(***************************************************************************)
LEMMA WorthOfFew ==
  ASSUME NEW a, NEW e, Delta(a, e) \in Int
  PROVE  Worth(a, << >>) = 0 /\ Worth(a, <<e>>) = Delta(a, e)
<1>1. DOMAIN << >> = {} OBVIOUS
<1>2. Worth(a, << >>) = 0 BY <1>1, SumEmpty DEF Worth
<1>3. DOMAIN <<e>> = {1} /\ <<e>>[1] = e OBVIOUS
<1>4. Deltas(a, <<e>>)[1] = Delta(a, e) BY <1>3 DEF Deltas
<1>5. IsFiniteSet({1}) /\ \A i \in {1} : Deltas(a, <<e>>)[i] \in Int
  <2>1. IsFiniteSet({1}) BY FS_Singleton
  <2>2. \A i \in {1} : Deltas(a, <<e>>)[i] \in Int BY <1>4
  <2> QED BY <2>1, <2>2
<1>6. Sum(Deltas(a, <<e>>), {1}) = Deltas(a, <<e>>)[1] + Sum(Deltas(a, <<e>>), {1} \ {1})
  BY <1>5, SumTake
<1>7. {1} \ {1} = {} OBVIOUS
<1>8. Sum(Deltas(a, <<e>>), {}) = 0 BY SumEmpty
<1>9. Sum(Deltas(a, <<e>>), {1}) = Delta(a, e)
  <2>1. Sum(Deltas(a, <<e>>), {1}) = Delta(a, e) + 0 BY <1>4, <1>6, <1>7, <1>8, Zenon
  <2> QED BY <2>1
<1> QED BY <1>2, <1>3, <1>9 DEF Worth

(***************************************************************************)
(* The sum that AddressAddsUp names.                                       *)
(***************************************************************************)
LEMMA WorthIs ==
  ASSUME NEW a, NEW A, NEW s \in Seq(A)
  PROVE  MapThenSumSet(LAMBDA i : Delta(a, s[i]), DOMAIN s) = Worth(a, s)
<1> DEFINE D == DOMAIN s
           h == Deltas(a, s)
           T == MapThenSumSet(LAMBDA i : Delta(a, s[i]), D)
<1>1. IsFiniteSet(D)
  <2>1. D = 1 .. Len(s) /\ Len(s) \in Nat OBVIOUS
  <2> QED BY <2>1, FS_Interval
<1>2. \A i \in D : h[i] = Delta(a, s[i]) BY DEF Deltas
<1> HIDE DEF h, D
<1>3. ASSUME NEW g
      PROVE  Adds(h, D, g) <=>
               g = [d \in SUBSET D |-> IF d = {} THEN 0 ELSE Delta(a, s[Some(d)]) + g[d \ {Some(d)}]]
  <2>1. \A d \in SUBSET D : d # {} => h[Some(d)] = Delta(a, s[Some(d)]) BY <1>2 DEF Some
  <2> QED BY <2>1 DEF Adds
<1>4. \E g : Adds(h, D, g) BY <1>1, AddsExists
<1>5. PICK g : /\ g = [d \in SUBSET D |->
                         IF d = {} THEN 0 ELSE Delta(a, s[Some(d)]) + g[d \ {Some(d)}]]
               /\ T = g[D]
  <2>1. \E g : g = [d \in SUBSET D |->
                      IF d = {} THEN 0 ELSE Delta(a, s[Some(d)]) + g[d \ {Some(d)}]]
    BY <1>3, <1>4
  <2> QED BY <2>1 DEF MapThenSumSet, MapThenFoldSet, Some
<1>6. Adds(h, D, g) BY <1>3, <1>5
<1>7. Sum(h, D) = g[D] BY <1>1, <1>6, SumIs
<1> QED BY <1>5, <1>7 DEF h, D, Worth

(***************************************************************************)
(* The worth of a list does not change when it is sorted.                  *)
(***************************************************************************)
LEMMA WorthSorted ==
  ASSUME NEW a, NEW A, Valued(a, A), NEW s \in Seq(A), Dated(s, Len(s))
  PROVE  /\ NewestFirst(s) \in Seq(A) /\ Len(NewestFirst(s)) = Len(s)
         /\ Worth(a, NewestFirst(s)) = Worth(a, s)
<1> DEFINE N == NewestFirst(s)
           n == Len(s)
<1>1. n \in Nat /\ DOMAIN s = 1 .. n /\ \A i \in 1 .. n : s[i] \in A OBVIOUS
<1>2. PICK b : Reorders(s, n, b) BY SortReorders
<1>3. /\ b \in [1 .. n -> 1 .. n] /\ (\A x, y \in 1 .. n : b[x] = b[y] => x = y)
      /\ \A z \in 1 .. n : \E x \in 1 .. n : b[x] = z
  BY <1>2 DEF Reorders
<1>4. DOMAIN N = 1 .. n /\ \A k \in 1 .. n : N[k] = s[b[k]] BY <1>2 DEF Reorders
<1>5. N = [k \in 1 .. n |-> N[k]] BY <1>1, <1>4 DEF NewestFirst
<1> HIDE DEF N, n
<1>6. \A k \in 1 .. n : b[k] \in 1 .. n /\ N[k] \in A BY <1>1, <1>3, <1>4
<1>7. N \in Seq(A) /\ Len(N) = n
  <2>1. N \in [1 .. n -> A] BY <1>5, <1>6
  <2> QED BY <1>1, <2>1
<1>8. IsFiniteSet(1 .. n) BY <1>1, FS_Interval
<1>9. Integral(Deltas(a, s), 1 .. n) BY <1>1 DEF Integral, Deltas, Valued
<1>10. \A k \in 1 .. n : Deltas(a, N)[k] = Deltas(a, s)[b[k]] BY <1>1, <1>4, <1>6 DEF Deltas
<1>11. Sum(Deltas(a, N), 1 .. n) = Sum(Deltas(a, s), 1 .. n)
  <2>1. Permutes(b, 1 .. n, Deltas(a, s), Deltas(a, N)) BY <1>3, <1>10 DEF Permutes
  <2> QED BY <1>8, <1>9, <2>1, SumReordered
<1> QED BY <1>1, <1>4, <1>7, <1>11 DEF Worth, N, n

-----------------------------------------------------------------------------
(* The list of an address. *)

Parties(a, e) ==
  (IF e.tx.from = a THEN <<e>> ELSE << >>) \o (IF e.tx.to = a THEN <<e>> ELSE << >>)

Collects(a, txs, g) ==
  g[0] = << >> /\ \A k \in 1 .. Len(txs) : g[k] = g[k - 1] \o Parties(a, txs[k])

(***************************************************************************)
(* The iteration that TxsOfAddress stands for.                             *)
(***************************************************************************)
AddressIterates(a, s, f) ==
  f = [d \in SUBSET DOMAIN s |->
         IF d = {} THEN << >>
         ELSE f[d \ {Max(d)}] \o ((IF s[Max(d)].tx.from = a THEN <<s[Max(d)]>> ELSE << >>)
                                   \o (IF s[Max(d)].tx.to = a THEN <<s[Max(d)]>> ELSE << >>))]

(***************************************************************************)
(* TxsOfAddress takes entry after entry.                                   *)
(***************************************************************************)
LEMMA AddressWay ==
  ASSUME NEW a, NEW A, NEW s \in Seq(A)
  PROVE  \E g : Collects(a, s, g) /\ TxsOfAddress(s, a) = g[Len(s)]
<1> DEFINE n == Len(s)
           F == [e \in A |-> Parties(a, e)]
           op == <<"glue", F>>
<1>1. n \in Nat /\ DOMAIN s = 1 .. n /\ \A k \in 1 .. n : s[k] \in A OBVIOUS
<1>2. \A e \in A : F[e] = Parties(a, e) OBVIOUS
<1>3. \A r, e : Act(op, r, e) = r \o F[e] BY DEF Act
<1> HIDE DEF n, F, op
<1>4. \E f : Iterates(op, << >>, s, DOMAIN s, f)
  <2>1. \E f : Iterates(op, << >>, s, 1 .. n, f) BY <1>1, IterateExists
  <2> QED BY <1>1, <2>1, Zenon
<1>5. ASSUME NEW f PROVE Iterates(op, << >>, s, DOMAIN s, f) <=> AddressIterates(a, s, f)
  <2>1. ASSUME NEW d \in SUBSET DOMAIN s, d # {} PROVE Max(d) \in 1 .. n
    <3>1. d \in SUBSET Nat /\ \A x \in d : x <= n BY <1>1
    <3>2. Max(d) \in d BY <1>1, <2>1, <3>1, MaxOfBounded
    <3> QED BY <1>1, <3>2
  <2>2. ASSUME NEW d \in SUBSET DOMAIN s, d # {}
        PROVE  Act(op, f[d \ {Max(d)}], s[Max(d)]) =
                 f[d \ {Max(d)}] \o ((IF s[Max(d)].tx.from = a THEN <<s[Max(d)]>> ELSE << >>)
                                   \o (IF s[Max(d)].tx.to = a THEN <<s[Max(d)]>> ELSE << >>))
    <3>1. PICK m : m = Max(d) OBVIOUS
    <3>2. m \in 1 .. n /\ s[m] \in A BY <1>1, <2>1, <2>2, <3>1
    <3>3. F[s[m]] = (IF s[m].tx.from = a THEN <<s[m]>> ELSE << >>) \o (IF s[m].tx.to = a THEN <<s[m]>> ELSE << >>)
      BY <1>2, <3>2, Zenon DEF Parties
    <3>4. Act(op, f[d \ {m}], s[m]) = f[d \ {m}] \o F[s[m]] BY <1>3, Zenon
    <3> QED BY <3>1, <3>3, <3>4, Zenon
  <2> QED BY <2>2 DEF Iterates, AddressIterates
<1>6. \E f : AddressIterates(a, s, f) BY <1>4, <1>5
<1>7. PICK f : AddressIterates(a, s, f) /\ TxsOfAddress(s, a) = f[DOMAIN s]
  BY <1>6 DEF TxsOfAddress, FoldLeft, MapThenFoldSet, AddressIterates
<1>8. Iterates(op, << >>, s, DOMAIN s, f) BY <1>5, <1>7
<1>9. PICK g : Way(op, << >>, s, Len(s), g) /\ f[DOMAIN s] = g[Len(s)] BY <1>8, IterateWay
<1>10. Collects(a, s, g)
  <2>1. g[0] = << >> /\ \A k \in 1 .. n : g[k] = Act(op, g[k - 1], s[k]) BY <1>9 DEF Way, n
  <2>2. ASSUME NEW k \in 1 .. n PROVE g[k] = g[k - 1] \o Parties(a, s[k])
    <3>1. g[k] = Act(op, g[k - 1], s[k]) BY <2>1, Zenon
    <3>2. F[s[k]] = Parties(a, s[k]) BY <1>1, <1>2, Zenon
    <3> QED BY <1>3, <3>1, <3>2, Zenon
  <2> QED BY <2>1, <2>2 DEF Collects, n
<1> QED BY <1>7, <1>9, <1>10

(***************************************************************************)
(* What the transactions of the index have in common when AddressAddsUp    *)
(* claims a sum.                                                           *)
(***************************************************************************)
Sums(A) == \A e \in A : Additive(e.tx) /\ e.tx.amount \in Nat

(***************************************************************************)
(* The entries that one transaction leaves in the list of an address are   *)
(* worth what it moves: a payment to oneself is listed twice and moves     *)
(* nothing.                                                                *)
(***************************************************************************)
LEMMA PartiesWorth ==
  ASSUME NEW a, NEW A, Sums(A), NEW e \in A
  PROVE  Valued(a, A) /\ Parties(a, e) \in Seq(A) /\ Worth(a, Parties(a, e)) = Delta(a, e)
<1>1. ASSUME NEW f \in A PROVE Delta(a, f) \in Int
  <2>1. f.tx.amount \in Nat BY DEF Sums
  <2> QED BY <2>1 DEF Delta
<1>2. Valued(a, A) BY <1>1 DEF Valued
<1>3. Additive(e.tx) /\ e.tx.amount \in Nat BY DEF Sums
<1>4. Delta(a, e) \in Int BY <1>1
<1>5. Worth(a, << >>) = 0 /\ Worth(a, <<e>>) = Delta(a, e) BY <1>4, WorthOfFew
<1>6. << >> \in Seq(A) /\ <<e>> \in Seq(A) OBVIOUS
<1>7. PICK u, v : /\ u = IF e.tx.from = a THEN <<e>> ELSE << >>
                  /\ v = IF e.tx.to = a THEN <<e>> ELSE << >>
  OBVIOUS
<1>8. u \in Seq(A) /\ v \in Seq(A) BY <1>6, <1>7
<1>9. Parties(a, e) = u \o v BY <1>7, Zenon DEF Parties
<1>10. u \o v \in Seq(A) BY <1>8, ConcatProperties
<1>11. Added(a, u, v) BY <1>2, <1>8, WorthJoined
<1>12. Worth(a, u \o v) = Worth(a, u) + Worth(a, v) BY <1>11 DEF Added
<1>13. Worth(a, u) + Worth(a, v) = Delta(a, e)
  <2>1. CASE e.tx.from = a /\ e.tx.to = a
    <3>1. e.tx.kind = "transfer" BY <1>3, <2>1 DEF Additive
    <3>2. Delta(a, e) = 0 BY <1>3, <2>1, <3>1 DEF Delta
    <3>3. Worth(a, u) = Delta(a, e) /\ Worth(a, v) = Delta(a, e) BY <1>5, <1>7, <2>1
    <3> QED BY <3>2, <3>3
  <2>2. CASE e.tx.from = a /\ e.tx.to # a
    <3>1. Worth(a, u) = Delta(a, e) /\ Worth(a, v) = 0 BY <1>5, <1>7, <2>2
    <3> QED BY <1>4, <3>1
  <2>3. CASE e.tx.from # a /\ e.tx.to = a
    <3>1. Worth(a, u) = 0 /\ Worth(a, v) = Delta(a, e) BY <1>5, <1>7, <2>3
    <3> QED BY <1>4, <3>1
  <2>4. CASE e.tx.from # a /\ e.tx.to # a
    <3>1. Worth(a, u) = 0 /\ Worth(a, v) = 0 BY <1>5, <1>7, <2>4
    <3>2. Delta(a, e) = 0 BY <2>4 DEF Delta
    <3> QED BY <3>1, <3>2
  <2> QED BY <2>1, <2>2, <2>3, <2>4
<1> QED BY <1>2, <1>9, <1>10, <1>12, <1>13

(***************************************************************************)
(* The list of an address is worth what the whole index is worth to it.    *)
(***************************************************************************)
LEMMA AddressWorth ==
  ASSUME NEW a, NEW A, Sums(A), Valued(a, A), NEW s \in Seq(A)
  PROVE  TxsOfAddress(s, a) \in Seq(A) /\ Worth(a, TxsOfAddress(s, a)) = Worth(a, s)
<1> DEFINE n == Len(s)
<1>1. n \in Nat /\ DOMAIN s = 1 .. n /\ \A k \in 1 .. n : s[k] \in A OBVIOUS
<1>2. PICK g : Collects(a, s, g) /\ TxsOfAddress(s, a) = g[n] BY AddressWay
<1>3. g[0] = << >> /\ \A k \in 1 .. n : g[k] = g[k - 1] \o Parties(a, s[k]) BY <1>2 DEF Collects
<1> DEFINE h == Deltas(a, s)
           S == {k \in Nat : k <= n => g[k] \in Seq(A) /\ Worth(a, g[k]) = Sum(h, 1 .. k)}
<1>4. \A k \in 1 .. n : h[k] = Delta(a, s[k]) /\ h[k] \in Int BY <1>1 DEF Deltas, Valued
<1> HIDE DEF n, h
<1>5. 0 \in S
  <2>1. 1 .. 0 = {} OBVIOUS
  <2>2. Sum(h, 1 .. 0) = 0 BY <2>1, SumEmpty
  <2>3. DOMAIN << >> = {} OBVIOUS
  <2>4. Worth(a, << >>) = 0 BY <2>3, SumEmpty DEF Worth
  <2>5. << >> \in Seq(A) OBVIOUS
  <2>6. g[0] \in Seq(A) /\ Worth(a, g[0]) = Sum(h, 1 .. 0) BY <1>3, <2>2, <2>4, <2>5, Zenon
  <2> QED BY <2>6
<1>6. ASSUME NEW k \in S PROVE k + 1 \in S
  <2> SUFFICES ASSUME k + 1 <= n
               PROVE  g[k + 1] \in Seq(A) /\ Worth(a, g[k + 1]) = Sum(h, 1 .. (k + 1))
    OBVIOUS
  <2>1. k \in Nat /\ k + 1 \in 1 .. n /\ k + 1 - 1 = k /\ k <= n BY <1>1
  <2>2. g[k] \in Seq(A) /\ Worth(a, g[k]) = Sum(h, 1 .. k) BY <2>1
  <2> HIDE DEF S
  <2>3. PICK m \in 1 .. n : m = k + 1 /\ m - 1 = k BY <2>1
  <2>4. PICK e \in A : e = s[m] BY <1>1
  <2>5. PICK u, v : u = g[k] /\ v = Parties(a, e) OBVIOUS
  <2>6. g[m] = u \o v BY <1>3, <2>3, <2>4, <2>5, Zenon
  <2>7. v \in Seq(A) /\ Worth(a, v) = Delta(a, e) BY <2>5, PartiesWorth
  <2>8. u \in Seq(A) BY <2>2, <2>5, Zenon
  <2>9. Added(a, u, v) BY <2>7, <2>8, WorthJoined
  <2>10. u \o v \in Seq(A) /\ Worth(a, u \o v) = Worth(a, u) + Worth(a, v)
    BY <2>7, <2>8, <2>9, ConcatProperties DEF Added
  <2>11. Sum(h, 1 .. (k + 1)) = Sum(h, 1 .. k) + h[k + 1] BY <1>1, <1>4, <2>1, SumNext
  <2>12. h[k + 1] = Delta(a, e) BY <1>4, <2>1, <2>3, <2>4
  <2>13. Worth(a, g[m]) = Sum(h, 1 .. (k + 1)) BY <2>2, <2>5, <2>6, <2>7, <2>10, <2>11, <2>12
  <2> QED BY <2>3, <2>6, <2>10, <2>13
<1>7. S \in SUBSET Nat OBVIOUS
<1> HIDE DEF S
<1>8. n \in S BY <1>1, <1>5, <1>6, <1>7, Induction
<1>9. g[n] \in Seq(A) /\ Worth(a, g[n]) = Sum(h, 1 .. n) BY <1>1, <1>8 DEF S
<1> QED BY <1>1, <1>2, <1>9 DEF Worth, h

-----------------------------------------------------------------------------
(* What a replay does to the balance of an account. *)

Change(a, t) ==
  (IF t.to = a THEN t.amount ELSE 0) - (IF t.from = a /\ t.kind = "transfer" THEN t.amount ELSE 0)

Changes(a, txs) == [j \in DOMAIN txs |-> Change(a, txs[j])]

(***************************************************************************)
(* A credit and a debit, seen from one account.                            *)
(***************************************************************************)
LEMMA AccountMoves ==
  ASSUME NEW bal \in Balances, NEW c \in Account, NEW x \in Int, NEW a \in Account
  PROVE  /\ CreditAsset(bal, PKN, c, x) \in Balances
         /\ DebitAsset(bal, PKN, c, x) \in Balances
         /\ CreditAsset(bal, PKN, c, x)[PKN][a] = bal[PKN][a] + IF c = a THEN x ELSE 0
         /\ DebitAsset(bal, PKN, c, x)[PKN][a] = bal[PKN][a] - IF c = a THEN x ELSE 0
<1>1. PKN \in Asset BY AccountAssumption
<1>2. bal[PKN][a] \in Int BY <1>1 DEF Balances
<1> QED BY <1>1, <1>2 DEF CreditAsset, DebitAsset, Balances

(***************************************************************************)
(* An accepted payment or mint changes a balance by its amount.            *)
(***************************************************************************)
LEMMA BalanceStep ==
  ASSUME NEW l, Sound(l), NEW t \in Tx, Accepts(l, t), Additive(t), NEW a \in Account
  PROVE  /\ Transaction(l, t).bal[PKN][a] = l.bal[PKN][a] + Change(a, t)
         /\ Change(a, t) \in Int /\ l.bal[PKN][a] \in Int
<1>1. l \in LedgerType /\ l.bal \in Balances BY DEF Sound, LedgerType, Balances
<1>2. t.from \in Account /\ t.to \in Account /\ t.amount \in Nat /\ t.amount \in Int BY TxFields
<1>3. l.bal[PKN][a] \in Int BY <1>1, AccountAssumption DEF Balances
<1>4. Change(a, t) \in Int BY <1>2 DEF Change
<1>5. Transaction(l, t) = Apply(l, t) BY DEF Transaction
<1>6. CASE t.kind = "mint"
  <2>1. Apply(l, t) = Mint(l, t) BY <1>6 DEF Apply, ContractKinds
  <2>2. Mint(l, t).bal = CreditAsset(l.bal, PKN, t.to, t.amount) BY PaymentBalances
  <2>3. CreditAsset(l.bal, PKN, t.to, t.amount)[PKN][a] = l.bal[PKN][a] + IF t.to = a THEN t.amount ELSE 0
    BY <1>1, <1>2, AccountMoves
  <2>4. Change(a, t) = IF t.to = a THEN t.amount ELSE 0 BY <1>2, <1>6 DEF Change
  <2> QED BY <1>3, <1>4, <1>5, <2>1, <2>2, <2>3, <2>4
<1>7. CASE t.kind = "transfer"
  <2>1. Apply(l, t) = Transfer(l, t) BY <1>7 DEF Apply, ContractKinds
  <2>2. PICK B : B = DebitAsset(l.bal, PKN, t.from, t.amount) OBVIOUS
  <2>3. /\ B \in Balances
        /\ B[PKN][a] = l.bal[PKN][a] - IF t.from = a THEN t.amount ELSE 0
    <3>1. /\ DebitAsset(l.bal, PKN, t.from, t.amount) \in Balances
          /\ DebitAsset(l.bal, PKN, t.from, t.amount)[PKN][a]
               = l.bal[PKN][a] - IF t.from = a THEN t.amount ELSE 0
      BY <1>1, <1>2, AccountMoves
    <3> QED BY <2>2, <3>1
  <2>4. CreditAsset(B, PKN, t.to, t.amount)[PKN][a] = B[PKN][a] + IF t.to = a THEN t.amount ELSE 0
    BY <1>2, <2>3, AccountMoves
  <2>5. Transfer(l, t).bal = CreditAsset(B, PKN, t.to, t.amount)
    <3>1. Recorded(l, t) \in LedgerType BY <1>1, RecordedType
    <3>2. PICK r \in LedgerType : r = Recorded(l, t) BY <3>1
    <3>3. Transfer(l, t) = [r EXCEPT !.bal = CreditAsset(B, PKN, t.to, t.amount)] BY <2>2, <3>2 DEF Transfer
    <3> QED BY <3>2, <3>3 DEF LedgerType
  <2>6. Change(a, t) = (IF t.to = a THEN t.amount ELSE 0) - (IF t.from = a THEN t.amount ELSE 0)
    BY <1>7 DEF Change
  <2>7. Transaction(l, t).bal[PKN][a]
          = (l.bal[PKN][a] - IF t.from = a THEN t.amount ELSE 0) + IF t.to = a THEN t.amount ELSE 0
    BY <1>5, <2>1, <2>3, <2>4, <2>5
  <2> QED BY <1>2, <1>3, <1>4, <2>6, <2>7
<1> QED BY <1>6, <1>7 DEF Additive

(***************************************************************************)
(* A list of them changes it by the sum.                                   *)
(***************************************************************************)
LEMMA TxsBalance ==
  ASSUME NEW l, Sound(l), NEW txs \in Seq(Tx), AllAccepted(l, txs),
         \A j \in DOMAIN txs : Additive(txs[j]), NEW a \in Account
  PROVE  /\ FoldLeft(Transaction, l, txs).bal[PKN][a] = l.bal[PKN][a] + Sum(Changes(a, txs), DOMAIN txs)
         /\ Sum(Changes(a, txs), DOMAIN txs) \in Int
<1> DEFINE F(k) == FoldLeft(Transaction, l, SubSeq(txs, 1, k))
           G == Changes(a, txs)
           S == {k \in Nat : k <= Len(txs) => F(k).bal[PKN][a] = l.bal[PKN][a] + Sum(G, 1 .. k)}
<1>1. F(0) = l /\ \A k \in 1 .. Len(txs) : F(k) = Transaction(F(k - 1), txs[k]) BY TxFold
<1>2. Len(txs) \in Nat /\ \A k \in 1 .. Len(txs) : txs[k] \in Tx OBVIOUS
<1>3. \A k \in 0 .. Len(txs) : Sound(F(k)) BY TxsSound
<1>4. \A k \in 1 .. Len(txs) : Accepts(F(k - 1), txs[k]) BY DEF AllAccepted
<1>5. SubSeq(txs, 1, Len(txs)) = txs /\ DOMAIN txs = 1 .. Len(txs) BY FoldStart
<1>6. F(Len(txs)) = FoldLeft(Transaction, l, txs) BY <1>5
<1>7. \A k \in 1 .. Len(txs) : G[k] = Change(a, txs[k]) /\ G[k] \in Int
  <2>1. \A k \in 1 .. Len(txs) : txs[k].amount \in Nat BY <1>2, TxFields
  <2>2. \A k \in 1 .. Len(txs) : G[k] = Change(a, txs[k]) BY <1>5 DEF Changes
  <2> QED BY <2>1, <2>2 DEF Change
<1>8. l.bal[PKN][a] \in Int BY AccountAssumption DEF Sound, LedgerType
<1> HIDE DEF F, G
<1>9. 0 \in S
  <2>1. 1 .. 0 = {} OBVIOUS
  <2>2. Sum(G, 1 .. 0) = 0 BY <2>1, SumEmpty
  <2> QED BY <1>1, <1>8, <2>2
<1>10. ASSUME NEW k \in S PROVE k + 1 \in S
  <2> SUFFICES ASSUME k + 1 <= Len(txs)
               PROVE  F(k + 1).bal[PKN][a] = l.bal[PKN][a] + Sum(G, 1 .. (k + 1))
    OBVIOUS
  <2>1. k + 1 \in 1 .. Len(txs) /\ k + 1 - 1 = k /\ k <= Len(txs) /\ k \in 0 .. Len(txs) /\ k \in Nat BY <1>2
  <2>2. F(k).bal[PKN][a] = l.bal[PKN][a] + Sum(G, 1 .. k) BY <2>1
  <2> HIDE DEF S
  <2>3. F(k + 1) = Transaction(F(k), txs[k + 1]) BY <1>1, <2>1
  <2>4. Sound(F(k)) /\ Accepts(F(k), txs[k + 1]) /\ txs[k + 1] \in Tx /\ Additive(txs[k + 1])
    BY <1>2, <1>3, <1>4, <1>5, <2>1
  <2>5. F(k + 1).bal[PKN][a] = F(k).bal[PKN][a] + Change(a, txs[k + 1]) BY <2>3, <2>4, BalanceStep
  <2>6. Sum(G, 1 .. k) \in Int /\ Sum(G, 1 .. (k + 1)) = Sum(G, 1 .. k) + G[k + 1]
    BY <1>2, <1>7, <2>1, SumNext
  <2>7. G[k + 1] = Change(a, txs[k + 1]) /\ G[k + 1] \in Int BY <1>7, <2>1
  <2> QED BY <1>8, <2>2, <2>5, <2>6, <2>7
<1>11. S \in SUBSET Nat OBVIOUS
<1> HIDE DEF S
<1>12. Len(txs) \in S BY <1>2, <1>9, <1>10, <1>11, Induction
<1>13. F(Len(txs)).bal[PKN][a] = l.bal[PKN][a] + Sum(G, 1 .. Len(txs)) BY <1>2, <1>12 DEF S
<1>14. Sum(G, 1 .. Len(txs)) \in Int
  <2>1. IsFiniteSet(1 .. Len(txs)) BY <1>2, FS_Interval
  <2> QED BY <1>7, <2>1, SumInteger
<1> QED BY <1>5, <1>6, <1>13, <1>14 DEF G

(***************************************************************************)
(* A block pays its miner on top.                                          *)
(***************************************************************************)
LEMMA BlockBalance ==
  ASSUME NEW l, Sound(l), NEW b \in Block, AllAccepted(MarkValidator(l, b.miner), b.txs),
         \A j \in DOMAIN b.txs : Additive(b.txs[j]), NEW a \in Account
  PROVE  /\ ReplayBlock(l, b).bal[PKN][a]
              = (l.bal[PKN][a] + Sum(Changes(a, b.txs), DOMAIN b.txs))
                  + IF b.miner = a THEN MinerReward ELSE 0
         /\ l.bal[PKN][a] \in Int /\ Sum(Changes(a, b.txs), DOMAIN b.txs) \in Int
<1> DEFINE m == MarkValidator(l, b.miner)
           n == FoldLeft(Transaction, m, b.txs)
<1>1. b.txs \in Seq(Tx) /\ b.miner \in Account BY AccountAssumption DEF Block
<1>2. Sound(m) /\ m.bal = l.bal BY <1>1, MinerSound
<1>3. l.bal[PKN][a] \in Int BY AccountAssumption DEF Sound, LedgerType
<1> HIDE DEF m
<1>4. /\ n.bal[PKN][a] = m.bal[PKN][a] + Sum(Changes(a, b.txs), DOMAIN b.txs)
      /\ Sum(Changes(a, b.txs), DOMAIN b.txs) \in Int
  BY <1>1, <1>2, TxsBalance DEF m
<1>5. Sound(n)
  <2>1. Len(b.txs) \in 0 .. Len(b.txs) /\ SubSeq(b.txs, 1, Len(b.txs)) = b.txs BY <1>1, FoldStart
  <2> QED BY <1>1, <1>2, <2>1, TxsSound
<1>6. ReplayBlock(l, b) = PayReward(n, b.miner) BY DEF ReplayBlock, m
<1> HIDE DEF n
<1>7. PayReward(n, b.miner).bal = CreditAsset(n.bal, PKN, b.miner, MinerReward) BY <1>1, <1>5, MinerSound
<1>8. n.bal \in Balances BY <1>5 DEF Sound, LedgerType, Balances
<1>9. MinerReward \in Int BY AmountAssumption
<1>10. CreditAsset(n.bal, PKN, b.miner, MinerReward)[PKN][a]
         = n.bal[PKN][a] + IF b.miner = a THEN MinerReward ELSE 0
  BY <1>1, <1>8, <1>9, AccountMoves
<1> QED BY <1>2, <1>3, <1>4, <1>6, <1>7, <1>10

-----------------------------------------------------------------------------
(* The pages of an address and its balance. *)

Mined(best, a, k) == Cardinality({i \in 1 .. k : best[i].miner = a})

AllAdditive(best) ==
  \A i \in DOMAIN best : \A j \in DOMAIN best[i].txs : Additive(best[i].txs[j])

(***************************************************************************)
(* The entries of a block.                                                 *)
(***************************************************************************)
LEMMA ListingWorth ==
  ASSUME NEW best \in Seq(Block), AllAdditive(best), NEW i \in 1 .. Len(best), NEW a
  PROVE  /\ Listing(best, i) \in Seq(Entries(best, i)) /\ Sums(Range(Listing(best, i)))
         /\ Worth(a, Listing(best, i)) = Sum(Changes(a, best[i].txs), DOMAIN best[i].txs)
<1> DEFINE txs == best[i].txs
           t == Listing(best, i)
<1>1. i \in DOMAIN best /\ best[i] \in Block OBVIOUS
<1>2. txs \in Seq(Tx) BY <1>1 DEF Block
<1>3. PICK m \in Nat : DOMAIN txs = 1 .. m /\ \A j \in 1 .. m : txs[j] \in Tx BY <1>2
<1>4. DOMAIN t = 1 .. m /\ t = [j \in 1 .. m |-> t[j]] BY <1>3 DEF Listing
<1>5. \A j \in 1 .. m : t[j].tx = txs[j] BY <1>3 DEF Listing, Entry, ExplorerTx
<1>6. \A j \in 1 .. m : Additive(txs[j]) BY <1>1, <1>3 DEF AllAdditive
<1>7. \A j \in 1 .. m : txs[j].amount \in Nat BY <1>3, TxFields
<1> HIDE DEF txs, t
<1>8. \A j \in 1 .. m : t[j] \in Range(t) BY <1>4 DEF Range
<1>9. i \in 1 .. i OBVIOUS
<1>10. Range(t) \in SUBSET Entries(best, i) BY <1>9 DEF Entries, t
<1>11. t \in Seq(Entries(best, i))
  <2>1. \A j \in 1 .. m : t[j] \in Entries(best, i) BY <1>8, <1>10
  <2>2. t \in [1 .. m -> Entries(best, i)] BY <1>4, <2>1
  <2> QED BY <2>2
<1>12. Sums(Range(t))
  <2> SUFFICES ASSUME NEW e \in Range(t) PROVE Additive(e.tx) /\ e.tx.amount \in Nat BY DEF Sums
  <2>1. PICK j \in 1 .. m : e = t[j] BY <1>4 DEF Range
  <2> QED BY <1>5, <1>6, <1>7, <2>1
<1>13. \A j \in 1 .. m : Deltas(a, t)[j] = Changes(a, txs)[j]
  BY <1>3, <1>4, <1>5 DEF Deltas, Changes, Delta, Change
<1>14. IsFiniteSet(1 .. m) BY FS_Interval
<1>15. Sum(Deltas(a, t), 1 .. m) = Sum(Changes(a, txs), 1 .. m) BY <1>13, <1>14, SumSame
<1> QED BY <1>3, <1>4, <1>11, <1>12, <1>15 DEF Worth, txs, t

(***************************************************************************)
(* The whole index.                                                        *)
(***************************************************************************)
LEMMA EntriesSum ==
  ASSUME NEW best \in Seq(Block), AllAdditive(best), NEW a
  PROVE  /\ Sums(Entries(best, Len(best))) /\ Valued(a, Entries(best, Len(best)))
         /\ \A k \in 0 .. Len(best) : Entries(best, k) \subseteq Entries(best, Len(best))
<1> DEFINE E == Entries(best, Len(best))
<1>1. ASSUME NEW e \in E PROVE Additive(e.tx) /\ e.tx.amount \in Nat
  <2>1. PICK i \in 1 .. Len(best) : e \in Range(Listing(best, i)) BY DEF Entries
  <2>2. Sums(Range(Listing(best, i))) BY ListingWorth
  <2> QED BY <2>1, <2>2 DEF Sums
<1>2. Sums(E)
  <2> HIDE DEF E
  <2> QED BY <1>1 DEF Sums
<1>3. ASSUME NEW e \in E PROVE Delta(a, e) \in Int
  <2> HIDE DEF E
  <2>1. e.tx.amount \in Nat BY <1>1
  <2> QED BY <2>1 DEF Delta
<1>4. Valued(a, E)
  <2> HIDE DEF E
  <2> QED BY <1>3 DEF Valued
<1>5. ASSUME NEW k \in 0 .. Len(best), NEW e \in Entries(best, k) PROVE e \in E
  <2>1. PICK i \in 1 .. k : e \in Range(Listing(best, i)) BY DEF Entries
  <2>2. i \in 1 .. Len(best) OBVIOUS
  <2> QED BY <2>1, <2>2 DEF Entries
<1> HIDE DEF E
<1>6. \A k \in 0 .. Len(best) : Entries(best, k) \subseteq E BY <1>5
<1> QED BY <1>2, <1>4, <1>6 DEF E

(***************************************************************************)
(* One block more that an account may have mined.                          *)
(***************************************************************************)
LEMMA MinedNext ==
  ASSUME NEW best, NEW a, NEW k \in Nat
  PROVE  /\ Mined(best, a, k) \in Nat
         /\ Mined(best, a, k + 1) = Mined(best, a, k) + IF best[k + 1].miner = a THEN 1 ELSE 0
<1> DEFINE M(n) == {i \in 1 .. n : best[i].miner = a}
<1>1. IsFiniteSet(M(k)) /\ Cardinality(M(k)) \in Nat
  <2>1. IsFiniteSet(1 .. k) BY FS_Interval
  <2>2. M(k) \in SUBSET (1 .. k) OBVIOUS
  <2> HIDE DEF M
  <2>3. IsFiniteSet(M(k)) BY <2>1, <2>2, FS_Subset
  <2> QED BY <2>3, FS_CardinalityType
<1>2. 1 .. (k + 1) = (1 .. k) \cup {k + 1} /\ k + 1 \notin 1 .. k OBVIOUS
<1>3. M(k + 1) = IF best[k + 1].miner = a THEN M(k) \cup {k + 1} ELSE M(k) BY <1>2
<1>4. k + 1 \notin M(k) OBVIOUS
<1> HIDE DEF M
<1>5. Cardinality(M(k) \cup {k + 1}) = Cardinality(M(k)) + 1 BY <1>1, <1>4, FS_AddElement
<1>6. Cardinality(M(k + 1)) = Cardinality(M(k)) + IF best[k + 1].miner = a THEN 1 ELSE 0
  BY <1>1, <1>3, <1>5
<1> QED BY <1>1, <1>6 DEF M, Mined

(***************************************************************************)
(* After k blocks: the list that the index has built so far, and the       *)
(* balance that it explains.                                               *)
(***************************************************************************)
Explains(best, a, g, k, l) ==
  /\ g[k] \in Seq(Entries(best, Len(best)))
  /\ l.bal[PKN][a] = (Genesis[a] + Mined(best, a, k) * MinerReward) + Worth(a, g[k])

(***************************************************************************)
(* One block more.                                                         *)
(***************************************************************************)
LEMMA ExplainsStep ==
  ASSUME NEW best \in Seq(Block), Kept(best), AllAdditive(best), NEW a \in Account,
         NEW g, Indexes(best, g), NEW k \in Nat, k + 1 <= Len(best),
         NEW l, l = BuildLedgerFromBlocks(SubSeq(best, 1, k)), Sound(l), Explains(best, a, g, k, l)
  PROVE  Explains(best, a, g, k + 1, ReplayBlock(l, best[k + 1]))
<1> DEFINE b == best[k + 1]
           E == Entries(best, Len(best))
<1>1. Len(best) \in Nat /\ k + 1 \in 1 .. Len(best) /\ k + 1 - 1 = k /\ b \in Block /\ k + 1 \in DOMAIN best
  OBVIOUS
<1>2. AllAccepted(MarkValidator(l, b.miner), b.txs) BY <1>1 DEF Kept
<1>3. \A j \in DOMAIN b.txs : Additive(b.txs[j]) BY <1>1 DEF AllAdditive
<1>4. PICK c \in Int : c = Sum(Changes(a, b.txs), DOMAIN b.txs)
  BY <1>1, <1>2, <1>3, BlockBalance
<1>5. /\ ReplayBlock(l, b).bal[PKN][a] = (l.bal[PKN][a] + c) + IF b.miner = a THEN MinerReward ELSE 0
      /\ l.bal[PKN][a] \in Int
  BY <1>1, <1>2, <1>3, <1>4, BlockBalance
<1>6. PICK m \in 1 .. Len(best) : m = k + 1 /\ m - 1 = k BY <1>1
<1>7. PICK u, t : u = g[k] /\ t = Listing(best, m) OBVIOUS
<1>8. g[m] = u \o t BY <1>6, <1>7, Zenon DEF Indexes
<1>9. /\ Valued(a, E) /\ \A n \in 0 .. Len(best) : Entries(best, n) \subseteq E
  BY EntriesSum
<1>10. t \in Seq(Entries(best, m)) /\ Worth(a, t) = c
  BY <1>4, <1>6, <1>7, ListingWorth
<1>11. m \in 0 .. Len(best) OBVIOUS
<1> HIDE DEF E
<1>12. t \in Seq(E) BY <1>9, <1>10, <1>11, SeqMonotonic
<1>13. u \in Seq(E) BY <1>7 DEF Explains, E
<1>14. Added(a, u, t) /\ Worth(a, u) \in Int BY <1>9, <1>12, <1>13, WorthJoined
<1>15. u \o t \in Seq(E) /\ Worth(a, u \o t) = Worth(a, u) + c
  BY <1>10, <1>12, <1>13, <1>14, ConcatProperties DEF Added
<1>16. PICK x \in Nat : x = Mined(best, a, k) BY MinedNext
<1>17. Mined(best, a, m) = x + IF b.miner = a THEN 1 ELSE 0 BY <1>6, <1>16, MinedNext
<1>18. PICK r \in Nat, y \in Int : r = MinerReward /\ y = Genesis[a] BY AmountAssumption
<1>19. l.bal[PKN][a] = (y + x * r) + Worth(a, u) BY <1>7, <1>16, <1>18 DEF Explains
<1>20. Mined(best, a, m) * r = x * r + IF b.miner = a THEN r ELSE 0
  <2>1. CASE b.miner = a
    <3>1. (x + 1) * r = x * r + r OBVIOUS
    <3> QED BY <1>17, <2>1, <3>1
  <2>2. CASE b.miner # a
    <3>1. x * r \in Int OBVIOUS
    <3>2. Mined(best, a, m) = x BY <1>17, <2>2
    <3> QED BY <2>2, <3>1, <3>2
  <2> QED BY <2>1, <2>2
<1>21. ReplayBlock(l, b).bal[PKN][a] = (y + Mined(best, a, m) * r) + Worth(a, g[m])
  <2>1. PICK z \in Int : z = x * r OBVIOUS
  <2>2. PICK w \in Int : w = Worth(a, u) BY <1>14
  <2>3. Worth(a, g[m]) = w + c BY <1>8, <1>15, <2>2
  <2>4. Mined(best, a, m) * r = z + IF b.miner = a THEN r ELSE 0 BY <1>20, <2>1
  <2>5. l.bal[PKN][a] = (y + z) + w BY <1>19, <2>1, <2>2
  <2>6. PICK v \in Int : v = IF b.miner = a THEN r ELSE 0 OBVIOUS
  <2>7. ReplayBlock(l, b).bal[PKN][a] = (((y + z) + w) + c) + v BY <1>5, <1>18, <2>5, <2>6
  <2>8. Mined(best, a, m) * r = z + v BY <2>4, <2>6
  <2>9. (((y + z) + w) + c) + v = (y + (z + v)) + (w + c) OBVIOUS
  <2> QED BY <2>3, <2>7, <2>8, <2>9
<1>22. g[m] \in Seq(E) BY <1>8, <1>15
<1> QED BY <1>6, <1>18, <1>21, <1>22 DEF Explains, b, E

(***************************************************************************)
(* Every prefix of the branch.                                             *)
(***************************************************************************)
LEMMA BalanceExplained ==
  ASSUME NEW best \in Seq(Block), Kept(best), AllAdditive(best), NEW a \in Account,
         NEW g, Indexes(best, g)
  PROVE  Explains(best, a, g, Len(best), BuildLedgerFromBlocks(best))
<1> DEFINE L(k) == BuildLedgerFromBlocks(SubSeq(best, 1, k))
           S == {k \in Nat : k <= Len(best) => Explains(best, a, g, k, L(k))}
<1>1. Len(best) \in Nat OBVIOUS
<1>2. /\ L(0) = InitializeFromGenesis
      /\ \A k \in 1 .. Len(best) : L(k) = ReplayBlock(L(k - 1), best[k])
  BY BlockFold
<1>3. \A k \in 0 .. Len(best) : Sound(L(k)) BY BranchReplayed DEF Replays
<1>4. 0 \in S
  <2>1. g[0] = << >> BY DEF Indexes
  <2>2. DOMAIN << >> = {} /\ << >> \in Seq(Entries(best, Len(best))) OBVIOUS
  <2>3. Worth(a, << >>) = 0 BY <2>2, SumEmpty DEF Worth
  <2>4. {i \in 1 .. 0 : best[i].miner = a} = {} OBVIOUS
  <2>5. Mined(best, a, 0) = 0 BY <2>4, FS_EmptySet DEF Mined
  <2>6. InitializeFromGenesis.bal[PKN][a] = Genesis[a] /\ Genesis[a] \in Int /\ MinerReward \in Int
    BY AccountAssumption, AmountAssumption DEF InitializeFromGenesis
  <2>7. InitializeFromGenesis.bal[PKN][a] = (Genesis[a] + Mined(best, a, 0) * MinerReward) + Worth(a, g[0])
    <3>1. Worth(a, g[0]) = 0 BY <2>1, <2>3
    <3> QED BY <2>5, <2>6, <3>1
  <2>8. g[0] \in Seq(Entries(best, Len(best))) BY <2>1, <2>2
  <2>9. Explains(best, a, g, 0, InitializeFromGenesis) BY <2>7, <2>8 DEF Explains
  <2> HIDE DEF L
  <2> QED BY <1>2, <2>9
<1>5. ASSUME NEW k \in S PROVE k + 1 \in S
  <2> SUFFICES ASSUME k + 1 <= Len(best) PROVE Explains(best, a, g, k + 1, L(k + 1)) OBVIOUS
  <2>1. k \in Nat /\ k + 1 \in 1 .. Len(best) /\ k + 1 - 1 = k /\ k <= Len(best) /\ k \in 0 .. Len(best)
    BY <1>1
  <2>2. Explains(best, a, g, k, L(k)) /\ Sound(L(k)) BY <1>3, <2>1
  <2> HIDE DEF S
  <2>3. Explains(best, a, g, k + 1, ReplayBlock(L(k), best[k + 1])) BY <2>1, <2>2, ExplainsStep
  <2>4. L(k + 1) = ReplayBlock(L(k), best[k + 1])
    <3> HIDE DEF L
    <3> QED BY <1>2, <2>1
  <2> QED BY <2>3, <2>4
<1>6. S \in SUBSET Nat OBVIOUS
<1> HIDE DEF S
<1>7. Len(best) \in S BY <1>1, <1>4, <1>5, <1>6, Induction
<1>8. SubSeq(best, 1, Len(best)) = best BY FoldStart
<1>9. Explains(best, a, g, Len(best), L(Len(best))) BY <1>1, <1>7 DEF S
<1> QED BY <1>8, <1>9

(***************************************************************************)
(* What a client collects from the pages of an address is worth what the   *)
(* index is.                                                               *)
(***************************************************************************)
LEMMA PagesWorth ==
  ASSUME NEW best \in Seq(Block), AllAdditive(best), NEW a \in Account, NEW limit \in Limits,
         NEW bs, best = CanonicalBlocks(bs, 0)
  PROVE  /\ WalkAddress(BuildExplorerIndex(bs), a, limit) \in Seq(Entries(best, Len(best)))
         /\ Worth(a, WalkAddress(BuildExplorerIndex(bs), a, limit)) = Worth(a, IndexedTxs(best))
<1> DEFINE E == Entries(best, Len(best))
           X == IndexedTxs(best)
           s == TxsOfAddress(X, a)
           N == NewestFirst(s)
<1>1. Sums(E) /\ Valued(a, E) BY EntriesSum
<1>2. X \in Seq(E) /\ Range(X) = E BY IndexRange
<1>3. ASSUME NEW e \in E PROVE e.blockNumber \in Int /\ e.transactionIndex \in Int
  <2>1. PICK i \in 1 .. Len(best) : \E j \in DOMAIN best[i].txs : e = Entry(best, i, j)
    BY <1>2, IndexEntry
  <2>2. PICK j \in DOMAIN best[i].txs : e = Entry(best, i, j) BY <2>1
  <2>3. e.blockNumber = i /\ e.transactionIndex = j BY <2>2, IndexEntry
  <2>4. best[i] \in Block OBVIOUS
  <2>5. best[i].txs \in Seq(Tx) BY <2>4 DEF Block
  <2>6. j \in Int BY <2>5
  <2> QED BY <2>3, <2>6
<1>4. PICK idx : idx = BuildExplorerIndex(bs) OBVIOUS
<1>5. idx.txsByAddress[a] = s BY <1>4 DEF BuildExplorerIndex
<1> HIDE DEF E, X
<1>6. s \in Seq(E) /\ Worth(a, s) = Worth(a, X) BY <1>1, <1>2, AddressWorth
<1> HIDE DEF s
<1>7. PICK n \in Nat : n = Len(s) BY <1>6
<1>8. Dated(s, n)
  <2>1. DOMAIN s = 1 .. n /\ \A i \in 1 .. n : s[i] \in E BY <1>6, <1>7
  <2> QED BY <1>3, <1>7, <2>1 DEF Dated
<1>9. N \in Seq(E) /\ Len(N) = n /\ Worth(a, N) = Worth(a, s)
  BY <1>1, <1>6, <1>7, <1>8, WorthSorted
<1>10. Sorted(idx, a, E, N, n) BY <1>5, <1>9 DEF Sorted
<1>11. Len(idx.txsByAddress[a]) = n BY <1>5, <1>7
<1>12. limit \in Nat \ {0} /\ None \notin Nat BY ExplorerAssumption
<1> HIDE DEF N
<1>13. WalkAddress(idx, a, limit) = N BY <1>10, <1>11, <1>12, WalkIsSorted
<1> QED BY <1>4, <1>6, <1>9, <1>13 DEF E, X

(***************************************************************************)
(* The pages of an address give the balance that the same answer reports,  *)
(* for every tree, every account and every page size.                      *)
(***************************************************************************)
THEOREM AddressPagesAddUp ==
  ASSUME Ordered(Hash) PROVE Spec => []AddressAddsUp
<1>1. Typed /\ Passed => AddressAddsUp
  <2> DEFINE best == CanonicalBlocks(blocks, 0)
             idx == BuildExplorerIndex(blocks)
  <2> SUFFICES ASSUME blocks \in Seq(Block), Passed, NoEquivocation(blocks), AllAdditive(best),
                      NEW a \in Account, NEW limit \in Limits
               PROVE  LedgerFromBlockchain(blocks, 0).bal[PKN][a] =
                        Genesis[a] + Cardinality({i \in DOMAIN best : best[i].miner = a}) * MinerReward
                          + MapThenSumSet(LAMBDA i : Delta(a, WalkAddress(idx, a, limit)[i]),
                                          DOMAIN WalkAddress(idx, a, limit))
    BY DEF Typed, AddressAddsUp, AllAdditive
  <2>1. best \in Seq(Block) /\ Kept(best) BY BestKept
  <2>2. LedgerFromBlockchain(blocks, 0) = BuildLedgerFromBlocks(best) BY DEF LedgerFromBlockchain
  <2>3. PICK s : s = WalkAddress(idx, a, limit) OBVIOUS
  <2>4. s \in Seq(Entries(best, Len(best))) /\ Worth(a, s) = Worth(a, IndexedTxs(best))
    BY <2>1, <2>3, PagesWorth
  <2>5. MapThenSumSet(LAMBDA i : Delta(a, s[i]), DOMAIN s) = Worth(a, s) BY <2>4, WorthIs
  <2> HIDE DEF best, idx
  <2>6. PICK g : Indexes(best, g) /\ IndexedTxs(best) = g[Len(best)] BY <2>1, IndexWay
  <2>7. Explains(best, a, g, Len(best), BuildLedgerFromBlocks(best)) BY <2>1, <2>6, BalanceExplained
  <2>8. DOMAIN best = 1 .. Len(best) BY <2>1
  <2>9. Mined(best, a, Len(best)) = Cardinality({i \in DOMAIN best : best[i].miner = a})
    BY <2>8 DEF Mined
  <2> QED BY <2>2, <2>3, <2>4, <2>5, <2>6, <2>7, <2>9 DEF Explains
<1> QED BY <1>1, BlocksTyped, BlocksPassed, PTL
=============================================================================
