----------------------------- MODULE ProcessProofs ----------------------------
(***************************************************************************)
(* Proofs about the goroutines of one process, for every number of         *)
(* connections, requests, blocks and transactions.                         *)
(***************************************************************************)
EXTENDS Process, BlockTreeProofs

-----------------------------------------------------------------------------
(* The mempool. *)

(***************************************************************************)
(* Pruning keeps a part of the mempool.                                    *)
(***************************************************************************)
LEMMA Pruned ==
  ASSUME NEW l, NEW pool, NEW kept \in Prunings(l, pool)
  PROVE  kept \subseteq pool
<1>1. PICK s \in SetToAllKPermutations(pool) : kept = Range(s) BY DEF Prunings
<1>2. PICK sub \in SUBSET pool : s \in SetToSeqs(sub) BY DEF SetToAllKPermutations
<1>3. s \in [1 .. Cardinality(sub) -> sub] BY <1>2 DEF SetToSeqs
<1> QED BY <1>1, <1>3 DEF Range

OnePerNonce(pool) ==
  \A x, y \in pool : x.evm /\ y.evm /\ x.from = y.from /\ x.nonce = y.nonce => x = y

(***************************************************************************)
(* A transaction that enters replaces the pending one of its nonce.        *)
(***************************************************************************)
LEMMA EnteredOnce ==
  ASSUME NEW pool, OnePerNonce(pool), NEW t PROVE OnePerNonce(Entered(pool, t))
BY DEF OnePerNonce, Entered, Replaced

(***************************************************************************)
(* A goroutine that changes the mempool removes pending transactions, or   *)
(* enters one as handlePoSTransaction does.                                *)
(***************************************************************************)
LEMMA MempoolStep ==
  ASSUME [Next]_vars
  PROVE  mempool' \subseteq mempool \/ \E x : mempool' = Entered(mempool, x)
<1>1. ASSUME NEW t \in Thread, Step(t)
      PROVE  mempool' \subseteq mempool \/ \E x : mempool' = Entered(mempool, x)
  <2>1. CASE RemoveIncluded(t) BY <2>1 DEF RemoveIncluded, NotIncluded
  <2>2. CASE Evict(t) BY <2>2, Pruned DEF Evict
  <2>3. CASE EnterMempool(t) BY <2>3 DEF EnterMempool
  <2> QED BY <1>1, <2>1, <2>2, <2>3
      DEF Step, AddBlock, RebuildLedger, AssignLedger, ReadPruneLedger, Remember,
          ReadParentBlocks, ReadParentLedger, ReadParentHash, SelectTransactions,
          BuildReplacement, ReplaceBlocks, ReadBestNonce, CheckPendingNonce, CheckBalance
<1> QED BY <1>1
    DEF Next, vars, ReceiveBlock, ReceiveReply, HandlePoSTransaction, AdminRequest, SendRaw,
        MineOneSlot, LoseSlot, MineSlot

(***************************************************************************)
(* Requests and readers that submit at the same time leave one pending     *)
(* wallet transaction per sender and nonce.                                *)
(***************************************************************************)
THEOREM OnePendingForEachNonce == Spec => []OnePendingPerNonce
<1>1. Init => OnePendingPerNonce BY DEF Init, OnePendingPerNonce
<1>2. OnePendingPerNonce /\ [Next]_vars => OnePendingPerNonce'
  <2> SUFFICES ASSUME OnePerNonce(mempool), [Next]_vars PROVE OnePerNonce(mempool')
    BY DEF OnePendingPerNonce, OnePerNonce
  <2>1. CASE mempool' \subseteq mempool BY <2>1 DEF OnePerNonce
  <2>2. CASE \E x : mempool' = Entered(mempool, x) BY <2>2, EnteredOnce
  <2> QED BY <2>1, <2>2, MempoolStep
<1> QED BY <1>1, <1>2, PTL DEF Spec
-----------------------------------------------------------------------------
(* Types. *)

Reply == [height: Nat, whole: BOOLEAN, blocks: Seq(Block)]

(***************************************************************************)
(* What the local variables of a handler hold at each of its steps.  The   *)
(* block tells the two users of "prune" and "evict" apart: handleBlock and *)
(* ApplyBlock have one, a miner that still looks for one has its slot.     *)
(***************************************************************************)
TaskOK(k) ==
  /\ DOMAIN k = DOMAIN Idle
  /\ k.block \in Block \cup {None} /\ k.tx \in Tx \cup {None}
  /\ k.view \in Seq(Block) /\ k.base \in Seq(Block) /\ k.parent \in Hash
  /\ k.at \in {"add", "include", "remember"} => k.block # None
  /\ k.at \in {"branch", "ledger", "tip", "select"} => k.slot \in Slot
  /\ k.at \in {"prune", "evict"} /\ k.block = None => k.slot \in Slot
  /\ k.at = "install" => k.reply \in Reply /\ k.reply.blocks # << >>
  /\ k.at \in {"enter", "nonce", "pending", "balance"} => k.tx \in Tx

Tasks == DOMAIN task = Thread /\ \A t \in Thread : TaskOK(task[t])

Typed ==
  /\ chain \in Seq(Block) /\ committed \in Seq(Block)
  /\ mempool \subseteq Tx /\ IsFiniteSet(mempool)
  /\ seenTx \subseteq TxId /\ seenBlock \subseteq Hash
  /\ slot \in Nat /\ jobs \in Nat
  /\ Tasks

(***************************************************************************)
(* A handler at rest, and one that starts.                                 *)
(***************************************************************************)
LEMMA Started ==
  /\ TaskOK(Idle)
  /\ \A b \in Block : TaskOK([Idle EXCEPT !.at = "add", !.block = b])
  /\ \A s \in Slot : \A k : TaskOK([Idle EXCEPT !.at = "branch", !.slot = s, !.tickets = k])
  /\ \A r \in Reply : r.blocks # << >> =>
       \A how : TaskOK([Idle EXCEPT !.at = "install", !.reply = r, !.how = how])
  /\ \A bs \in Seq(Block) : TaskOK([Idle EXCEPT !.at = "replace", !.base = bs])
  /\ TaskOK([Idle EXCEPT !.at = "rebuild"])
  /\ \A x \in Tx : \A at \in {"enter", "nonce", "balance"} : TaskOK([Idle EXCEPT !.at = at, !.tx = x])
<1>1. << >> \in Seq(Block) /\ GenesisHash \in Hash BY DEF GenesisHash, Hash
<1>2. None \notin Block BY ProcessAssumption
<1> QED BY <1>1, <1>2 DEF TaskOK, Idle

(***************************************************************************)
(* The steps inside a handler.                                             *)
(***************************************************************************)
LEMMA Continues ==
  ASSUME NEW k, TaskOK(k)
  PROVE  /\ k.at = "add" => TaskOK([k EXCEPT !.at = "rebuild"])
         /\ \A v \in Seq(Block) : k.at = "rebuild" => TaskOK([k EXCEPT !.at = "assign", !.view = v])
         /\ k.at = "assign" /\ k.block # None => TaskOK([k EXCEPT !.at = "include", !.view = << >>])
         /\ k.at = "include" => TaskOK([k EXCEPT !.at = "prune"])
         /\ \A v \in Seq(Block) : k.at = "prune" => TaskOK([k EXCEPT !.at = "evict", !.view = v])
         /\ k.at = "evict" =>
              TaskOK([k EXCEPT !.at = IF k.block = None THEN "select" ELSE "remember", !.view = << >>])
         /\ \A s : k.at = "branch" => TaskOK([k EXCEPT !.at = "ledger", !.slots = s])
         /\ \A v \in Seq(Block) : k.at = "ledger" => TaskOK([k EXCEPT !.at = "tip", !.base = v])
         /\ \A h \in Hash : k.at = "tip" => TaskOK([k EXCEPT !.at = "prune", !.parent = h])
         /\ \A i : k.at = "nonce" => TaskOK([k EXCEPT !.at = "pending", !.nonce = i])
<1>1. << >> \in Seq(Block) OBVIOUS
<1>2. k.at = "add" => TaskOK([k EXCEPT !.at = "rebuild"]) BY DEF TaskOK, Idle
<1>3. ASSUME NEW v \in Seq(Block), k.at = "rebuild" PROVE TaskOK([k EXCEPT !.at = "assign", !.view = v])
  BY <1>3 DEF TaskOK, Idle
<1>4. k.at = "assign" /\ k.block # None => TaskOK([k EXCEPT !.at = "include", !.view = << >>])
  BY <1>1 DEF TaskOK, Idle
<1>5. k.at = "include" => TaskOK([k EXCEPT !.at = "prune"]) BY DEF TaskOK, Idle
<1>6. ASSUME NEW v \in Seq(Block), k.at = "prune" PROVE TaskOK([k EXCEPT !.at = "evict", !.view = v])
  BY <1>6 DEF TaskOK, Idle
<1>7. ASSUME k.at = "evict", k.block = None
      PROVE  TaskOK([k EXCEPT !.at = "select", !.view = << >>])
  BY <1>1, <1>7 DEF TaskOK, Idle
<1>8. ASSUME k.at = "evict", k.block # None
      PROVE  TaskOK([k EXCEPT !.at = "remember", !.view = << >>])
  BY <1>1, <1>8 DEF TaskOK, Idle
<1>9. ASSUME NEW s, k.at = "branch" PROVE TaskOK([k EXCEPT !.at = "ledger", !.slots = s])
  BY <1>9 DEF TaskOK, Idle
<1>10. ASSUME NEW v \in Seq(Block), k.at = "ledger" PROVE TaskOK([k EXCEPT !.at = "tip", !.base = v])
  BY <1>10 DEF TaskOK, Idle
<1>11. ASSUME NEW h \in Hash, k.at = "tip" PROVE TaskOK([k EXCEPT !.at = "prune", !.parent = h])
  BY <1>11 DEF TaskOK, Idle
<1>12. ASSUME NEW i, k.at = "nonce" PROVE TaskOK([k EXCEPT !.at = "pending", !.nonce = i])
  BY <1>12 DEF TaskOK, Idle
<1> QED BY <1>2, <1>3, <1>4, <1>5, <1>6, <1>7, <1>8, <1>9, <1>10, <1>11, <1>12

(***************************************************************************)
(* A goroutine moves on.                                                   *)
(***************************************************************************)
LEMMA TaskStep ==
  ASSUME Tasks, NEW t \in Thread, NEW k, TaskOK(k), Goto(t, k)
  PROVE  Tasks'
BY DEF Tasks, Goto

(***************************************************************************)
(* The best branch without its last blocks is a list of blocks.            *)
(***************************************************************************)
LEMMA CanonicalTyped ==
  ASSUME Ordered(Hash), NEW bs \in Seq(Block), NEW rollback \in Nat
  PROVE  CanonicalBlocks(bs, rollback) \in Seq(Block)
<1> DEFINE leaf == BestLeafHash(bs)
           h == SubSeq(leaf, 1, Len(leaf) - rollback)
<1>1. leaf \in Hash /\ leaf \in Attached(bs) \cup {GenesisHash} BY BestLeaf
<1>2. CanonicalBlocks(bs, rollback) = BlocksTo(CalculateDepths(bs), h)
  BY DEF CanonicalBlocks, BestLeafHash
<1> HIDE DEF leaf
<1>3. Len(leaf) \in Nat BY <1>1 DEF Hash
<1>4. CASE Len(leaf) - rollback <= 0
  <2>1. h = << >> BY <1>1, <1>3, <1>4 DEF Hash
  <2> QED BY <1>2, <2>1, BranchPath DEF GenesisHash
<1>5. CASE Len(leaf) - rollback > 0
  <2>1. Len(leaf) - rollback \in 1 .. Len(leaf) BY <1>3, <1>5
  <2>2. leaf # GenesisHash BY <1>3, <2>1 DEF GenesisHash
  <2>3. h \in Attached(bs) BY <1>1, <2>1, <2>2, AttachedClosed
  <2> HIDE DEF h
  <2> QED BY <1>2, <2>3, BranchPath
<1> QED BY <1>3, <1>4, <1>5
(***************************************************************************)
(* A handler starts, with what it was given.                               *)
(***************************************************************************)
LEMMA StartStep ==
  ASSUME Typed, NEW t \in Thread, NEW k, TaskOK(k), Start(t, k),
         UNCHANGED <<chain, mempool, seenTx, seenBlock, committed, slot>>
  PROVE  Typed'
<1>1. Tasks' BY TaskStep, Zenon DEF Start, Typed
<1> QED BY <1>1 DEF Start, Typed

(***************************************************************************)
(* A handler that only reads.                                              *)
(***************************************************************************)
LEMMA ReadStep ==
  ASSUME Typed, NEW t \in Thread, NEW k, TaskOK(k), Goto(t, k),
         UNCHANGED <<chain, mempool, seenTx, seenBlock, committed, slot, jobs>>
  PROVE  Typed'
<1>1. Tasks' BY TaskStep, Zenon DEF Typed
<1> QED BY <1>1 DEF Typed

(***************************************************************************)
(* A handler ends.                                                         *)
(***************************************************************************)
LEMMA FinishStep ==
  ASSUME Typed, NEW t \in Thread, Finish(t)
  PROVE  Tasks' /\ slot' \in Nat
<1>1. Tasks' BY Started, TaskStep, Zenon DEF Finish, Typed
<1> QED BY <1>1 DEF Finish, Typed

(***************************************************************************)
(* The starts of the handlers.                                             *)
(***************************************************************************)
LEMMA StartsTyped ==
  ASSUME Ordered(Hash), Typed,
         \/ \E r \in Reader, b \in PeerBlocks : ReceiveBlock(r, b)
         \/ \E r \in Reader, reply \in PeerReplies : ReceiveReply(r, reply)
         \/ \E r \in Reader, x \in Tx : HandlePoSTransaction(r, x)
         \/ \E q \in Request, x \in Tx : AdminRequest(q, x)
         \/ \E q \in Request, x \in Tx : SendRaw(q, x)
         \/ slot \in Slot /\ MineOneSlot(SlotLoop, slot)
         \/ \E q \in Request, s \in Slot : MineSlot(q, s)
  PROVE  Typed'
<1>1. Reader \subseteq Thread /\ Request \subseteq Thread /\ SlotLoop \in Thread BY DEF Thread
<1>2. CASE \E r \in Reader, b \in PeerBlocks : ReceiveBlock(r, b)
  BY <1>1, <1>2, Started, StartStep, ProcessAssumption, Zenon DEF ReceiveBlock
<1>3. ASSUME NEW r \in Reader, NEW reply \in PeerReplies, ReceiveReply(r, reply) PROVE Typed'
  <2>1. reply \in Reply BY ProcessAssumption DEF Reply
  <2> DEFINE how == Installer(BestHeight(chain), reply)
  <2>2. /\ how # "none" /\ Start(r, [Idle EXCEPT !.at = "install", !.reply = reply, !.how = how])
        /\ UNCHANGED <<chain, mempool, seenTx, seenBlock, committed, slot>>
    BY <1>3 DEF ReceiveReply
  <2>3. reply.blocks # << >> BY <2>2 DEF Installer
  <2> HIDE DEF how
  <2> QED BY <1>1, <2>1, <2>2, <2>3, Started, StartStep, Zenon
<1>4. ASSUME NEW t \in Thread, NEW x \in Tx, HandlePoSTransaction(t, x) PROVE Typed'
  BY <1>4, Started, StartStep, Zenon DEF HandlePoSTransaction
<1>5. ASSUME NEW q \in Request, NEW x \in Tx, SendRaw(q, x) PROVE Typed'
  BY <1>1, <1>5, Started, StartStep, Zenon DEF SendRaw
<1>6. ASSUME NEW t \in Thread, NEW s \in Slot, MineOneSlot(t, s) PROVE Typed'
  BY <1>6, Started, StartStep, Zenon DEF MineOneSlot
<1> QED BY <1>1, <1>2, <1>3, <1>4, <1>5, <1>6 DEF AdminRequest, MineSlot

(***************************************************************************)
(* handleBlock, and the tail that ApplyBlock shares with it.               *)
(***************************************************************************)
LEMMA BlockStepsTyped ==
  ASSUME Ordered(Hash), Typed, NEW t \in Thread,
         \/ AddBlock(t) \/ RebuildLedger(t) \/ AssignLedger(t) \/ RemoveIncluded(t)
         \/ ReadPruneLedger(t) \/ Evict(t) \/ Remember(t)
  PROVE  Typed'
<1>1. TaskOK(task[t]) BY DEF Typed, Tasks
<1>2. CASE AddBlock(t)
  <2>1. task[t].block \in Block /\ task[t].at = "add" BY <1>1, <1>2 DEF AddBlock, At, TaskOK
  <2>2. CASE chain' = Append(chain, task[t].block) /\ Goto(t, [task[t] EXCEPT !.at = "rebuild"])
             /\ UNCHANGED slot
    <3>1. Tasks' BY <1>1, <2>1, <2>2, Continues, TaskStep, Zenon DEF Typed
    <3>2. chain' \in Seq(Block) BY <2>1, <2>2 DEF Typed
    <3> QED BY <1>2, <2>2, <3>1, <3>2 DEF Typed, AddBlock
  <2>3. CASE Finish(t) /\ UNCHANGED chain BY <1>2, <2>3, FinishStep, Zenon DEF Typed, AddBlock
  <2> QED BY <1>2, <2>2, <2>3 DEF AddBlock
<1>3. CASE RebuildLedger(t)
  <2>1. CanonicalBlocks(chain, FinalityDepth) \in Seq(Block)
    BY CanonicalTyped, ProcessAssumption DEF Typed
  <2> QED BY <1>1, <1>3, <2>1, Continues, ReadStep, Zenon DEF RebuildLedger, At
<1>4. CASE AssignLedger(t)
  <2>1. committed' \in Seq(Block) BY <1>1, <1>4 DEF AssignLedger, TaskOK
  <2>2. Tasks'
    <3>1. CASE task[t].block = None BY <1>4, <3>1, Started, TaskStep, Zenon DEF AssignLedger, Typed
    <3>2. CASE task[t].block # None
      BY <1>1, <1>4, <3>2, Continues, TaskStep, Zenon DEF AssignLedger, At, Typed
    <3> QED BY <3>1, <3>2
  <2> QED BY <1>4, <2>1, <2>2 DEF AssignLedger, Typed
<1>5. CASE RemoveIncluded(t)
  <2>1. mempool' \subseteq mempool BY <1>5 DEF RemoveIncluded, NotIncluded
  <2>2. mempool' \subseteq Tx /\ IsFiniteSet(mempool') BY <2>1, FS_Subset DEF Typed
  <2>3. Tasks' BY <1>1, <1>5, Continues, TaskStep, Zenon DEF RemoveIncluded, At, Typed
  <2> QED BY <1>5, <2>2, <2>3 DEF RemoveIncluded, Typed
<1>6. CASE ReadPruneLedger(t)
  <2>1. CanonicalBlocks(chain, 0) \in Seq(Block) BY CanonicalTyped DEF Typed
  <2> QED BY <1>1, <1>6, <2>1, Continues, ReadStep, Zenon DEF ReadPruneLedger, At
<1>7. CASE Evict(t)
  <2>1. mempool' \subseteq mempool BY <1>7, Pruned DEF Evict
  <2>2. mempool' \subseteq Tx /\ IsFiniteSet(mempool') BY <2>1, FS_Subset DEF Typed
  <2>3. Tasks' BY <1>1, <1>7, Continues, TaskStep, Zenon DEF Evict, At, Typed
  <2> QED BY <1>7, <2>2, <2>3 DEF Evict, Typed
<1>8. CASE Remember(t)
  <2>1. task[t].block \in Block BY <1>1, <1>8 DEF Remember, At, TaskOK
  <2>2. GetBlockHash(task[t].block) \in Hash BY <2>1, BlockHash
  <2> QED BY <1>8, <2>2, FinishStep, Zenon DEF Remember, Typed
<1> QED BY <1>2, <1>3, <1>4, <1>5, <1>6, <1>7, <1>8

(***************************************************************************)
(* MineOneSlot: the candidate is a block although its parent, slot and     *)
(* transactions were read at different times.                              *)
(***************************************************************************)
LEMMA MiningStepsTyped ==
  ASSUME Ordered(Hash), Typed, NEW t \in Thread,
         ReadParentBlocks(t) \/ ReadParentLedger(t) \/ ReadParentHash(t) \/ SelectTransactions(t)
  PROVE  Typed'
<1>1. TaskOK(task[t]) BY DEF Typed, Tasks
<1>2. CASE ReadParentBlocks(t) BY <1>1, <1>2, Continues, ReadStep, Zenon DEF ReadParentBlocks, At
<1>3. CASE ReadParentLedger(t)
  <2>1. CanonicalBlocks(chain, 0) \in Seq(Block) BY CanonicalTyped DEF Typed
  <2> QED BY <1>1, <1>3, <2>1, Continues, ReadStep, Zenon DEF ReadParentLedger, At
<1>4. CASE ReadParentHash(t)
  <2>1. BestLeafHash(chain) \in Hash BY BestLeaf DEF Typed
  <2> QED BY <1>1, <1>4, <2>1, Continues, ReadStep, Zenon DEF ReadParentHash, At
<1>5. CASE SelectTransactions(t)
  <2>1. /\ task[t].slot \in Slot /\ task[t].parent \in Hash
        /\ UNCHANGED <<chain, mempool, seenTx, seenBlock, committed, jobs>>
    BY <1>1, <1>5 DEF SelectTransactions, At, TaskOK
  <2>2. PICK txs \in Selections(BuildLedgerFromBlocks(task[t].base), mempool) :
          \/ /\ Goto(t, [Idle EXCEPT !.at = "add",
                           !.block = NewCandidateBlock(Self, task[t].slot, task[t].parent, txs)])
             /\ UNCHANGED slot
          \/ Finish(t)
    BY <1>5 DEF SelectTransactions
  <2>3. txs \in Seq(Tx)
    <3>1. txs \in SetToAllKPermutations(mempool) BY DEF Selections
    <3>2. PICK sub \in SUBSET mempool : txs \in SetToSeqs(sub) BY <3>1 DEF SetToAllKPermutations
    <3>3. Cardinality(sub) \in Nat BY FS_Subset, FS_CardinalityType DEF Typed
    <3>4. txs \in [1 .. Cardinality(sub) -> sub] BY <3>2 DEF SetToSeqs
    <3>5. txs \in Seq(sub) BY <3>3, <3>4
    <3> QED BY <3>5 DEF Typed
  <2>4. NewCandidateBlock(Self, task[t].slot, task[t].parent, txs) \in Block
    BY <2>1, <2>3, ProcessAssumption DEF NewCandidateBlock, Block
  <2>5. CASE Finish(t) BY <2>1, <2>5, FinishStep, Zenon DEF Typed
  <2>6. CASE /\ Goto(t, [Idle EXCEPT !.at = "add",
                           !.block = NewCandidateBlock(Self, task[t].slot, task[t].parent, txs)])
             /\ UNCHANGED slot
    BY <2>1, <2>4, <2>6, Started, ReadStep, Zenon
  <2> QED BY <2>2, <2>5, <2>6
<1> QED BY <1>2, <1>3, <1>4, <1>5

(***************************************************************************)
(* handleChainSyncResponse and the entry of transactions.                  *)
(***************************************************************************)
LEMMA OtherStepsTyped ==
  ASSUME Ordered(Hash), Typed, NEW t \in Thread,
         \/ BuildReplacement(t) \/ ReplaceBlocks(t) \/ EnterMempool(t)
         \/ ReadBestNonce(t) \/ CheckPendingNonce(t) \/ CheckBalance(t)
  PROVE  Typed'
<1>1. TaskOK(task[t]) BY DEF Typed, Tasks
<1>2. CASE BuildReplacement(t)
  <2> DEFINE how == task[t].how
             r == task[t].reply
  <2>1. r \in Reply /\ r.blocks # << >> BY <1>1, <1>2 DEF BuildReplacement, At, TaskOK
  <2>2. r.blocks \in Seq(Block) /\ chain \in Seq(Block) BY <2>1 DEF Reply, Typed
  <2>3. /\ Goto(t, IF CanInstall(how, chain, r)
                   THEN [Idle EXCEPT !.at = "replace", !.base = Replacement(how, chain, r)] ELSE Idle)
        /\ UNCHANGED <<chain, mempool, seenTx, seenBlock, committed, slot, jobs>>
    BY <1>2 DEF BuildReplacement
  <2> HIDE DEF how, r
  <2>4. CASE CanInstall(how, chain, r)
    <3>1. Replacement(how, chain, r) \in Seq(Block) BY <2>1, <2>2, <2>4, ReplacementPath
    <3> QED BY <2>3, <2>4, <3>1, Started, ReadStep, Zenon
  <2>5. CASE ~CanInstall(how, chain, r) BY <2>3, <2>5, Started, ReadStep, Zenon
  <2> QED BY <2>4, <2>5
<1>3. CASE ReplaceBlocks(t)
  <2>1. chain' \in Seq(Block) BY <1>1, <1>3 DEF ReplaceBlocks, TaskOK
  <2>2. Tasks' BY <1>3, Started, TaskStep, Zenon DEF ReplaceBlocks, Typed
  <2> QED BY <1>3, <2>1, <2>2 DEF ReplaceBlocks, Typed
<1>4. CASE EnterMempool(t)
  <2> DEFINE x == task[t].tx
  <2>1. x \in Tx BY <1>1, <1>4 DEF EnterMempool, At, TaskOK
  <2>2. /\ mempool' = IF x.id \in seenTx THEN mempool ELSE Entered(mempool, x)
        /\ seenTx' = seenTx \cup {x.id} /\ Goto(t, Idle)
        /\ UNCHANGED <<chain, seenBlock, committed, slot, jobs>>
    BY <1>4 DEF EnterMempool
  <2> HIDE DEF x
  <2>3. x.id \in TxId BY <2>1, TxAssumption DEF TxRecord
  <2>4. Entered(mempool, x) \subseteq Tx /\ IsFiniteSet(Entered(mempool, x))
    <3>1. IsFiniteSet(mempool \ Replaced(mempool, x)) BY FS_Subset DEF Typed
    <3>2. IsFiniteSet((mempool \ Replaced(mempool, x)) \cup {x}) BY <3>1, FS_AddElement
    <3> QED BY <2>1, <3>2 DEF Entered, Typed
  <2>5. Tasks' BY <2>2, Started, TaskStep, Zenon DEF Typed
  <2> QED BY <2>2, <2>3, <2>4, <2>5 DEF Typed
<1>5. CASE ReadBestNonce(t)
  <2> DEFINE i == BestLedger.nonces[task[t].tx.from]
             k == [task[t] EXCEPT !.at = "pending", !.nonce = i]
  <2>1. /\ task[t].at = "nonce" /\ Goto(t, k)
        /\ UNCHANGED <<chain, mempool, seenTx, seenBlock, committed, slot, jobs>>
    BY <1>5 DEF ReadBestNonce, At
  <2> HIDE DEF i
  <2>2. TaskOK(k) BY <1>1, <2>1, Continues
  <2> HIDE DEF k
  <2> QED BY <2>1, <2>2, ReadStep, Zenon
<1>6. CASE CheckPendingNonce(t)
  <2>1. task[t].tx \in Tx BY <1>1, <1>6 DEF CheckPendingNonce, At, TaskOK
  <2> DEFINE k == [Idle EXCEPT !.at = "balance", !.tx = task[t].tx]
  <2>2. TaskOK(k) /\ TaskOK(Idle) BY <2>1, Started
  <2>3. /\ Goto(t, k) \/ Goto(t, Idle)
        /\ UNCHANGED <<chain, mempool, seenTx, seenBlock, committed, slot, jobs>>
    BY <1>6 DEF CheckPendingNonce
  <2> HIDE DEF k
  <2> QED BY <2>2, <2>3, ReadStep, Zenon
<1>7. CASE CheckBalance(t)
  <2>1. task[t].tx \in Tx BY <1>1, <1>7 DEF CheckBalance, At, TaskOK
  <2> DEFINE k == [Idle EXCEPT !.at = "enter", !.tx = task[t].tx]
  <2>2. TaskOK(k) /\ TaskOK(Idle) BY <2>1, Started
  <2>3. /\ Goto(t, k) \/ Goto(t, Idle)
        /\ UNCHANGED <<chain, mempool, seenTx, seenBlock, committed, slot, jobs>>
    BY <1>7 DEF CheckBalance
  <2> HIDE DEF k
  <2> QED BY <2>2, <2>3, ReadStep, Zenon
<1> QED BY <1>2, <1>3, <1>4, <1>5, <1>6, <1>7

(***************************************************************************)
(* All together.                                                           *)
(***************************************************************************)
LEMMA TypedAlways == ASSUME Ordered(Hash) PROVE Spec => []Typed
<1>1. Init => Typed
  <2> SUFFICES ASSUME Init PROVE Typed OBVIOUS
  <2>1. Tasks BY Started DEF Init, Tasks
  <2>2. IsFiniteSet({}) BY FS_EmptySet
  <2> QED BY <2>1, <2>2 DEF Init, Typed
<1>2. Typed /\ [Next]_vars => Typed'
  <2> SUFFICES ASSUME Typed, [Next]_vars PROVE Typed' OBVIOUS
  <2>1. CASE UNCHANGED vars BY <2>1 DEF vars, Typed, Tasks
  <2>2. CASE LoseSlot
    <3>1. SlotLoop \in Thread BY DEF Thread
    <3> QED BY <2>2, <3>1, FinishStep, Zenon DEF LoseSlot, Typed
  <2>3. ASSUME NEW t \in Thread, Step(t) PROVE Typed'
    BY <2>3, BlockStepsTyped, MiningStepsTyped, OtherStepsTyped DEF Step
  <2> QED BY <2>1, <2>2, <2>3, StartsTyped DEF Next
<1> QED BY <1>1, <1>2, PTL DEF Spec

(***************************************************************************)
(* Types, for every number of goroutines: whatever two handlers read       *)
(* between each other's steps, what they leave in the tree and the mempool *)
(* are blocks and transactions, and a handler that goes on with a block    *)
(* has one.                                                                *)
(***************************************************************************)
THEOREM ProcessWellTyped == ASSUME Ordered(Hash) PROVE Spec => []TypeOK
<1>1. Typed => TypeOK BY DEF Typed, Tasks, TaskOK, TypeOK
<1> QED BY <1>1, TypedAlways, PTL

(***************************************************************************)
(* However the goroutines interleave, and although a candidate built       *)
(* between the append and the prune selects included transactions again,   *)
(* the replay of the best branch applies a wallet transaction once.        *)
(***************************************************************************)
THEOREM WalletAppliedOnce == ASSUME Ordered(Hash) PROVE Spec => []WalletTxOnce
<1>1. Typed => WalletTxOnce
  <2> SUFFICES ASSUME Typed, NEW x \in Tx, x.evm PROVE TimesApplied(chain, x) <= 1
    BY DEF WalletTxOnce
  <2>1. chain \in Seq(Block) BY DEF Typed
  <2>2. CanonicalBlocks(chain, 0) \in Seq(Block) BY <2>1, CanonicalTyped
  <2> QED BY <2>2, WalletApplied
<1> QED BY <1>1, TypedAlways, PTL
-----------------------------------------------------------------------------
(* The block tree. *)

(***************************************************************************)
(* U is the set of blocks that there are: no two share a hash.             *)
(***************************************************************************)
OneEach(U) == \A b, c \in U : GetBlockHash(b) = GetBlockHash(c) => b = c

(***************************************************************************)
(* The blocks that some node's AddBlock took, on blocks of U.              *)
(***************************************************************************)
Taken(U) == {b \in U : \E bs \in Seq(U) : CanAddBlock(bs, b)}

(***************************************************************************)
(* The installers test no block, so that a reply must come from a node     *)
(* that took what it sends.                                                *)
(***************************************************************************)
Vouched(U) == \A r \in PeerReplies : Range(r.blocks) \subseteq Taken(U)

SoundList(U, bs) == bs \in Seq(Taken(U)) /\ Rooted(bs)

(***************************************************************************)
(* The inductive invariant: what an installer is about to put in place of  *)
(* the list is as sound as the list, however old the snapshot it built on. *)
(***************************************************************************)
Guarded(U) ==
  /\ SoundList(U, chain)
  /\ \A t \in Thread :
       /\ At(t, "install") => Range(task[t].reply.blocks) \subseteq Taken(U)
       /\ At(t, "replace") => SoundList(U, task[t].base)

(***************************************************************************)
(* A block that was taken once is taken by every list that holds its       *)
(* parent: the branch below it is the same.                                *)
(***************************************************************************)
LEMMA TakenAgain ==
  ASSUME NEW U \in SUBSET Block, OneEach(U), NEW b, NEW bs \in Seq(U), CanAddBlock(bs, b),
         NEW cs \in Seq(U), b.parent \in Attached(cs) \cup {GenesisHash}
  PROVE  CanAddBlock(cs, b)
<1>1. bs \in Seq(Block) /\ cs \in Seq(Block) OBVIOUS
<1>2. b.parent \in Attached(bs) \cup {GenesisHash} BY <1>1, KnownHashes DEF CanAddBlock
<1>3. \A c \in Range(bs), d \in Range(cs) : GetBlockHash(c) = GetBlockHash(d) => c = d
  BY DEF OneEach, Range
<1>4. BlocksTo(CalculateDepths(bs), b.parent) = BlocksTo(CalculateDepths(cs), b.parent)
  BY <1>1, <1>2, <1>3, SameBranch
<1>5. BuildLedgerAtHash(CalculateDepths(bs), b.parent) = BuildLedgerAtHash(CalculateDepths(cs), b.parent)
  BY <1>4 DEF BuildLedgerAtHash
<1>6. b.parent \in Known(CalculateDepths(cs)) BY <1>1, KnownHashes
<1> QED BY <1>5, <1>6, Zenon DEF CanAddBlock

(***************************************************************************)
(* The blocks of a sound list pass AddBlock's test on that list.           *)
(***************************************************************************)
LEMMA SoundValid ==
  ASSUME NEW U \in SUBSET Block, OneEach(U), NEW bs, SoundList(U, bs), NEW i \in 1 .. Len(bs)
  PROVE  CanAddBlock(bs, bs[i])
<1>1. bs \in Seq(Taken(U)) /\ bs \in Seq(U) /\ bs \in Seq(Block) /\ Rooted(bs)
  BY DEF SoundList, Taken
<1>2. \A j \in 1 .. Len(bs) : bs[j].signed BY <1>1 DEF Taken, CanAddBlock
<1>3. \A j \in 1 .. Len(bs) : GetBlockHash(bs[j]) \in Attached(bs) BY <1>1, <1>2, RootedAttached
<1>4. bs[i].parent \in Attached(bs) \cup {GenesisHash}
  <2>1. CASE bs[i].parent = GenesisHash BY <2>1
  <2>2. ASSUME NEW j \in 1 .. (i - 1), GetBlockHash(bs[j]) = bs[i].parent
        PROVE  bs[i].parent \in Attached(bs)
    <3>1. j \in 1 .. Len(bs) BY <1>1
    <3> QED BY <1>3, <2>2, <3>1
  <2> QED BY <1>1, <2>1, <2>2 DEF Rooted
<1>5. PICK cs \in Seq(U) : CanAddBlock(cs, bs[i])
  <2>1. bs[i] \in Taken(U) BY <1>1
  <2> QED BY <2>1 DEF Taken
<1> QED BY <1>1, <1>4, <1>5, TakenAgain

(***************************************************************************)
(* AddBlock keeps a list sound.                                            *)
(***************************************************************************)
LEMMA SoundAppend ==
  ASSUME Ordered(Hash), NEW U \in SUBSET Block, NEW bs, SoundList(U, bs), NEW b \in U, CanAddBlock(bs, b)
  PROVE  SoundList(U, Append(bs, b))
<1>1. bs \in Seq(Taken(U)) /\ bs \in Seq(U) /\ Rooted(bs) BY DEF SoundList, Taken
<1>2. Taken(U) \subseteq Signed BY DEF Taken, Signed, CanAddBlock
<1>3. b \in Taken(U) /\ b.parent \in Known(CalculateDepths(bs)) BY <1>1 DEF Taken, CanAddBlock
<1>4. bs \in Seq(Signed) /\ b \in Signed BY <1>1, <1>2, <1>3
<1>5. Rooted(Append(bs, b)) BY <1>1, <1>3, <1>4, AcceptedBlock
<1>6. Append(bs, b) \in Seq(Taken(U)) BY <1>1, <1>3
<1> QED BY <1>5, <1>6 DEF SoundList

(***************************************************************************)
(* So does an installer, with a reply that is vouched for.                 *)
(***************************************************************************)
LEMMA SoundReplacement ==
  ASSUME Ordered(Hash), NEW U \in SUBSET Block, NEW bs, SoundList(U, bs),
         NEW r \in Reply, r.blocks # << >>, Range(r.blocks) \subseteq Taken(U),
         NEW how, CanInstall(how, bs, r)
  PROVE  SoundList(U, Replacement(how, bs, r))
<1>1. Taken(U) \in SUBSET Block BY DEF Taken
<1>2. r.blocks \in Seq(Taken(U))
  <2>1. r.blocks \in Seq(Block) BY DEF Reply
  <2> PICK s \in Seq(Block) : s = r.blocks BY <2>1
  <2>2. \A i \in 1 .. Len(s) : s[i] \in Taken(U) BY DEF Range
  <2>3. s \in Seq(Taken(U)) BY <2>2
  <2> QED BY <2>3
<1>3. bs \in Seq(Taken(U)) BY DEF SoundList
<1>4. Replacement(how, bs, r) \in Seq(Taken(U)) /\ Path(Replacement(how, bs, r))
  BY <1>1, <1>2, <1>3, ReplacementPath
<1>5. Replacement(how, bs, r) \in Seq(Block) BY <1>1, <1>4
<1> QED BY <1>4, <1>5, PathRooted DEF SoundList

(***************************************************************************)
(* A goroutine moves on and leaves a sound list behind.                    *)
(***************************************************************************)
LEMMA GuardedStep ==
  ASSUME Typed, NEW U, Guarded(U), NEW t \in Thread, NEW k, Goto(t, k), SoundList(U, chain'),
         k.at = "install" => Range(k.reply.blocks) \subseteq Taken(U),
         k.at = "replace" => SoundList(U, k.base)
  PROVE  Guarded(U)'
<1>1. DOMAIN task = Thread BY DEF Typed, Tasks
<1>2. task' = [task EXCEPT ![t] = k] BY DEF Goto
<1>3. task'[t] = k /\ \A s \in Thread : s # t => task'[s] = task[s] BY <1>1, <1>2
<1> QED BY <1>3 DEF Guarded, At

(***************************************************************************)
(* Only AddBlock and the installers touch the list.                        *)
(***************************************************************************)
LEMMA QuietStep ==
  ASSUME Typed, NEW U, Guarded(U), NEW t \in Thread, NEW k, Goto(t, k), chain' = chain,
         k.at \notin {"install", "replace"}
  PROVE  Guarded(U)'
<1>1. SoundList(U, chain') BY DEF Guarded
<1> QED BY <1>1, GuardedStep

(***************************************************************************)
(* The steps of a handler that leave the list alone.                       *)
(***************************************************************************)
LEMMA Quiet ==
  ASSUME Typed, NEW t \in Thread,
         \/ RebuildLedger(t) \/ AssignLedger(t) \/ RemoveIncluded(t)
         \/ ReadPruneLedger(t) \/ Evict(t) \/ Remember(t)
         \/ ReadParentBlocks(t) \/ ReadParentLedger(t) \/ ReadParentHash(t) \/ SelectTransactions(t)
         \/ EnterMempool(t) \/ ReadBestNonce(t) \/ CheckPendingNonce(t) \/ CheckBalance(t)
  PROVE  chain' = chain /\ \E k : Goto(t, k) /\ k.at \notin {"install", "replace"}
<1>1. TaskOK(task[t]) BY DEF Typed, Tasks
<1>2. Idle.at = "idle" BY DEF Idle
<1>3. /\ [task[t] EXCEPT !.at = "prune"].at = "prune"
      /\ \A v : /\ [task[t] EXCEPT !.at = "assign", !.view = v].at = "assign"
               /\ [task[t] EXCEPT !.at = "include", !.view = v].at = "include"
               /\ [task[t] EXCEPT !.at = "evict", !.view = v].at = "evict"
  BY <1>1 DEF TaskOK, Idle
<1>4. \A v : /\ [task[t] EXCEPT !.at = "ledger", !.slots = v].at = "ledger"
             /\ [task[t] EXCEPT !.at = "tip", !.base = v].at = "tip"
             /\ [task[t] EXCEPT !.at = "prune", !.parent = v].at = "prune"
             /\ [task[t] EXCEPT !.at = "pending", !.nonce = v].at = "pending"
  BY <1>1 DEF TaskOK, Idle
<1>5. CASE RebuildLedger(t) BY <1>3, <1>5 DEF RebuildLedger
<1>6. CASE AssignLedger(t) BY <1>2, <1>3, <1>6 DEF AssignLedger
<1>7. CASE RemoveIncluded(t) BY <1>3, <1>7 DEF RemoveIncluded
<1>8. CASE ReadPruneLedger(t) BY <1>3, <1>8 DEF ReadPruneLedger
<1>9. CASE Evict(t)
  <2>1. PICK at \in {"select", "remember"} :
          Goto(t, [task[t] EXCEPT !.at = at, !.view = << >>]) /\ chain' = chain
    BY <1>9 DEF Evict
  <2> DEFINE k == [task[t] EXCEPT !.at = at, !.view = << >>]
  <2>2. k.at = at BY <1>1 DEF TaskOK, Idle
  <2>3. Goto(t, k) /\ chain' = chain BY <2>1
  <2> HIDE DEF k
  <2> QED BY <2>2, <2>3
<1>10. CASE Remember(t) BY <1>2, <1>10 DEF Remember, Finish
<1>11. CASE ReadParentBlocks(t) BY <1>4, <1>11 DEF ReadParentBlocks
<1>12. CASE ReadParentLedger(t) BY <1>4, <1>12 DEF ReadParentLedger
<1>13. CASE ReadParentHash(t) BY <1>4, <1>13 DEF ReadParentHash
<1>14. CASE SelectTransactions(t)
  <2>1. PICK b : \/ Goto(t, [Idle EXCEPT !.at = "add", !.block = b])
                 \/ Finish(t)
    BY <1>14 DEF SelectTransactions
  <2>2. [Idle EXCEPT !.at = "add", !.block = b].at = "add" BY DEF Idle
  <2>3. chain' = chain BY <1>14 DEF SelectTransactions
  <2> QED BY <1>2, <2>1, <2>2, <2>3 DEF Finish
<1>15. CASE EnterMempool(t) BY <1>2, <1>15 DEF EnterMempool
<1>16. CASE ReadBestNonce(t) BY <1>4, <1>16 DEF ReadBestNonce
<1>17. CASE CheckPendingNonce(t)
  <2>1. [Idle EXCEPT !.at = "balance", !.tx = task[t].tx].at = "balance" BY DEF Idle
  <2> QED BY <1>2, <1>17, <2>1 DEF CheckPendingNonce
<1>18. CASE CheckBalance(t)
  <2>1. [Idle EXCEPT !.at = "enter", !.tx = task[t].tx].at = "enter" BY DEF Idle
  <2> QED BY <1>2, <1>18, <2>1 DEF CheckBalance
<1> QED BY <1>5, <1>6, <1>7, <1>8, <1>9, <1>10, <1>11, <1>12, <1>13, <1>14, <1>15, <1>16, <1>17, <1>18

(***************************************************************************)
(* So do the starts, and a lost slot.                                      *)
(***************************************************************************)
LEMMA QuietStart ==
  ASSUME \/ \E r \in Reader, b \in PeerBlocks : ReceiveBlock(r, b)
         \/ \E r \in Reader, x \in Tx : HandlePoSTransaction(r, x)
         \/ \E q \in Request, x \in Tx : AdminRequest(q, x)
         \/ \E q \in Request, x \in Tx : SendRaw(q, x)
         \/ slot \in Slot /\ MineOneSlot(SlotLoop, slot)
         \/ LoseSlot
         \/ \E q \in Request, s \in Slot : MineSlot(q, s)
  PROVE  chain' = chain /\ \E t \in Thread : \E k : Goto(t, k) /\ k.at \notin {"install", "replace"}
<1>1. Reader \subseteq Thread /\ Request \subseteq Thread /\ SlotLoop \in Thread BY DEF Thread
<1>2. CASE \E r \in Reader, b \in PeerBlocks : ReceiveBlock(r, b)
  <2>1. \A b : [Idle EXCEPT !.at = "add", !.block = b].at = "add" BY DEF Idle
  <2> QED BY <1>1, <1>2, <2>1 DEF ReceiveBlock, Start
<1>3. ASSUME NEW t \in Thread, NEW x, HandlePoSTransaction(t, x)
      PROVE  chain' = chain /\ \E k : Goto(t, k) /\ k.at \notin {"install", "replace"}
  <2>1. [Idle EXCEPT !.at = "enter", !.tx = x].at = "enter" BY DEF Idle
  <2> QED BY <1>3, <2>1 DEF HandlePoSTransaction, Start
<1>4. ASSUME NEW q \in Request, NEW x, SendRaw(q, x)
      PROVE  chain' = chain /\ \E k : Goto(q, k) /\ k.at \notin {"install", "replace"}
  <2>1. [Idle EXCEPT !.at = "nonce", !.tx = x].at = "nonce" BY DEF Idle
  <2> QED BY <1>4, <2>1 DEF SendRaw, Start
<1>5. ASSUME NEW t \in Thread, NEW s, MineOneSlot(t, s)
      PROVE  chain' = chain /\ \E k : Goto(t, k) /\ k.at \notin {"install", "replace"}
  <2>1. \A n : [Idle EXCEPT !.at = "branch", !.slot = s, !.tickets = n].at = "branch" BY DEF Idle
  <2> QED BY <1>5, <2>1 DEF MineOneSlot, Start
<1>6. CASE LoseSlot
  <2>1. Idle.at = "idle" BY DEF Idle
  <2> QED BY <1>1, <1>6, <2>1 DEF LoseSlot, Finish
<1> QED BY <1>1, <1>2, <1>3, <1>4, <1>5, <1>6 DEF AdminRequest, MineSlot

(***************************************************************************)
(* The handlers of a running process.                                      *)
(***************************************************************************)
LEMMA StepGuarded ==
  ASSUME Ordered(Hash), NEW U \in SUBSET Block, Typed, Guarded(U), NEW t \in Thread,
         task[t].block \in U \cup {None}, Step(t)
  PROVE  Guarded(U)'
<1>1. TaskOK(task[t]) /\ SoundList(U, chain) BY DEF Typed, Tasks, Guarded
<1>2. Idle.at = "idle" BY DEF Idle
<1>3. CASE AddBlock(t)
  <2>1. CASE /\ CanAddBlock(chain, task[t].block) /\ chain' = Append(chain, task[t].block)
             /\ Goto(t, [task[t] EXCEPT !.at = "rebuild"])
    <3>1. task[t].block \in U BY <1>1, <1>3 DEF AddBlock, At, TaskOK
    <3>2. SoundList(U, chain') BY <1>1, <2>1, <3>1, SoundAppend
    <3>3. [task[t] EXCEPT !.at = "rebuild"].at = "rebuild" BY <1>1 DEF TaskOK, Idle
    <3> QED BY <2>1, <3>2, <3>3, GuardedStep
  <2>2. CASE Finish(t) /\ UNCHANGED chain BY <1>2, <2>2, QuietStep DEF Finish
  <2> QED BY <1>3, <2>1, <2>2 DEF AddBlock
<1>4. CASE BuildReplacement(t)
  <2> DEFINE how == task[t].how
             r == task[t].reply
             k == [Idle EXCEPT !.at = "replace", !.base = Replacement(how, chain, r)]
  <2>1. r \in Reply /\ r.blocks # << >> BY <1>1, <1>4 DEF BuildReplacement, At, TaskOK
  <2>2. Range(r.blocks) \subseteq Taken(U) BY <1>4 DEF BuildReplacement, Guarded
  <2>3. chain' = chain /\ Goto(t, IF CanInstall(how, chain, r) THEN k ELSE Idle)
    BY <1>4 DEF BuildReplacement
  <2>4. k.at = "replace" /\ k.base = Replacement(how, chain, r) BY DEF Idle
  <2> HIDE DEF how, r, k
  <2>5. CASE CanInstall(how, chain, r)
    <3>1. SoundList(U, k.base) BY <1>1, <2>1, <2>2, <2>4, <2>5, SoundReplacement
    <3> QED BY <1>1, <2>3, <2>4, <2>5, <3>1, GuardedStep
  <2>6. CASE ~CanInstall(how, chain, r) BY <1>2, <2>3, <2>6, QuietStep
  <2> QED BY <2>5, <2>6
<1>5. CASE ReplaceBlocks(t)
  <2> DEFINE k == [Idle EXCEPT !.at = "rebuild"]
  <2>1. k.at = "rebuild" BY DEF Idle
  <2>2. Goto(t, k) /\ chain' = task[t].base /\ At(t, "replace") BY <1>5 DEF ReplaceBlocks
  <2> HIDE DEF k
  <2>3. SoundList(U, chain') BY <2>2 DEF Guarded
  <2> QED BY <2>1, <2>2, <2>3, GuardedStep
<1>6. CASE \/ RebuildLedger(t) \/ AssignLedger(t) \/ RemoveIncluded(t)
           \/ ReadPruneLedger(t) \/ Evict(t) \/ Remember(t)
           \/ ReadParentBlocks(t) \/ ReadParentLedger(t) \/ ReadParentHash(t) \/ SelectTransactions(t)
           \/ EnterMempool(t) \/ ReadBestNonce(t) \/ CheckPendingNonce(t) \/ CheckBalance(t)
  <2>1. chain' = chain /\ \E k : Goto(t, k) /\ k.at \notin {"install", "replace"} BY <1>6, Quiet
  <2> QED BY <2>1, QuietStep
<1> QED BY <1>3, <1>4, <1>5, <1>6 DEF Step

(***************************************************************************)
(* Whatever two handlers read between each other's steps, every block in   *)
(* the list passes AddBlock's test on the branch it sits on and stands     *)
(* behind its parent: a candidate built from three states of the tree, a   *)
(* replacement built from an old snapshot, and a block appended twice.     *)
(* The handled blocks are in a set U in which a hash names one block: of   *)
(* two blocks with one hash the installers keep one, and the children of   *)
(* the other stay.  Replies hold blocks that some node took, because they  *)
(* are installed untested.                                                 *)
(***************************************************************************)
THEOREM TreeKeptValid ==
  ASSUME Ordered(Hash), NEW U \in SUBSET Block, OneEach(U), Vouched(U)
  PROVE  Spec /\ [](\A t \in Thread : task[t].block \in U \cup {None}) => []TreeStaysValid
<1> DEFINE Handled == \A t \in Thread : task[t].block \in U \cup {None}
<1>1. Init => Guarded(U)
  <2> SUFFICES ASSUME Init PROVE Guarded(U) OBVIOUS
  <2>1. chain = << >> /\ \A t \in Thread : task[t].at = "idle" BY DEF Init, Idle
  <2> QED BY <2>1 DEF Guarded, SoundList, Rooted, At
<1>2. Typed /\ Handled /\ Guarded(U) /\ [Next]_vars => Guarded(U)'
  <2> SUFFICES ASSUME Typed, Handled, Guarded(U), [Next]_vars PROVE Guarded(U)' OBVIOUS
  <2>1. CASE UNCHANGED vars BY <2>1 DEF vars, Guarded, At
  <2>2. ASSUME NEW t \in Thread, Step(t) PROVE Guarded(U)'
    <3>1. task[t].block \in U \cup {None} OBVIOUS
    <3> QED BY <2>2, <3>1, StepGuarded
  <2>3. ASSUME NEW r \in Reader, NEW reply \in PeerReplies, ReceiveReply(r, reply) PROVE Guarded(U)'
    <3> DEFINE how == Installer(BestHeight(chain), reply)
               k == [Idle EXCEPT !.at = "install", !.reply = reply, !.how = how]
    <3>1. k.at = "install" /\ k.reply = reply BY DEF Idle
    <3>2. Goto(r, k) /\ chain' = chain BY <2>3 DEF ReceiveReply, Start
    <3> HIDE DEF k
    <3>3. Range(reply.blocks) \subseteq Taken(U) BY DEF Vouched
    <3>4. r \in Thread /\ SoundList(U, chain') BY <3>2 DEF Thread, Guarded
    <3> QED BY <3>1, <3>2, <3>3, <3>4, GuardedStep
  <2>4. CASE \/ \E r \in Reader, b \in PeerBlocks : ReceiveBlock(r, b)
             \/ \E r \in Reader, x \in Tx : HandlePoSTransaction(r, x)
             \/ \E q \in Request, x \in Tx : AdminRequest(q, x)
             \/ \E q \in Request, x \in Tx : SendRaw(q, x)
             \/ slot \in Slot /\ MineOneSlot(SlotLoop, slot)
             \/ LoseSlot
             \/ \E q \in Request, s \in Slot : MineSlot(q, s)
    <3>1. chain' = chain /\ \E t \in Thread : \E k : Goto(t, k) /\ k.at \notin {"install", "replace"}
      BY <2>4, QuietStart
    <3> QED BY <3>1, QuietStep
  <2> QED BY <2>1, <2>2, <2>3, <2>4 DEF Next
<1>3. Guarded(U) => TreeStaysValid
  <2> SUFFICES ASSUME SoundList(U, chain), NEW i \in DOMAIN chain
               PROVE  /\ CanAddBlock(chain, chain[i])
                      /\ \/ chain[i].parent = GenesisHash
                         \/ \E j \in 1 .. (i - 1) : GetBlockHash(chain[j]) = chain[i].parent
    BY DEF Guarded, TreeStaysValid
  <2>1. i \in 1 .. Len(chain) BY DEF SoundList
  <2>2. CanAddBlock(chain, chain[i]) BY <2>1, SoundValid
  <2> QED BY <2>1, <2>2 DEF SoundList, Rooted
<1> QED BY <1>1, <1>2, <1>3, TypedAlways, PTL DEF Spec
=============================================================================
