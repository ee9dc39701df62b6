-------------------------------- MODULE Process -------------------------------
(***************************************************************************)
(* The goroutines of one node process at the granularity of its locks: a   *)
(* reader per connection (handleBlock, handleChainSyncResponse,            *)
(* handlePoSTransaction), the slot loop (MineOneSlot), and the operations  *)
(* server, which runs every request in a goroutine of its own              *)
(* (eth_sendRawTransaction, the administrator's transactions and           *)
(* /admin/mine).  A step is what one lock covers, or one read of the block *)
(* tree, which takes a snapshot under its lock; between two steps of a     *)
(* handler any other goroutine may run.                                    *)
(*                                                                         *)
(* p.ledger is written without a lock.  It is always the replay of a       *)
(* branch, so the state keeps the branch.                                  *)
(***************************************************************************)
EXTENDS ChainSync, Mempool

CONSTANTS
  Self,            \* the node's miner account
  Reader,          \* the readers of its connections
  Request,         \* concurrent requests to the operations server
  SlotLoop,        \* the goroutine of the slot loop
  FinalityDepth,   \* finalityDepth
  PeerBlocks,      \* the blocks that peers may send
  PeerReplies,     \* the sync responses that peers may send
  AdminSlots,      \* the slots the operator asks to mine
  MaxJobs          \* bound on the handlers started

ASSUME ProcessAssumption ==
  /\ Self \in Native
  /\ Reader \cap Request = {} /\ SlotLoop \notin Reader \cup Request
  /\ FinalityDepth \in Nat /\ MaxJobs \in Nat
  /\ PeerBlocks \subseteq Block /\ None \notin Block /\ AdminSlots \subseteq Slot
  /\ PeerReplies \subseteq [height: Nat, whole: BOOLEAN, blocks: Seq(Block)]

VARIABLES
  chain,       \* blockchain.Blocks, under blockchain.lock
  mempool,     \* mempool, under mempoolLock
  seenTx,      \* the transactions in msgHistory, under floodingLock
  seenBlock,   \* the block hashes in msgHistory, under floodingLock
  committed,   \* the branch p.ledger was replayed from
  slot,        \* the next slot of the slot loop
  task,        \* where each goroutine is, with the values it has read
  jobs         \* handlers started so far

vars == <<chain, mempool, seenTx, seenBlock, committed, slot, task, jobs>>

Thread == Reader \cup Request \cup {SlotLoop}

(***************************************************************************)
(* The local variables of the handlers.                                    *)
(***************************************************************************)
Idle ==
  [at |-> "idle", block |-> None, slot |-> 0, tickets |-> 0, slots |-> << >>,
   base |-> << >>, parent |-> GenesisHash, view |-> << >>, reply |-> None, how |-> "none",
   tx |-> None, nonce |-> 0]

At(t, label) == task[t].at = label

Goto(t, record) == task' = [task EXCEPT ![t] = record]

Start(t, record) ==
  /\ At(t, "idle")
  /\ jobs < MaxJobs /\ jobs' = jobs + 1
  /\ Goto(t, record)

(***************************************************************************)
(* The slot loop goes on to the next slot whether it mined or not.         *)
(***************************************************************************)
Finish(t) ==
  /\ Goto(t, Idle)
  /\ slot' = IF t = SlotLoop THEN slot + 1 ELSE slot

BestLedger == LedgerFromBlockchain(chain, 0)

-----------------------------------------------------------------------------
(* handleBlock, and the tail that ApplyBlock shares with it. *)

ReceiveBlock(r, b) ==
  /\ GetBlockHash(b) \notin seenBlock
  /\ Start(r, [Idle EXCEPT !.at = "add", !.block = b])
  /\ UNCHANGED <<chain, mempool, seenTx, seenBlock, committed, slot>>

AddBlock(t) ==
  /\ At(t, "add")
  /\ \/ /\ CanAddBlock(chain, task[t].block)
        /\ chain' = Append(chain, task[t].block)
        /\ Goto(t, [task[t] EXCEPT !.at = "rebuild"])
        /\ UNCHANGED slot
     \/ /\ ~CanAddBlock(chain, task[t].block)
        /\ Finish(t)
        /\ UNCHANGED chain
  /\ UNCHANGED <<mempool, seenTx, seenBlock, committed, jobs>>

(***************************************************************************)
(* p.ledger = LedgerFromBlockchain(...): the replay of a snapshot, which   *)
(* takes its time, and the assignment.                                     *)
(***************************************************************************)
RebuildLedger(t) ==
  /\ At(t, "rebuild")
  /\ Goto(t, [task[t] EXCEPT !.at = "assign", !.view = CanonicalBlocks(chain, FinalityDepth)])
  /\ UNCHANGED <<chain, mempool, seenTx, seenBlock, committed, slot, jobs>>

\* Mutant: the installers go on as if they had added a block.
AssignAndInclude(t) ==
  /\ At(t, "assign")
  /\ committed' = task[t].view
  /\ Goto(t, [task[t] EXCEPT !.at = "include", !.view = << >>])
  /\ UNCHANGED <<chain, mempool, seenTx, seenBlock, slot, jobs>>

AssignLedger(t) ==
  /\ At(t, "assign")
  /\ committed' = task[t].view
  /\ IF task[t].block = None THEN Goto(t, Idle)
     ELSE Goto(t, [task[t] EXCEPT !.at = "include", !.view = << >>])
  /\ UNCHANGED <<chain, mempool, seenTx, seenBlock, slot, jobs>>

RemoveIncluded(t) ==
  /\ At(t, "include")
  /\ mempool' = NotIncluded(mempool, task[t].block)
  /\ Goto(t, [task[t] EXCEPT !.at = "prune"])
  /\ UNCHANGED <<chain, seenTx, seenBlock, committed, slot, jobs>>

(***************************************************************************)
(* pruneInvalidMempool: the ledger is read first, the pending transactions *)
(* are copied later.  The copy and the evictions are one step: an eviction *)
(* touches members of the copy only.                                       *)
(***************************************************************************)
ReadPruneLedger(t) ==
  /\ At(t, "prune")
  /\ Goto(t, [task[t] EXCEPT !.at = "evict", !.view = CanonicalBlocks(chain, 0)])
  /\ UNCHANGED <<chain, mempool, seenTx, seenBlock, committed, slot, jobs>>

Evict(t) ==
  /\ At(t, "evict")
  /\ mempool' \in Prunings(BuildLedgerFromBlocks(task[t].view), mempool)
  /\ Goto(t, [task[t] EXCEPT !.at = IF task[t].block = None THEN "select" ELSE "remember",
                             !.view = << >>])
  /\ UNCHANGED <<chain, seenTx, seenBlock, committed, slot, jobs>>

Remember(t) ==
  /\ At(t, "remember")
  /\ seenBlock' = seenBlock \cup {GetBlockHash(task[t].block)}
  /\ Finish(t)
  /\ UNCHANGED <<chain, mempool, seenTx, committed, jobs>>

-----------------------------------------------------------------------------
(* MineOneSlot, for the slot loop and for /admin/mine. *)

ValidatorStake == BuildLedgerFromBlocks(committed).bal[PKN][Self]

MayWin(s) ==
  ValidatorStake > 0 /\ WinsLottery(ValidatorStake, OptimisticLotteryHardness, Draw[Self][s])

MineOneSlot(t, s) ==
  /\ MayWin(s)
  /\ Start(t, [Idle EXCEPT !.at = "branch", !.slot = s, !.tickets = ValidatorStake])
  /\ UNCHANGED <<chain, mempool, seenTx, seenBlock, committed, slot>>

LoseSlot ==
  /\ At(SlotLoop, "idle") /\ slot \in Slot /\ ~MayWin(slot)
  /\ Finish(SlotLoop)
  /\ UNCHANGED <<chain, mempool, seenTx, seenBlock, committed, jobs>>

(***************************************************************************)
(* /admin/mine takes any slot and runs beside the slot loop.               *)
(***************************************************************************)
MineSlot(q, s) == s \in AdminSlots /\ MineOneSlot(q, s)

(***************************************************************************)
(* parentBlocks, parentLedger and parentHash are three reads.              *)
(***************************************************************************)
ReadParentBlocks(t) ==
  /\ At(t, "branch")
  /\ Goto(t, [task[t] EXCEPT !.at = "ledger", !.slots = SlotsTo(BestLeafHash(chain))])
  /\ UNCHANGED <<chain, mempool, seenTx, seenBlock, committed, slot, jobs>>

ReadParentLedger(t) ==
  /\ At(t, "ledger")
  /\ Goto(t, [task[t] EXCEPT !.at = "tip", !.base = CanonicalBlocks(chain, 0)])
  /\ UNCHANGED <<chain, mempool, seenTx, seenBlock, committed, slot, jobs>>

ReadParentHash(t) ==
  /\ At(t, "tip")
  /\ Goto(t, [task[t] EXCEPT !.at = "prune", !.parent = BestLeafHash(chain)])
  /\ UNCHANGED <<chain, mempool, seenTx, seenBlock, committed, slot, jobs>>

SelectTransactions(t) ==
  /\ At(t, "select")
  /\ \E txs \in Selections(BuildLedgerFromBlocks(task[t].base), mempool) :
       LET wins == WinsLottery(task[t].tickets, EffectiveHardness(task[t].slots, Len(txs)),
                               Draw[Self][task[t].slot])
       IN  \/ /\ wins
              /\ Goto(t, [Idle EXCEPT !.at = "add",
                            !.block = NewCandidateBlock(Self, task[t].slot, task[t].parent, txs)])
              /\ UNCHANGED slot
           \/ ~wins /\ Finish(t)
  /\ UNCHANGED <<chain, mempool, seenTx, seenBlock, committed, jobs>>

-----------------------------------------------------------------------------
(* handleChainSyncResponse. *)

ReceiveReply(r, reply) ==
  LET how == Installer(BestHeight(chain), reply)
  IN  /\ how # "none"
      /\ Start(r, [Idle EXCEPT !.at = "install", !.reply = reply, !.how = how])
      /\ UNCHANGED <<chain, mempool, seenTx, seenBlock, committed, slot>>

(***************************************************************************)
(* The installer works on a snapshot of its own and calls ReplaceBlocks    *)
(* when it is done.                                                        *)
(***************************************************************************)
BuildReplacement(r) ==
  /\ At(r, "install")
  /\ Goto(r, IF CanInstall(task[r].how, chain, task[r].reply)
             THEN [Idle EXCEPT !.at = "replace",
                               !.base = Replacement(task[r].how, chain, task[r].reply)]
             ELSE Idle)
  /\ UNCHANGED <<chain, mempool, seenTx, seenBlock, committed, slot, jobs>>

ReplaceBlocks(r) ==
  /\ At(r, "replace")
  /\ chain' = task[r].base
  /\ Goto(r, [Idle EXCEPT !.at = "rebuild"])
  /\ UNCHANGED <<mempool, seenTx, seenBlock, committed, slot, jobs>>

-----------------------------------------------------------------------------
(* Transactions, from peers and from the operations server. *)

Admissible(x) == WellFormed(x) /\ (x.kind \in AMMKinds => Accepts(BestLedger, x))

HandlePoSTransaction(t, x) ==
  /\ Admissible(x)
  /\ Start(t, [Idle EXCEPT !.at = "enter", !.tx = x])
  /\ UNCHANGED <<chain, mempool, seenTx, seenBlock, committed, slot>>

(***************************************************************************)
(* What the operator may have the node sign with its own account, with the *)
(* checks of the Flood...Transaction functions; a withdrawal goes to a     *)
(* wallet.                                                                 *)
(***************************************************************************)
OperatorTx(x) ==
  /\ x.from = Self /\ ~x.evm /\ x.kind # "amm_swap"
  /\ x.kind \in {"transfer", "mint", "asset_credit", "asset_debit", "amm_add_liquidity"} => x.amount >= 1
  /\ x.kind = "amm_add_liquidity" => x.amountB >= 1
  /\ x.kind = "transfer" => x.to \notin Native

AdminRequest(q, x) == OperatorTx(x) /\ HandlePoSTransaction(q, x)

EnterMempool(t) ==
  LET x == task[t].tx
  IN  /\ At(t, "enter")
      /\ mempool' = IF x.id \in seenTx THEN mempool ELSE Entered(mempool, x)
      /\ seenTx' = seenTx \cup {x.id}
      /\ Goto(t, Idle)
      /\ UNCHANGED <<chain, seenBlock, committed, slot, jobs>>

(***************************************************************************)
(* eth_sendRawTransaction reads the best nonce, the best nonce again and   *)
(* then the mempool for the pending nonce, and the balance, before it      *)
(* floods the transaction.                                                 *)
(***************************************************************************)
SendRaw(q, x) ==
  /\ x.evm /\ x.nonce >= BestLedger.nonces[x.from]
  /\ Start(q, [Idle EXCEPT !.at = "nonce", !.tx = x])
  /\ UNCHANGED <<chain, mempool, seenTx, seenBlock, committed, slot>>

ReadBestNonce(q) ==
  /\ At(q, "nonce")
  /\ Goto(q, [task[q] EXCEPT !.at = "pending", !.nonce = BestLedger.nonces[task[q].tx.from]])
  /\ UNCHANGED <<chain, mempool, seenTx, seenBlock, committed, slot, jobs>>

CheckPendingNonce(q) ==
  LET x == task[q].tx
  IN  /\ At(q, "pending")
      /\ Goto(q, IF x.nonce <= PendingNonce(mempool, x.from, task[q].nonce)
                 THEN [Idle EXCEPT !.at = "balance", !.tx = x] ELSE Idle)
      /\ UNCHANGED <<chain, mempool, seenTx, seenBlock, committed, slot, jobs>>

CheckBalance(q) ==
  LET x == task[q].tx
  IN  /\ At(q, "balance")
      /\ Goto(q, IF BestLedger.bal[PKN][x.from] >= x.amount /\ Admissible(x)
                 THEN [Idle EXCEPT !.at = "enter", !.tx = x] ELSE Idle)
      /\ UNCHANGED <<chain, mempool, seenTx, seenBlock, committed, slot, jobs>>

-----------------------------------------------------------------------------
Init ==
  /\ chain = << >> /\ mempool = {} /\ seenTx = {} /\ seenBlock = {}
  /\ committed = << >>
  /\ slot = 1
  /\ task = [t \in Thread |-> Idle]
  /\ jobs = 0

Step(t) ==
  \/ AddBlock(t) \/ RebuildLedger(t) \/ AssignLedger(t) \/ RemoveIncluded(t)
  \/ ReadPruneLedger(t) \/ Evict(t) \/ Remember(t)
  \/ ReadParentBlocks(t) \/ ReadParentLedger(t) \/ ReadParentHash(t) \/ SelectTransactions(t)
  \/ BuildReplacement(t) \/ ReplaceBlocks(t)
  \/ EnterMempool(t) \/ ReadBestNonce(t) \/ CheckPendingNonce(t) \/ CheckBalance(t)

Next ==
  \/ \E r \in Reader, b \in PeerBlocks : ReceiveBlock(r, b)
  \/ \E r \in Reader, reply \in PeerReplies : ReceiveReply(r, reply)
  \/ \E r \in Reader, x \in Tx : HandlePoSTransaction(r, x)
  \/ \E q \in Request, x \in Tx : AdminRequest(q, x)
  \/ \E q \in Request, x \in Tx : SendRaw(q, x)
  \/ slot \in Slot /\ MineOneSlot(SlotLoop, slot)
  \/ LoseSlot
  \/ \E q \in Request, s \in Slot : MineSlot(q, s)
  \/ \E t \in Thread : Step(t)

Spec == Init /\ [][Next]_vars

-----------------------------------------------------------------------------
TypeOK ==
  /\ chain \in Seq(Block) /\ committed \in Seq(Block)
  /\ mempool \subseteq Tx /\ seenTx \subseteq TxId /\ seenBlock \subseteq Hash
  /\ slot \in Nat /\ jobs \in Nat
  /\ \A t \in Thread :
       /\ task[t].block \in Block \cup {None} /\ task[t].tx \in Tx \cup {None}
       /\ task[t].at \in {"add", "include", "remember"} => task[t].block # None
       /\ task[t].view \in Seq(Block) /\ task[t].base \in Seq(Block)

(***************************************************************************)
(* Whatever the handlers do between each other's steps, every block in the *)
(* list passes AddBlock's test on the branch it sits on, and stands behind *)
(* its parent: a candidate put together from three different states of the *)
(* tree, a replacement built from a snapshot that is out of date, and a    *)
(* block that two readers append twice leave a tree that AddBlock could    *)
(* have built, as long as no two blocks share a hash.                      *)
(***************************************************************************)
OneBlockPerHash ==
  \A b, c \in Range(chain) : GetBlockHash(b) = GetBlockHash(c) => b = c

TreeStaysValid ==
  OneBlockPerHash =>
    \A i \in DOMAIN chain :
      /\ CanAddBlock(chain, chain[i])
      /\ \/ chain[i].parent = GenesisHash
         \/ \E j \in 1 .. (i - 1) : GetBlockHash(chain[j]) = chain[i].parent

(***************************************************************************)
(* "EVM wallets use same-nonce replacements for speeding up and            *)
(* cancellation, so keep only the latest tx for a nonce" (peer.go:1147):   *)
(* requests and readers that submit at the same time leave one pending     *)
(* transaction per sender and nonce.                                       *)
(***************************************************************************)
OnePendingPerNonce ==
  \A x, y \in mempool : x.evm /\ y.evm /\ x.from = y.from /\ x.nonce = y.nonce => x = y

(***************************************************************************)
(* A transaction stays in the mempool between AddBlock and the removal of  *)
(* the included ones, while the ledger is replayed; a candidate built in   *)
(* that window selects it again.  A wallet transaction is applied once all *)
(* the same, because the nonce is checked against the parent ledger.       *)
(***************************************************************************)
WalletTxOnce == \A x \in Tx : x.evm => TimesApplied(chain, x) <= 1

(***************************************************************************)
(* "The committed ledger is reconstructed from the best chain minus one    *)
(* tip block" (reports/report.md:68), "Rebuild ledger from best chain      *)
(* (simple and deterministic)" (peer.go:1255): when no handler is at work, *)
(* p.ledger is the replay of the best branch without its last              *)
(* finalityDepth blocks.                                                   *)
(***************************************************************************)
CommittedIsReconstructed ==
  (\A t \in Thread : At(t, "idle")) =>
    BuildLedgerFromBlocks(committed) = LedgerFromBlockchain(chain, FinalityDepth)
=============================================================================
