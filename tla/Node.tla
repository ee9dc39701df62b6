--------------------------------- MODULE Node ---------------------------------
(***************************************************************************)
(* A network of PokoinPoS nodes (src/peer/peer.go, handin.go, runtime_     *)
(* state.go): transactions and blocks are flooded over FIFO connections,   *)
(* every node keeps a mempool, a block tree and a message history, mines   *)
(* in its own slots, saves its state from time to time, and may crash,     *)
(* restart from what it saved, lose connections and connect again.         *)
(*                                                                         *)
(* A node is named by its miner account.  The slot loop is one goroutine;  *)
(* every connection has a reader of its own, so a message may be handled   *)
(* between the two halves of MineOneSlot, and blocks may be added between  *)
(* the snapshot that a sync installer takes and its ReplaceBlocks.         *)
(***************************************************************************)
EXTENDS ChainSync, Mempool

CONSTANTS
  Node,               \* the nodes, each a miner account
  FinalityDepth,      \* finalityDepth
  IdleSlotInterval,   \* POKOINPOS_IDLE_SLOT_INTERVAL
  BaseAttempts, MaxAttempts, AttemptsPerTx,   \* the mining attempts of one tick
  CrashNodes,         \* bound: the nodes that may crash, hence whose state file matters
  MaxCrashes,         \* bound on crashes
  MaxCuts             \* bound on lost connections and on ticks of the sync timer

ASSUME NodeAssumption ==
  /\ Node \subseteq Native /\ IsFiniteSet(Node)
  /\ FinalityDepth \in Nat /\ IdleSlotInterval \in Nat
  /\ BaseAttempts \in Nat \ {0} /\ MaxAttempts \in Nat \ {0} /\ AttemptsPerTx \in Nat
  /\ CrashNodes \subseteq Node /\ MaxCrashes \in Nat /\ MaxCuts \in Nat

VARIABLES
  up,          \* the process runs
  chain,       \* peer.blockchain.Blocks
  mempool,     \* peer.mempool
  seenTx,      \* the transaction identifiers in msgHistory
  seenBlock,   \* the block hashes in msgHistory
  stored,      \* the messages that msgHistory keeps the content of
  flooding,    \* a client's transaction that entered the mempool and is not sent yet
  slot,        \* the next slot of the slot loop
  attempts,    \* mining attempts left in this tick
  mining,      \* the candidate block between its construction and ApplyBlock
  responses,   \* sync responses that readers have chosen an installer for
  installing,  \* the replacements that readers have built and not installed yet
  disk,        \* the state file
  link,        \* open connections
  net,         \* net[m][n]: what n has still to read from m
  crashes,     \* crashes so far
  cuts         \* lost connections and ticks of the sync timer so far

state == <<chain, mempool, seenTx, seenBlock, stored>>
vars == <<up, chain, mempool, seenTx, seenBlock, stored, flooding, slot, attempts, mining,
          responses, installing, disk, link, net, crashes, cuts>>
counters == <<crashes, cuts>>
syncing == <<responses, installing>>

-----------------------------------------------------------------------------
(* Messages. *)

TxMsg(n, t) == [type |-> "tx", from |-> n, tx |-> t]

BlockMsg(n, b) == [type |-> "block", from |-> n, block |-> b]

SyncRequest(n, h) == [type |-> "request", from |-> n, fromHeight |-> h]

SyncResponse(n, r) == [type |-> "response", from |-> n, reply |-> r]

Neighbours(n) == {m \in Node \ {n} : {n, m} \in link}

(***************************************************************************)
(* FloodNetwork, and Send, which drops a message for a peer without a      *)
(* connection.                                                             *)
(***************************************************************************)
FloodNetwork(q, n, msg, except) ==
  [q EXCEPT ![n] = [m \in Node |->
     IF m \in Neighbours(n) \ except THEN Append(q[n][m], msg) ELSE q[n][m]]]

Send(q, n, m, msg) ==
  IF m \in Neighbours(n) THEN [q EXCEPT ![n][m] = Append(@, msg)] ELSE q

(***************************************************************************)
(* The reader of m at n is inside handleChainSyncResponse.                 *)
(***************************************************************************)
Busy(m, n) == \E k \in Range(responses[n]) \cup Range(installing[n]) : k.live /\ k.peer = m

Arrived(m, n, type) ==
  up[n] /\ ~Busy(m, n) /\ net[m][n] # << >> /\ Head(net[m][n]).type = type

Consumed(m, n) == [net EXCEPT ![m][n] = Tail(@)]

-----------------------------------------------------------------------------
(* The mempool. *)

BestLedger(n) == LedgerFromBlockchain(chain[n], 0)

CommittedLedger(n) == LedgerFromBlockchain(chain[n], FinalityDepth)

AdmitsTx(n, t) ==
  /\ WellFormed(t)
  /\ t.kind \in AMMKinds => Accepts(BestLedger(n), t)
  /\ t.id \notin seenTx[n]

EnterMempool(n, msg) ==
  /\ mempool' = [mempool EXCEPT ![n] = Entered(@, msg.tx)]
  /\ seenTx' = [seenTx EXCEPT ![n] = @ \cup {msg.tx.id}]
  /\ stored' = [stored EXCEPT ![n] = @ \cup {msg}]
  /\ UNCHANGED <<chain, seenBlock>>

(***************************************************************************)
(* What ApplyBlock and handleBlock do once AddBlock has accepted b.        *)
(***************************************************************************)
Adopt(n, b) ==
  /\ chain' = [chain EXCEPT ![n] = Append(@, b)]
  /\ \E kept \in Prunings(LedgerFromBlockchain(Append(chain[n], b), 0), NotIncluded(mempool[n], b)) :
       mempool' = [mempool EXCEPT ![n] = kept]
  /\ seenBlock' = [seenBlock EXCEPT ![n] = @ \cup {GetBlockHash(b)}]
  /\ UNCHANGED seenTx

-----------------------------------------------------------------------------
(* Transactions and blocks on the network. *)

(***************************************************************************)
(* FloodPoSTransaction, called by the operations server: the mempool takes *)
(* the transaction before the connections are written, and no lock covers  *)
(* the two, so the slot loop may mine it in between.                       *)
(***************************************************************************)
SubmitTx(n, t) ==
  /\ up[n] /\ flooding[n] = None /\ AdmitsTx(n, t)
  /\ EnterMempool(n, TxMsg(n, t))
  /\ flooding' = [flooding EXCEPT ![n] = t]
  /\ UNCHANGED <<up, slot, attempts, mining, syncing, disk, link, net, counters>>

FloodTx(n) ==
  /\ flooding[n] # None
  /\ net' = FloodNetwork(net, n, TxMsg(n, flooding[n]), {n})
  /\ flooding' = [flooding EXCEPT ![n] = None]
  /\ UNCHANGED <<up, state, slot, attempts, mining, syncing, disk, link, counters>>

HandlePoSTransaction(m, n) ==
  LET msg == Head(net[m][n])
  IN  /\ Arrived(m, n, "tx")
      /\ \/ /\ AdmitsTx(n, msg.tx)
            /\ EnterMempool(n, msg)
            /\ net' = FloodNetwork(Consumed(m, n), n, TxMsg(n, msg.tx), {msg.from})
         \/ /\ ~AdmitsTx(n, msg.tx)
            /\ net' = Consumed(m, n)
            /\ UNCHANGED state
      /\ UNCHANGED <<up, flooding, slot, attempts, mining, syncing, disk, link, counters>>

HasBlockHash(n, h) == h = GenesisHash \/ \E b \in Range(chain[n]) : GetBlockHash(b) = h

(***************************************************************************)
(* handleBlock: a block whose parent is missing makes the node ask its     *)
(* sender for the whole chain; it is not remembered, so it may come again. *)
(***************************************************************************)
HandleBlock(m, n) ==
  LET msg == Head(net[m][n])
      b   == msg.block
  IN  /\ Arrived(m, n, "block")
      /\ \/ /\ GetBlockHash(b) \in seenBlock[n]
            /\ net' = Consumed(m, n)
            /\ UNCHANGED state
         \/ /\ GetBlockHash(b) \notin seenBlock[n]
            /\ CanAddBlock(chain[n], b)
            /\ Adopt(n, b)
            /\ stored' = [stored EXCEPT ![n] = @ \cup {msg}]
            /\ net' = FloodNetwork(Consumed(m, n), n, BlockMsg(n, b), {msg.from})
         \/ /\ GetBlockHash(b) \notin seenBlock[n]
            /\ ~CanAddBlock(chain[n], b)
            /\ net' = IF HasBlockHash(n, b.parent) THEN Consumed(m, n)
                      ELSE Send(Consumed(m, n), n, msg.from, SyncRequest(n, 0))
            /\ UNCHANGED state
      /\ UNCHANGED <<up, flooding, slot, attempts, mining, syncing, disk, link, counters>>

HandleChainSyncRequest(m, n) ==
  LET msg == Head(net[m][n])
  IN  /\ Arrived(m, n, "request")
      /\ net' = Send(Consumed(m, n), n, msg.from,
                     SyncResponse(n, SyncReply(chain[n], msg.fromHeight)))
      /\ UNCHANGED <<up, state, flooding, slot, attempts, mining, syncing, disk, link, counters>>

(***************************************************************************)
(* handleChainSyncResponse reads the local height, the installer takes its *)
(* snapshot and builds the replacement, and ReplaceBlocks puts it in       *)
(* place: three steps without a lock around them.  The slot loop and the   *)
(* readers of other connections run in between, and so does the reader of  *)
(* a new connection to the same peer (live: the old one is still open).    *)
(***************************************************************************)
HandleChainSyncResponse(m, n) ==
  LET msg == Head(net[m][n])
      how == Installer(BestHeight(chain[n]), msg.reply)
  IN  /\ Arrived(m, n, "response")
      /\ net' = Consumed(m, n)
      /\ responses' = IF how = "none" THEN responses
                      ELSE [responses EXCEPT ![n] =
                              Append(@, [peer |-> m, live |-> TRUE, how |-> how, reply |-> msg.reply])]
      /\ UNCHANGED <<up, state, flooding, slot, attempts, mining, installing, disk, link, counters>>

BuildReplacement(n, i) ==
  LET k == responses[n][i]
  IN  /\ responses' = [responses EXCEPT ![n] = RemoveAt(@, i)]
      /\ \/ /\ CanInstall(k.how, chain[n], k.reply)
            /\ installing' = [installing EXCEPT ![n] =
                 Append(@, [peer |-> k.peer, live |-> k.live, local |-> CanonicalBlocks(chain[n], 0),
                            blocks |-> Replacement(k.how, chain[n], k.reply)])]
            /\ UNCHANGED net
         \/ /\ ~CanInstall(k.how, chain[n], k.reply)
            /\ net' = IF AsksForWholeChain(k.how, chain[n], k.reply)
                      THEN Send(net, n, k.peer, SyncRequest(n, 0)) ELSE net
            /\ UNCHANGED installing
      /\ UNCHANGED <<up, state, flooding, slot, attempts, mining, disk, link, counters>>

ReplaceBlocks(n, i) ==
  /\ chain' = [chain EXCEPT ![n] = installing[n][i].blocks]
  /\ installing' = [installing EXCEPT ![n] = RemoveAt(@, i)]
  /\ UNCHANGED <<up, mempool, seenTx, seenBlock, stored, flooding, slot, attempts, mining,
                 responses, disk, link, net, counters>>

(***************************************************************************)
(* RequestChainSyncFromPeers, on its ticker.                               *)
(***************************************************************************)
RequestChainSync(n) ==
  /\ up[n] /\ attempts[n] = 0 /\ mining[n] = None
  /\ cuts < MaxCuts /\ cuts' = cuts + 1
  /\ net' = FloodNetwork(net, n, SyncRequest(n, BestHeight(chain[n]) + 1), {n})
  /\ UNCHANGED <<up, state, flooding, slot, attempts, mining, syncing, disk, link, crashes>>

-----------------------------------------------------------------------------
(* The slot loop. *)

ShouldMineSlot(s, depth) ==
  IF depth > 0 \/ IdleSlotInterval = 0 THEN TRUE ELSE s = 1 \/ s % IdleSlotInterval = 0

MineAttemptsForNetwork(depth, nodes) ==
  LET share == (BaseAttempts + depth * AttemptsPerTx + nodes - 1) \div nodes
  IN  IF share > MaxAttempts THEN MaxAttempts
      ELSE IF share < BaseAttempts THEN BaseAttempts ELSE share

Tick(n) ==
  /\ up[n] /\ attempts[n] = 0 /\ mining[n] = None /\ slot[n] \in Slot
  /\ \/ /\ ShouldMineSlot(slot[n], Cardinality(mempool[n]))
        /\ attempts' = [attempts EXCEPT ![n] =
             MineAttemptsForNetwork(Cardinality(mempool[n]), Cardinality(Neighbours(n)) + 1)]
        /\ UNCHANGED slot
     \/ /\ ~ShouldMineSlot(slot[n], Cardinality(mempool[n]))
        /\ slot' = [slot EXCEPT ![n] = @ + 1]
        /\ UNCHANGED attempts
  /\ UNCHANGED <<up, state, flooding, mining, syncing, disk, link, net, counters>>

(***************************************************************************)
(* The tickets a node mines with are its committed balance, where AddBlock *)
(* counts LotteryTickets.                                                  *)
(***************************************************************************)
ValidatorStake(n) == CommittedLedger(n).bal[PKN][n]

Wins(n, hardness) ==
  ValidatorStake(n) > 0 /\ WinsLottery(ValidatorStake(n), hardness, Draw[n][slot[n]])

\* Mutant: the attempt is counted twice.
EndAttemptTwice(n, left) ==
  /\ attempts' = [attempts EXCEPT ![n] = left - 1]
  /\ slot' = [slot EXCEPT ![n] = @ + 1]
  /\ mining' = [mining EXCEPT ![n] = None]

\* Mutant: the slot in which a block was mined is used again.
EndAttemptSameSlot(n, left) ==
  /\ attempts' = [attempts EXCEPT ![n] = left]
  /\ slot' = [slot EXCEPT ![n] = IF left = 0 THEN @ ELSE @ + 1]
  /\ mining' = [mining EXCEPT ![n] = None]

EndAttempt(n, left) ==
  /\ attempts' = [attempts EXCEPT ![n] = left]
  /\ slot' = [slot EXCEPT ![n] = @ + 1]
  /\ mining' = [mining EXCEPT ![n] = None]

LoseSlot(n) ==
  /\ up[n] /\ attempts[n] > 0 /\ mining[n] = None /\ slot[n] \in Slot
  /\ ~Wins(n, OptimisticLotteryHardness)
  /\ EndAttempt(n, attempts[n] - 1)
  /\ UNCHANGED <<up, state, flooding, syncing, disk, link, net, counters>>

BuildCandidate(n) ==
  /\ up[n] /\ attempts[n] > 0 /\ mining[n] = None /\ slot[n] \in Slot
  /\ Wins(n, OptimisticLotteryHardness)
  /\ \E kept \in Prunings(BestLedger(n), mempool[n]) :
       /\ mempool' = [mempool EXCEPT ![n] = kept]
       /\ \E txs \in Selections(BestLedger(n), kept) :
            \/ /\ Wins(n, EffectiveHardness(SlotsTo(BestLeafHash(chain[n])), Len(txs)))
               /\ mining' = [mining EXCEPT ![n] =
                               NewCandidateBlock(n, slot[n], BestLeafHash(chain[n]), txs)]
               /\ UNCHANGED <<attempts, slot>>
            \/ /\ ~Wins(n, EffectiveHardness(SlotsTo(BestLeafHash(chain[n])), Len(txs)))
               /\ EndAttempt(n, attempts[n] - 1)
  /\ UNCHANGED <<up, chain, seenTx, seenBlock, stored, flooding, syncing, disk, link, net, counters>>

\* Mutant: the block is sent as it was before its transactions were selected.
ApplyBlockStalePayload(n) ==
  /\ up[n] /\ mining[n] # None
  /\ CanAddBlock(chain[n], mining[n])
  /\ Adopt(n, mining[n])
  /\ net' = FloodNetwork(net, n, BlockMsg(n, [mining[n] EXCEPT !.txs = << >>]), {n})
  /\ EndAttempt(n, 0)
  /\ UNCHANGED <<up, stored, flooding, syncing, disk, link, counters>>

(***************************************************************************)
(* ApplyBlock and the flood.  A mined block enters the history without its *)
(* content, so sendCatchUp leaves it out; one whose hash is in the history *)
(* already was flooded then and is not sent again.                         *)
(***************************************************************************)
ApplyBlock(n) ==
  /\ up[n] /\ mining[n] # None
  /\ \/ /\ CanAddBlock(chain[n], mining[n])
        /\ Adopt(n, mining[n])
        /\ net' = IF GetBlockHash(mining[n]) \in seenBlock[n] THEN net
                  ELSE FloodNetwork(net, n, BlockMsg(n, mining[n]), {n})
        /\ EndAttempt(n, 0)
        /\ UNCHANGED stored
     \/ /\ ~CanAddBlock(chain[n], mining[n])
        /\ EndAttempt(n, attempts[n] - 1)
        /\ UNCHANGED <<state, net>>
  /\ UNCHANGED <<up, flooding, syncing, disk, link, counters>>

-----------------------------------------------------------------------------
(* The state file, crashes and connections. *)

(***************************************************************************)
(* The bound: a save matters only while a crash may follow.                *)
(***************************************************************************)
SaveNodeState(n) ==
  /\ n \in CrashNodes /\ crashes < MaxCrashes
  /\ up[n] /\ attempts[n] = 0 /\ mining[n] = None
  /\ disk' = [disk EXCEPT ![n] = [blocks |-> chain[n], slot |-> slot[n]]]
  /\ UNCHANGED <<up, state, flooding, slot, attempts, mining, syncing, link, net, counters>>

Cut(q, cut) == [m \in Node |-> [n \in Node |-> IF {m, n} \in cut THEN << >> ELSE q[m][n]]]

(***************************************************************************)
(* A reader whose connection is lost finishes the handler it is in.        *)
(***************************************************************************)
Detached(q, cut) ==
  [n \in Node |-> [i \in DOMAIN q[n] |->
     [q[n][i] EXCEPT !.live = @ /\ {n, q[n][i].peer} \notin cut]]]

Crash(n) ==
  /\ n \in CrashNodes /\ up[n]
  /\ up' = [up EXCEPT ![n] = FALSE]
  /\ crashes < MaxCrashes /\ crashes' = crashes + 1
  /\ link' = {l \in link : n \notin l}
  /\ net' = Cut(net, {l \in link : n \in l})
  /\ chain' = [chain EXCEPT ![n] = << >>]
  /\ mempool' = [mempool EXCEPT ![n] = {}]
  /\ seenTx' = [seenTx EXCEPT ![n] = {}]
  /\ seenBlock' = [seenBlock EXCEPT ![n] = {}]
  /\ stored' = [stored EXCEPT ![n] = {}]
  /\ flooding' = [flooding EXCEPT ![n] = None]
  /\ attempts' = [attempts EXCEPT ![n] = 0]
  /\ mining' = [mining EXCEPT ![n] = None]
  /\ responses' = [Detached(responses, {l \in link : n \in l}) EXCEPT ![n] = << >>]
  /\ installing' = [Detached(installing, {l \in link : n \in l}) EXCEPT ![n] = << >>]
  /\ UNCHANGED <<slot, disk, cuts>>

(***************************************************************************)
(* A node without a state file comes back with a new key and a new genesis:*)
(* the one that crashed stays down.                                        *)
(***************************************************************************)
Restart(n) ==
  /\ ~up[n] /\ disk[n] # None
  /\ up' = [up EXCEPT ![n] = TRUE]
  /\ chain' = [chain EXCEPT ![n] = disk[n].blocks]
  /\ slot' = [slot EXCEPT ![n] = disk[n].slot + 1]
  /\ UNCHANGED <<mempool, seenTx, seenBlock, stored, flooding, attempts, mining, syncing, disk, link, net, counters>>

Disconnect(n, m) ==
  /\ {n, m} \in link
  /\ cuts < MaxCuts /\ cuts' = cuts + 1
  /\ link' = link \ {{n, m}}
  /\ net' = Cut(net, {{n, m}})
  /\ responses' = Detached(responses, {{n, m}})
  /\ installing' = Detached(installing, {{n, m}})
  /\ UNCHANGED <<up, state, flooding, slot, attempts, mining, disk, crashes>>

(***************************************************************************)
(* The handshake: n dials m.  The lower of the two asks for what it lacks, *)
(* and m sends everything its history has the content of, in map order.    *)
(***************************************************************************)
MaybeRequestChainSync(n, m) ==
  IF BestHeight(chain[m]) > BestHeight(chain[n])
  THEN <<SyncRequest(n, BestHeight(chain[n]) + 1)>> ELSE << >>

Connect(n, m) ==
  /\ n # m /\ up[n] /\ up[m] /\ {n, m} \notin link
  /\ link' = link \cup {{n, m}}
  /\ \E catchUp \in SetToSeqs(stored[m]) :
       net' = [net EXCEPT ![n][m] = MaybeRequestChainSync(n, m),
                          ![m][n] = MaybeRequestChainSync(m, n) \o catchUp]
  /\ UNCHANGED <<up, state, flooding, slot, attempts, mining, syncing, disk, counters>>

-----------------------------------------------------------------------------
Init ==
  /\ up = [n \in Node |-> TRUE]
  /\ chain = [n \in Node |-> << >>]
  /\ mempool = [n \in Node |-> {}]
  /\ seenTx = [n \in Node |-> {}]
  /\ seenBlock = [n \in Node |-> {}]
  /\ stored = [n \in Node |-> {}]
  /\ flooding = [n \in Node |-> None]
  /\ slot = [n \in Node |-> 1]
  /\ attempts = [n \in Node |-> 0]
  /\ mining = [n \in Node |-> None]
  /\ responses = [n \in Node |-> << >>]
  /\ installing = [n \in Node |-> << >>]
  /\ disk = [n \in Node |-> None]
  /\ link = {{n, m} : n \in Node, m \in Node} \ {{n} : n \in Node}
  /\ net = [n \in Node |-> [m \in Node |-> << >>]]
  /\ crashes = 0
  /\ cuts = 0

Receive(m, n) ==
  \/ HandlePoSTransaction(m, n)
  \/ HandleBlock(m, n)
  \/ HandleChainSyncRequest(m, n)
  \/ HandleChainSyncResponse(m, n)

Install(n) ==
  \/ \E i \in DOMAIN responses[n] : BuildReplacement(n, i)
  \/ \E i \in DOMAIN installing[n] : ReplaceBlocks(n, i)

SlotLoop(n) == Tick(n) \/ LoseSlot(n) \/ BuildCandidate(n) \/ ApplyBlock(n)

(***************************************************************************)
(* The end of a run: every node is past the last slot, or down for good,   *)
(* and has nothing to read and nothing to install.  Only there may the     *)
(* network stop.                                                           *)
(***************************************************************************)
Terminated ==
  /\ \A n \in Node : \/ up[n] /\ slot[n] \notin Slot /\ flooding[n] = None
                     \/ ~up[n] /\ disk[n] = None
  /\ \A m, n \in Node : net[m][n] = << >>
  /\ \A n \in Node : responses[n] = << >> /\ installing[n] = << >>
  /\ UNCHANGED vars

Next ==
  \/ \E n \in Node, t \in Tx : SubmitTx(n, t)
  \/ \E n \in Node : FloodTx(n)
  \/ \E m, n \in Node : Receive(m, n)
  \/ \E n \in Node : Install(n)
  \/ \E n \in Node : SlotLoop(n)
  \/ \E n \in Node : RequestChainSync(n)
  \/ \E n \in Node : SaveNodeState(n)
  \/ \E n \in Node : Crash(n)
  \/ \E n \in Node : Restart(n)
  \/ \E n, m \in Node : Disconnect(n, m)
  \/ \E n, m \in Node : Connect(n, m)
  \/ Terminated

Spec == Init /\ [][Next]_vars

(***************************************************************************)
(* Readers drain their connections and finish their handlers, and the slot *)
(* loop runs on its ticker, as long as the process does: weak fairness of  *)
(* Receive, Install and SlotLoop, with their enabling conditions spelled   *)
(* out.  Nothing is asked of clients, of the state and sync tickers, or of *)
(* faults.                                                                 *)
(***************************************************************************)
Reads(m, n) == Len(net'[m][n]) < Len(net[m][n])

Proceeds(n) ==
  Len(responses'[n]) < Len(responses[n]) \/ Len(installing'[n]) < Len(installing[n])

Works(n) == <<slot[n], attempts[n], mining[n]>>' # <<slot[n], attempts[n], mining[n]>>

Fairness ==
  /\ \A m, n \in Node :
       []<>(~up[n] \/ Busy(m, n) \/ net[m][n] = << >>) \/ []<><<Reads(m, n)>>_vars
  /\ \A n \in Node : []<>(responses[n] = << >> /\ installing[n] = << >>) \/ []<><<Proceeds(n)>>_vars
  /\ \A n \in Node : []<>(~up[n] \/ slot[n] \notin Slot) \/ []<><<Works(n)>>_vars

FairSpec == Spec /\ Fairness

-----------------------------------------------------------------------------
AnyReply == [height: Nat, whole: BOOLEAN, blocks: Seq(Block)]

Message ==
  [type: {"tx"}, from: Node, tx: Tx] \cup [type: {"block"}, from: Node, block: Block]
    \cup [type: {"request"}, from: Node, fromHeight: Nat]
    \cup [type: {"response"}, from: Node, reply: AnyReply]

TypeOK ==
  /\ up \in [Node -> BOOLEAN]
  /\ chain \in [Node -> Seq(Block)]
  /\ mempool \in [Node -> SUBSET Tx]
  /\ seenTx \in [Node -> SUBSET TxId]
  /\ seenBlock \in [Node -> SUBSET Hash]
  /\ stored \in [Node -> SUBSET Message]
  /\ flooding \in [Node -> Tx \cup {None}]
  /\ slot \in [Node -> Nat]
  /\ attempts \in [Node -> Nat]
  /\ mining \in [Node -> Block \cup {None}]
  /\ responses \in [Node -> Seq([peer: Node, live: BOOLEAN, how: {"full", "suffix", "overlap"},
                                  reply: AnyReply])]
  /\ installing \in [Node -> Seq([peer: Node, live: BOOLEAN, local: Seq(Block), blocks: Seq(Block)])]
  /\ disk \in [Node -> [blocks: Seq(Block), slot: Nat] \cup {None}]
  /\ link \in SUBSET SUBSET Node
  /\ net \in [Node -> [Node -> Seq(Message)]]
  /\ crashes \in Nat
  /\ cuts \in Nat

(***************************************************************************)
(* Block hashes leave the transactions out, so the network relies on every *)
(* miner building one block per slot: two blocks with one hash, wherever   *)
(* they are stored, carry the same transactions. It is a claim about the   *)
(* slot loop alone: a crash, and an administrator who mines the same slot  *)
(* beside the loop (Process.MineSlot), can break it.                       *)
(***************************************************************************)
BlocksHeld == UNION {Range(chain[n]) : n \in Node}

OneBlockPerHash == \A b, c \in BlocksHeld : GetBlockHash(b) = GetBlockHash(c) => b = c

(***************************************************************************)
(* Every block a node stores passes AddBlock's test on the branch it sits  *)
(* on, although chain sync installs blocks without that test and over a    *)
(* branch that mining may have extended meanwhile.  Only a miner that      *)
(* forgot a block in a crash and built another one with its hash can make  *)
(* it fail.                                                                *)
(***************************************************************************)
ChainsStayValid ==
  OneBlockPerHash => \A n \in Node : \A b \in Range(chain[n]) : CanAddBlock(chain[n], b)

(***************************************************************************)
(* calculateDepths reads parents before children: every list that AddBlock,*)
(* the sync installers and the state file leave has them in that order.    *)
(***************************************************************************)
ParentsFirst ==
  \A n \in Node : \A i \in DOMAIN chain[n] :
    \/ chain[n][i].parent = GenesisHash
    \/ \E j \in 1 .. (i - 1) : GetBlockHash(chain[n][j]) = chain[n][i].parent

(***************************************************************************)
(* A wallet transaction is applied once, whatever is resubmitted, resent   *)
(* by catch-up or forgotten in a crash.                                    *)
(***************************************************************************)
WalletTxOnce == \A n \in Node, t \in Tx : t.evm => TimesApplied(chain[n], t) <= 1

(***************************************************************************)
(* "validTransactions[0], // Replay." heads the list of invalid            *)
(* transactions of the demo (handin.go:76): a native transaction that was  *)
(* applied is not applied again either.                                    *)
(***************************************************************************)
NativeTxOnce == \A n \in Node, t \in Tx : ~t.evm => TimesApplied(chain[n], t) <= 1

(***************************************************************************)
(* "`totalSupply` should match after sync"                                 *)
(* (docs/blockchain-update-workflow.md:186): nodes that report the same    *)
(* best block hash have the same balances.                                 *)
(***************************************************************************)
SameTipSameLedger ==
  \A n, m \in Node : up[n] /\ up[m] /\ BestLeafHash(chain[n]) = BestLeafHash(chain[m]) =>
    BestLedger(n).bal = BestLedger(m).bal

(***************************************************************************)
(* A replacement that was built before the chain grew shortens the chain   *)
(* when it is installed, and drops the blocks that came in between.  What  *)
(* every installer at work had seen is safe: a height that the best branch *)
(* and the snapshots of all of them have is never lost while the node      *)
(* runs, however many of them interleave with each other and with mining.  *)
(* In particular nothing that a node reaches while no installer is at work *)
(* is lost later.                                                          *)
(***************************************************************************)
Secured(n, h) ==
  BestHeight(chain[n]) >= h /\ \A k \in Range(installing[n]) : Len(k.local) >= h

SecuredStep ==
  \A n \in Node : up[n] /\ up'[n] =>
    \A h \in 0 .. BestHeight(chain[n]) : Secured(n, h) => Secured(n, h)'

HeightsStaySecured == [][SecuredStep]_vars

(***************************************************************************)
(* "`height` should converge, allowing for a short delay while a node      *)
(* imports new blocks" (docs/blockchain-update-workflow.md:183): without   *)
(* faults all nodes end on one best block, however their own blocks race   *)
(* on the network.                                                         *)
(***************************************************************************)
Converges == <>[](\A n, m \in Node : BestLeafHash(chain[n]) = BestLeafHash(chain[m]))

-----------------------------------------------------------------------------
(***************************************************************************)
(* The network implements ForkChoice: forgetting messages, mempools and    *)
(* block contents, every step publishes one block in a slot its miner has  *)
(* not used, moves one tip to a published block that the fork choice       *)
(* prefers, plans such a move to a longer branch, carries out a plan, or   *)
(* changes none of these.  The plans are the replacements that installers  *)
(* have built: each was longer than the tip when it was built, and may no  *)
(* longer be when it is installed.  It is checked without crashes, which   *)
(* empty seenBlock.                                                        *)
(***************************************************************************)
Published == UNION {seenBlock[n] : n \in Node}

Tips == [n \in Node |-> BestLeafHash(chain[n])]

Plans == [n \in Node |-> {BestLeafHash(k.blocks) : k \in Range(installing[n])}]

FC == INSTANCE ForkChoice WITH published <- Published, tip <- Tips, plan <- Plans

ImplementsForkChoice == FC!AbstractSpec
=============================================================================
