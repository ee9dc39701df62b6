# PokoinPoS in TLA+

A verification project for the PokoinPoS node (`src/peer`): a slot-based
proof-of-stake chain written in Go, with a native ledger (payments, mints, NFTs,
a constant-product exchange, EVM contract transactions), gossip over TCP and
periodic state files. TLC checks the modules on small instances: the ledger, the
block tree, the network of nodes, the goroutines inside one node and the
connections between nodes. TLAPS proves every safety property that the passing runs
check, and that the network implements its abstract fork choice, for every instance
that meets the hypotheses listed under Proofs.

## The system

| Component | State | Operations | Interacts with |
|---|---|---|---|
| Ledger (`account/ledger.go`, `transaction.go`, `Genesis.go`) | balances per asset, wallet nonces, validator registry, NFTs, pools, EVM accounts, recorded transactions | `Transaction`, `MarkValidator`, genesis, block reward | rebuilt from blocks by every reader of the chain |
| Lottery (`ledger.go`, `blockchain.go`, `Genesis.go`) | none (functions of a ledger and of the slots of a branch) | `LotteryTickets`, `WinsLottery`, dynamic hardness | called by mining and by `AddBlock`, with different tickets |
| Block tree (`account/blockchain.go`) | the list `Blocks`, genesis first | `AddBlock`, best branch, replay, `ReplaceBlocks` | fed by mining, gossip, sync, restart |
| Chain sync (`peer.go`) | none (two message types) | request from a height, reply with a suffix or the whole branch, three installers | replaces the block list |
| Node (`peer.go`, `handin.go`) | mempool, message history, connections, slot counter | flood, handlers per message, `MineOneSlot`, mempool pruning | one reader per connection, one slot loop, HTTP handlers, all sharing the node |
| State file (`runtime_state.go`) | chain, next slot, last payout | periodic save, restore at start | restart resumes from an older chain and slot |
| Connections, join, bootstrap (`peer.go`, `handin.go`, `bootstrap_manifest.go`) | address book, connection map, cached manifest | dial, handshake, reader cleanup, join flood, reconnect timer | starts sync and catch-up |
| Explorer index (`runtime_index.go`, `runtime_ops.go`) | none (rebuilt per request) | index, pages, finality marks, supply | reads the block tree |
| Operations server, RPC (`runtime_ops.go`) | none | raw transactions, administrator's transactions, `/admin/mine`, views | one goroutine per request, beside the readers and the slot loop |
| Dashboard, configuration, logging | none | views, environment | |

What makes each part correct, and what is hard about it:

- *Ledger*: nothing is overdrawn, wallet nonces are consumed once, a token has
  one owner with a recorded history, pools keep their product and are never
  drained, trades create nothing. Hard: long legal sequences, rounding, debits
  that are checked before the state they act on is final, failed contract calls
  that leave traces.
- *Lottery*: tickets stay inside the documented shares and validators stay
  eligible while the stake moves. Hard: the registry and the balances change
  independently.
- *Block tree*: the best branch depends on the set of blocks and not on their
  order; replay reproduces what `AddBlock` accepted; supply is accounted for.
- *Sync*: installs only what `AddBlock` would have taken, and loses no height
  that the chain and every installer at work had seen. Hard: the response answers
  an older question, and the installers replace the list by one that was built on
  a snapshot, with nothing locked in between.
- *Node*: transactions are applied once, hashes name blocks, nodes converge.
  Hard: blocks race with blocks and with transactions, candidates are built on
  a branch that moves, crashes rewind the slot counter, catch-up resends what
  was applied.
- *Goroutines*: the block list, the mempool, the history and the ledger have a
  lock each or none; handlers read them one after the other. The tree stays one
  that `AddBlock` could have built, a nonce has one pending transaction, the
  committed ledger follows the chain. Hard: every handler works on snapshots.
- *Connections*: the map names connections that are read, and a node that loses
  its peers gets new ones. Hard: both sides dial at once, so that one map entry
  stands for two connections that end at different times.
- *Explorer*: following the cursors shows everything once, and "finalized" means
  that the committed ledger has it. Hard: the last page, chains shorter than the
  finality depth.

`PROJECT.json` lists the components, the hazards with their lines, and the line
range that every definition models.

## Modules

```
Ledger ---- LedgerSpec ---- LotterySpec (with Lottery) ---- LedgerSpecProofs
  |
Lottery
  |
Blockchain ---- BlockchainSpec ---- Explorer ---- BlockchainProofs
  |
  |    Mempool --.
ChainSync -------+---- Node ....implements.... ForkChoice
                 |        `---- NodeProofs
                 `---- Process ---- ProcessProofs

Overlay ---- OverlayProofs

lemmas:  SumProofs ---- LedgerProofs ---- BlockTreeProofs
```

`SumProofs` has the lemmas on sums, `LedgerProofs` those on one transaction, on
which `LedgerSpecProofs` rests too, and `BlockTreeProofs` those on branches and
their replay, for `BlockchainProofs`, `NodeProofs` and `ProcessProofs`.

`MCLedger`, `MCBlockchain`, `MCNode`, `MCProcess` and `MCOverlay` give the
constants their values; each `.cfg` is one run. Node, Process and Overlay look
at one system in three ways, because their product is beyond TLC: Node has
several nodes whose handlers are atomic but for the windows listed below, Process
has one node whose handlers interleave between every two of its locks, Overlay
has the connections without the chain.

**Ledger** holds no state. A ledger is a record and every kind of transaction is
a pair `CanX`/`X`; `Transaction(l, t)` is the Go method. Accounts and
`AssetBalances` are one map because the Go helpers route PKN to the former and
everything else to the latter. Strings are model values that stand for their
normalised form, `signed` is the outcome of `Verify`, `ok` is what the EVM
answers. A contract call that carries value fails, since EVM balances start at
zero. A failed creation still counts the EVM nonce (`RejectedContract`).
**LedgerSpec** submits any transaction at any time, again and again, and pays
rewards: every sequence of calls a replay can make.

**Lottery** is the arithmetic of tickets and hardness, **LotterySpec** its
properties over the ledgers that LedgerSpec reaches. A miner's draw in a slot is
a signature, hence a constant table. The branch of `AddBlock` for blocks without
a lottery proof (a draw from a public hash) only replaces that table and is left
out.

**Blockchain** is the block tree as operators on a list of blocks. The hash
covers miner, slot, draw, parent, proof and signature and not the transactions,
so a hash is modelled as the path of `<<miner, slot>>` pairs from genesis: two
blocks that differ only in their transactions have one hash, as in the code.
`calculateDepths` reads parents before children; `ParentsFirst` checks that this
holds of every list the nodes store. **BlockchainSpec** feeds one tree with
blocks of every miner, slot, parent and transaction list, equivocating ones
included; its properties that need distinct hashes say so (`NoEquivocation`).

**Explorer** adds views to BlockchainSpec and no state: the index, the pages
that a client walks by cursor, the finality marks and the supply snapshot, all
computed from the block list as each request does. `NewestFirst` is the sort by
date, written as the place of each entry among the others: the sort of the library
enumerates permutations, and this one can be reasoned about.

**Mempool** and **ChainSync** are operators: what may enter the mempool, what it
replaces, what pruning keeps and mining selects; what a node answers to a sync
request, which installer a response goes to, when it is refused and the block
list it leaves.

**Node** composes them: variables `chain`, `mempool`, `seenTx`/`seenBlock`
(message history), `stored` (the part of the history with content, which
catch-up resends), `slot`/`attempts`/`mining` (the slot loop),
`responses`/`installing` (the readers that are inside a sync handler, before their
snapshot and between it and the replacement), `disk`, `link`, `net` (FIFO
connections), and one action per handler or step:

| Action | Code |
|---|---|
| `SubmitTx`, `FloodTx` | `FloodPoSTransaction`: mempool first, flood second, nothing locked in between |
| `HandlePoSTransaction`, `HandleBlock` | the handlers and the forwarding of `OnMessage` |
| `HandleChainSyncRequest` | the answer to a sync request |
| `HandleChainSyncResponse`, `BuildReplacement`, `ReplaceBlocks` | `handleChainSyncResponse`: the height is read and an installer chosen; the installer takes its snapshot, tests the response and builds the replacement, or asks for the whole chain; the list is replaced |
| `RequestChainSync` | the sync timer |
| `Tick`, `LoseSlot`, `BuildCandidate`, `ApplyBlock` | the slot loop and `MineOneSlot`, cut where the candidate exists and is not applied yet |
| `SaveNodeState`, `Crash`, `Restart` | the state timer, the end of the process, the start of `runNode` |
| `Disconnect`, `Connect` | reader cleanup; handshake, catch-up and the first sync request |

**ForkChoice** is what the network promises without messages: miners publish
blocks, one per slot each, on published blocks; a tip moves to a published block
that is longer, or equally long with the smaller hash (`Learn`); and a node may
decide for a published block that is longer than its tip (`Decide`) and move there
later (`Move`), when it has perhaps found a better one. Node implements it
(`ImplementsForkChoice`) with `published` the hashes in some node's history, `tip`
the best leaf of each node's tree and `plan` the best leaves of the replacements
that its readers have built. `Move` is the weakness of the code, not of the model:
without it the refinement fails, because the installers hold no lock. The
refinement is about safety and is checked without crashes: a crash empties the
history, and re-mining a slot is the finding of `node_equivocation`.

**Process** cuts the handlers of one node where they take or release a lock or
read the block tree. `task[t]` is the position and the local variables of
goroutine `t`; `committed` is the branch that `p.ledger` was replayed from.

| Actions | Code |
|---|---|
| `ReceiveBlock`, `AddBlock`, `RebuildLedger`, `AssignLedger`, `RemoveIncluded`, `ReadPruneLedger`, `Evict`, `Remember` | `handleBlock` and `ApplyBlock`, which share their tail |
| `MineOneSlot`, `ReadParentBlocks`, `ReadParentLedger`, `ReadParentHash`, `SelectTransactions`, `LoseSlot` | `MineOneSlot`: three reads of the tree, pruning, selection |
| `MineSlot` | `/admin/mine` |
| `ReceiveReply`, `BuildReplacement`, `ReplaceBlocks` | `handleChainSyncResponse`, the installers' snapshot, the replacement |
| `HandlePoSTransaction`, `AdminRequest`, `EnterMempool` | transactions from peers and from the administrator |
| `SendRaw`, `ReadBestNonce`, `CheckPendingNonce`, `CheckBalance` | `eth_sendRawTransaction` |

What a process sends (floods, the request for the whole chain) goes to peers and
leaves its own state alone; what peers send is a constant set of valid blocks
and responses.

**Overlay** is the connector goroutine (start-up joins, then the reconnect timer:
known addresses, bootstrap peers, seed), the handshake as two ends that finish
on their own, the reader of each connection, and join messages. `entry` is
`p.conns`, `sock` the TCP connections with what each end has still to read,
`known` the address book, `sent`/`stored` the join messages in the history. A
reader that dials for a join message waits for that handshake and reads nothing
meanwhile, as in `handleJoin`. The acceptor's answer and its entry in the map are
one step (`Accept`), so the dialler never finishes before the acceptor has it in
its map; no property depends on that.

Choices of the Node module:

- A handler is one step, except for three windows: between submitting and
  flooding, between building and applying a candidate, and in the handler of a sync
  response, between the height it reads, the installer's snapshot and the
  replacement. A reader inside that handler reads nothing else (`Busy`); if its
  connection is lost it finishes the handler (`Detached`), beside the reader of the
  next connection to the same peer. The other windows inside a handler are the
  subject of Process.
- `/admin/mine` is left to Process (`MineSlot`), so what Node says of one miner's
  blocks (`OneBlockPerHash` and the theorems without crashes) is said of the slot
  loop alone: a block mined by hand for the slot that the loop is working on, on
  the same parent, can share its hash.
- Map iteration is nondeterministic: `Prunings` and `Selections` are the sets of
  results over all orders, and catch-up is any order of the stored messages.
- Nodes share one genesis. Without a state file a node makes a new key and a new
  genesis, so a node that crashes before its first save stays down.
- Which peers connect is not restricted: any two running nodes without a
  connection may. How they come to is the subject of Overlay.
- A lost connection and a crash drop what was in flight.
- A mined block enters the history without content (catch-up leaves it out); a
  received one with content and its original sender.

## Runs

| Run | Question | Result | Distinct states |
|---|---|---|---|
| `ledger_payments` | transfers, mints, NFTs, contracts, replays, forged and overdrawn ones, and the lottery tickets of every ledger | `TypeOK`, `NoOverdraft`, `NoncesConsumedOnce`, `NFTProvenance`, `NFTHandover`, `TicketBudget`, `ValidatorsKeepTickets` hold | 106,326 |
| `ledger_trades` | operator credits and debits, pools, deposits, swaps | `NoOverdraft`, `NeverDrained`, `ConstantProduct`, `SupplyConserved` hold | 8,647 |
| `ledger_stray` | swaps that name an asset outside the pool | `OnlyOperatorsIssue` is violated | |
| `blockchain` | trees of 4 blocks with payments, mints, or an asset that is issued, pooled and swapped, in all arrival orders, and the explorer's view of each | `ReplayDropsNothing`, `SupplyFromBlocks`, `OrderIndependent`, `TipOnlyImproves`, `PagesCoverChain`, `AddressAddsUp`, `FinalizedIsCommitted` hold | 56,361 |
| `node_gossip` | two miners, a payment, no faults | `TypeOK`, `OneBlockPerHash`, `Converges` hold | 99,633 |
| `node_partition` | a lost connection or a sync tick during mining | `ChainsStayValid`, `HeightsStaySecured`, `ImplementsForkChoice` hold | 24,730 |
| `node_crash` | a wallet transaction across a crash, an old state file, catch-up and an overlapping sync | `WalletTxOnce`, `ParentsFirst`, `ChainsStayValid` hold | 373,878 |
| `node_replay` | a native payment, no faults | `NativeTxOnce` is violated | |
| `node_equivocation` | a crash after mining | `SameTipSameLedger` is violated | |
| `process` | blocks, sync responses, transactions, mining and requests at once in one process | `TypeOK`, `TreeStaysValid`, `OnePendingPerNonce`, `WalletTxOnce` hold | 222,124 |
| `process_committed` | two sync responses at once | `CommittedIsReconstructed` is violated | |
| `overlay` | two nodes that dial each other, a lost connection or a crash | `TypeOK`, `EntriesAreRead`, `NewestKept`, `Reconnects` hold | 199,311 |

The four violations are disagreements between the code and its documents or
tests; `PROJECT.json` quotes the lines. In short: a swap pays out whatever asset
the transaction names; a native transaction has no nonce and is not looked up on
the chain, so a block that overtakes its transaction leads to a second payment;
block hashes leave the transactions out, so re-mining a slot after a restart
makes two blocks with one hash (`ChainsStayValid` and `TreeStaysValid` are
therefore claimed as long as no hash names two blocks); and the ledger is
replayed and assigned without a lock, so the older of two replays may stay.

What the passing runs do not claim is worth as much as what they do.
`SupplyFromBlocks` counts accounts and pools and leaves out branches with a swap
for an asset that its pool does not hold, which is the finding of `ledger_stray`.
`AddressAddsUp` is about branches of payments and mints: a mint to oneself is listed
twice and paid once, and the entries of other kinds carry amounts of other assets.
`TreeStaysValid` says that the block list remains a tree that `AddBlock` could
have built; it does not say that the list keeps every block, and neither in
Process nor in Node does it: `ReplaceBlocks` with a snapshot that is out of date
drops the blocks that were added meanwhile, and may leave a chain shorter than the
one it replaces. In `node_partition` a claim that heights never shrink is refuted by
a node that mines two blocks between the snapshot and the replacement.
`HeightsStaySecured` is what remains: a height that the best branch and the
snapshots of all installers at work have is not lost. A dropped block stays in the
history, so gossip does not bring it back (`handleBlock` refuses it); a later sync
with a longer branch does, and no document promises more.
`NoncesConsumedOnce` and `WalletTxOnce` are about transactions that the constructors
make (`TxAssumption`): a wallet's signature does not cover `Kind`
(`transaction.go:614-656`), and mint and NFT kinds are dispatched before the nonce
is tested.

Two further disagreements were met and are recorded here without a run. An
account that was paid by a transfer is not in the registry until it mines;
`LotteryTickets` (`ledger.go:135-151`) divides its balance by the registered
stake alone and gives it the whole scale or more, where `README.md:51` says that
a large balance "cannot take the entire validator probability alone"
(`TicketBudget` is about the registered accounts). And `MineOneSlot`
(`peer.go:1011`) gives a slot up when the committed balance is 0, where
`docs/node-endpoints.md:597` says that the balance "does not decide whether a
validator can mine" and `AddBlock` would take the block.

Every property of a passing run has a mutant (`\* Mutant:` in the modules): a
plausible bug in one mapped definition under which TLC finds the property
violated.

### Bounds

- `MaxBalance` (7 or 8) caps balances, reserves and EVM nonces. It is large
  enough for deposits, swaps with rounding in both directions, two rewards and
  overdrafts. Genesis holds 4 to 6 coins, the reward is 2 (10 in the code).
- The fee is the code's 30 of 10000 basis points.
- `MaxBlocks` is 4: enough for two branches of two blocks, for a tie and for
  its resolution.
- `Slot` has 2 slots, 3 in `node_partition`: forks at genesis, a fork behind a
  common block, and the whole-chain replacement all occur. In `node_crash` the
  overlapping installer is reached; in `node_partition` the other two are.
- Two nodes. A third node adds relayed floods, which the two-node runs have only
  through catch-up; it is beyond a five-minute run.
- `MaxCrashes` and `MaxCuts` are 0 or 1, and `CrashNodes` lets one of the two
  nodes crash: they differ only in the order of their hashes and in who is paid.
  `MaxCuts` also counts the ticks of the sync timer. `SaveNodeState` happens only
  while a crash may follow. `MaxAttempts` is 1 in `node_crash`: a tick tries one
  slot, which keeps the run short now that three steps of a sync handler
  interleave with it.
- Draw tables are scaled to TLC's 32-bit integers; each run says who wins.
- `HashBefore`, the order of hashes, is some total order on hashes of one
  length: the order of real hashes is arbitrary.
- `Limits` (1, 2, 5) of Explorer are page sizes below, dividing and above the
  lengths of the lists.
- Process: two readers, which are symmetric, one request at a time, `MaxJobs`
  handlers in all, four slots of which n1 wins two or three, a peer with two
  blocks that it sends one by one or in responses from every height, and a
  wallet with a transaction, its replacement and its successor.
- Overlay: two nodes that dial each other, three connections, one lost
  connection or crash. Two nodes are enough for duplicate connections, for
  a reader that dials and for every phase of the connector. With three nodes the
  mutual dials of join messages exceed a run, so meshes are not checked.

`Terminated` lets a node run stop once every node is past the last slot with
nothing to read, so deadlock is checked in the node runs. `process` and
`overlay` say `CHECK_DEADLOCK FALSE`: there a run ends when the bounded handlers
are done, or when everyone is connected.

### Fairness

`FairSpec` of Node asks that a running node keeps reading a connection that has
messages, finishes the sync handlers it has begun, and that its slot loop keeps
working until the slots end: the readers and the loop are goroutines that block on
nothing else, so weak fairness is what
the Go scheduler gives. It is written as "infinitely often disabled or
infinitely often taken", with the enabling conditions spelled out, which is what
`WF_` says and is much faster to check: `ENABLED` of these actions enumerates
candidates. Nothing is assumed of clients, of the state and sync timers or of
faults. `Converges` is claimed without faults only: after a partition from
genesis the code refuses to replace the chain (`no_non_genesis_common_ancestor`),
on purpose.

`FairSpec` of Overlay is `WF_vars` of each node's connector, its ticker
included, and of the accept loop, dials and readers of a node taken together.
Operators that start nodes, the refresh of the manifest and faults are not fair,
and faults are bounded, so `Reconnects` speaks of what happens once they stop.

## Proofs

Integers are unbounded in the model and 64-bit in the code, so the theorems about
amounts hold of the code while balances stay below the width (a hazard lists
where this bites first). The constants are restricted by the named assumptions of
the modules alone, which TLC evaluates in every run, and by the hypotheses that a
theorem states:

- `Ordered(Hash)`: the comparison of hashes is a strict total order among blocks
  of one height. The code compares strings; the model's `HashBefore` is a
  constant, and TLC evaluates the condition for the orders of the runs on hashes
  of up to two blocks (`MCOrderAssumption`).
- `IsFiniteSet(Account)`, `IsFiniteSet(Asset)`: the maps of a ledger are finite.
  Only theorems that add up a whole ledger need them.
- `TxAssumption` of Ledger: the transactions are such as the constructors make. The
  theorems about nonces (`NoncesConsumed`, both `WalletAppliedOnce`) rest on it.
- `MaxCrashes = 0`: no node crashes. It is needed, not convenient: after a crash
  the same slot is mined twice and one hash names two blocks, the finding of
  `node_equivocation`.
- `OneEach(U)`, `Vouched(U)` (one process, `TreeKeptValid` only): what peers send
  is a constant there; see below.

### Ledger (`LedgerProofs`, `LedgerSpecProofs`)

| Theorem | Statement |
|---|---|
| `LedgerNeverOverdrawn`, `LedgerWellTyped` | `Spec => [](TypeOK /\ NoOverdraft)` |
| `PoolsNeverDrained`, `ProductNeverDecreases` | `Spec => NeverDrained`, `Spec => ConstantProduct` |
| `NoncesConsumed` | `Spec => []NoncesConsumedOnce` |
| `TokensTraced`, `TokensHandedOver` | `Spec => []NFTProvenance`, `Spec => NFTHandover` |

The inductive invariant of the first four is `Sound`: the type, solvency, and
`PoolsNamed` (a pool is stored under the pair of two different assets it trades).
The last part is needed because `amm_add_liquidity` checks both debits before it
makes either: if both sides were one asset, two debits that pass alone could
overdraw together. Each kind of transaction has a lemma that it preserves `Sound`
and keeps every pool (`PoolStep`); `StepSound` combines them. The pool lemmas rest
on `QuoteKeepsProduct`: with floor division, reserves `x, y`, payment `a` and
amount after fee `f <= a`, the quote `(y*f) \div (x+f)` leaves
`(x+a) * (y-out) >= x*y`.

The others need `Registry` as well: nonces and tokens agree with the recorded
history. An identifier names one transaction, so storing a transaction displaces
no other and what a token or a nonce refers to stays recorded
(`RecordedHistory`); an accepted wallet transaction matched its sender's nonce,
whichever of the three kinds it is (`AcceptedNonce`).

### Supply and tickets (`SumProofs`, `LedgerSpecProofs`)

| Theorem | Statement |
|---|---|
| `TradesConserveSupply` | finite accounts and assets: `Spec => SupplyConserved` |
| `TicketsWithinBudget` | finite accounts: `Spec => []TicketBudget` |
| `ValidatorsStayEligible` | finite accounts: `Spec => []ValidatorsKeepTickets` |

The properties add up with `MapThenSumSet`, a fold that chooses its own order.
`SumProofs` shows that the function it recurs with exists (`AddsExists`), that any
element may be taken first (`AddsInAnyOrder`), and from it what the theorems use:
one changed value changes the sum by as much (`SumMoves`), parts, common factors,
and rounded shares (`SumRounded`). Induction is over the size of a set and is
stated for a set of numbers (`Induction`) instead of a predicate, which makes it
usable by the provers.

A transfer moves an amount between two accounts; a deposit and a swap move it
between an account and a pool, and `PoolsNamed` tells that a swap named by its
pair pays out the pool's other asset. Without that condition the claim is
false: that is the finding of `ledger_stray`. For the tickets, the share of each
funded validator, less the ticket of rounding, times the whole stake is at most
its balance times 97% of the scale; summed over the funded validators, whose
balances are part of the stake, the stake cancels.

### Block tree (`BlockTreeProofs`, `BlockchainProofs`)

| Theorem | Statement |
|---|---|
| `TipNeverWorsens` | `Ordered(Hash)`: `Spec => TipOnlyImproves` |
| `OrderDoesNotMatter` | `Spec => []OrderIndependent` |
| `ReplayKeepsEverything` | `Spec => []ReplayDropsNothing` |
| `SupplyComesFromBlocks` | `Ordered(Hash)`, finite accounts and assets: `Spec => []SupplyFromBlocks` |

`BlockTreeProofs` characterises what `CalculateDepths` keeps (a block whose
ancestors all stand before it), which leaf is best, and what the branch of a leaf
is, for any list of blocks. The order of arrival then drops out because these are
conditions on the set of blocks.

Replay is a fold over blocks of folds over transactions. The lemmas unfold it one
element at a time (`Iterates`, `Way`), so that facts about the ledger before a
transaction can be compared with facts about the ledger after. `ReplayDropsNothing`
needs the invariant `Passed` (every block passed `AddBlock`'s test on the blocks
before it) and a simulation: `AddBlock` tests the transactions on a ledger without
the miner in the registry, and replay enters the miner first. `Ahead(l, m)` says
that `m` differs from `l` by a larger registry only; the larger one accepts
whatever the smaller accepts, and both stay related (`AheadAccepts`, `AheadApply`).

The supply follows by induction over the transactions of a block and the blocks of
the branch (`Replays`): what accounts and pools hold after `k` blocks is what genesis
and those blocks issued. It needs that replay drops nothing (a dropped mint would be
counted and not paid), that a pool trades two different assets, and the lemmas of
`LedgerProofs` that every kind of transaction moves the supply of an asset by what it
issues.

### Explorer (`BlockchainProofs`)

| Theorem | Statement |
|---|---|
| `EveryBlockListed` | `Ordered(Hash)`: `Spec => []PagesCoverChain` |
| `AddressPagesAddUp` | `Ordered(Hash)`: `Spec => []AddressAddsUp` |
| `FinalityAgrees` | `Ordered(Hash)`, finite accounts and assets: `Spec => []FinalizedIsCommitted` |

The walk over the block pages is a recursive function of the cursor; it exists
because every cursor is smaller than the one before, and by induction over the
cursor it lists the blocks down to genesis. A cursor is a number and the end is
`None`, which the assumption of Explorer keeps apart from the numbers.

For `FinalityAgrees`, the branch without its last blocks is the front of the best
branch, `Kept(best)` says that every prefix of the best branch was accepted in full,
and the index lists the transactions of the blocks up to a height exactly when the
replay up to it records them. An identifier names one transaction, so the entry that
the index finds by it holds that transaction.

`AddressPagesAddUp` takes four steps. The entries of an address differ in block and
position unless they are equal, so `Newer` orders them and sorting is a permutation
(`Dated`, `Reorders`). Each page is the piece of the sorted list from its offset on,
and the walk puts the pieces together to the whole list (`Turns`, `Pieces`). A sum
does not depend on the order of its terms, so the walk is worth what the index lists
for the address. A payment to oneself is listed twice and counts nothing. And by
induction over transactions and blocks (`Explains`) the index up to a block, with the
genesis coins and the rewards, is worth the balance after the replay of that block.

### Network (`NodeProofs`)

| Theorem | Statement |
|---|---|
| `NetworkWellTyped`, `ParentsStandFirst` | `Ordered(Hash)`: `Spec => []TypeOK`, `Spec => []ParentsFirst` |
| `SecuredHeightsKept` | `Ordered(Hash)`: `Spec => HeightsStaySecured` |
| `WalletAppliedOnce` | `Ordered(Hash)`: `Spec => []WalletTxOnce` |
| `MinersKeepToOneBlock` | `Ordered(Hash)`, no crashes: `Spec => []OneBlockPerHash` |
| `SyncInstallsValidBlocks` | `Ordered(Hash)`, no crashes: `Spec => []ChainsStayValid` |
| `NetworkImplementsForkChoice` | `Ordered(Hash)`, no crashes: `Spec => ImplementsForkChoice` |

They hold for any number of nodes, slots, transactions and lost connections, the
first four with any number of crashes. `Held(W)` is the type invariant over a set
`W` of blocks: the chains, messages, histories and state files hold blocks of `W`
only, in lists with parents before children; so do the responses and replacements
that readers carry, and each replacement is a branch that is longer than the
snapshot it was built on. With `W` all signed blocks it gives the first four
theorems: for `SecuredHeightsKept`, a block only adds to the tree, and a replacement
is longer than its own snapshot, which was as long as the secured height, whatever
the chain has become since. `WalletTxOnce` needs no more than the shape of the list,
because it is a fact about replay: a nonce never moves back, so the second copy of
a wallet transaction on a branch meets a nonce that has moved on, and is dropped
(`WalletApplied`). Native transactions have no nonce and no such theorem; that is
the finding of `node_replay`.

The last three need history. `Honest(W)` says of the blocks ever applied that a
miner made one for each slot, below its current slot, that each passed `AddBlock`'s
test on a list of earlier ones, and that their hashes are the published ones; a
candidate belongs to its miner's current slot. The invariant is `History`, that
some such `W` exists. The blocks that nodes hold now would not do: sync drops side
branches that messages still carry. The refinement then has one case per action:
`ApplyBlock` maps to `Publish`, `HandleBlock` to `Learn` or to a stutter,
`BuildReplacement` to `Decide` or to a stutter, `ReplaceBlocks` to `Move`,
everything else to a stutter.

### One process (`ProcessProofs`)

| Theorem | Statement |
|---|---|
| `OnePendingForEachNonce` | `Spec => []OnePendingPerNonce` |
| `ProcessWellTyped` | `Ordered(Hash)`: `Spec => []TypeOK` |
| `WalletAppliedOnce` | `Ordered(Hash)`: `Spec => []WalletTxOnce` |
| `TreeKeptValid` | `Ordered(Hash)`, `OneEach(U)`, `Vouched(U)`: `Spec /\ [](the blocks at hand are in U) => []TreeStaysValid` |

`OnePendingPerNonce` is inductive as it stands: every goroutine changes the mempool
by `Entered` or by removal, in one step under its lock. The type needs `TaskOK`, which
ties what a handler holds in its local variables to the step it is at.

`TreeStaysValid` is not inductive, and not true of all constants. The installers
test nothing, so a peer could send blocks that no `AddBlock` would take: `Vouched(U)`
says that the blocks of every reply were taken by some node, on blocks of `U`, as
honest nodes' are (`SyncInstallsValidBlocks`, and `MCVouched` in the run). And of two
blocks with one hash an installer keeps one, with children that were tested on the
other: `OneEach(U)` says that a hash names one block of `U`, and the theorem is about
the behaviours whose goroutines handle blocks of `U` only. `U` is any set, of any
size; a behaviour is excluded only if two blocks of the node or its peers share a
hash. The property itself excludes the states whose list holds two such blocks, which
is enough within the bounds of the run. The invariant `Guarded(U)` says that the list holds taken blocks, parents first (`SoundList`), and so does every replacement
that a reader still carries, however old the snapshot it was built on. A block that
was taken once is taken by every sound list that holds its parent, because the branch
below it is the same (`TakenAgain`); that is what the stale candidate, the stale
replacement and the block appended twice have in common.

### Connections (`OverlayProofs`)

| Theorem | Statement |
|---|---|
| `OverlayWellTyped` | `Spec => []TypeOK` |
| `MapIsRead`, `NewestConnectionKept` | `Spec => []EntriesAreRead`, `Spec => NewestKept` |

For any finite number of nodes, connections and faults. The invariant `OverlayInv`
adds to the types that each connection has two different ends, that an entry of
the map is an open end of a connection to that peer (`Fit`), and that a node never
dials itself.

### Only model-checked

- `Converges` and `Reconnects`: liveness under fairness is out of the prover's
  reach.
- `ChainsStayValid` across a crash (`node_crash`): the theorem is for networks
  without crashes. After a crash the property speaks only of lists whose hashes name
  one block, and no such condition on the present lists is inductive.
- The runs that expect a violation: there is nothing to prove.

Every invariant and every action property of the passing runs has a theorem.

## Not modelled

- Cryptography and encodings: a signature is valid or not, a hash is the path it
  stands for. go-ethereum's execution: a contract transaction succeeds or fails
  by a constant.
- The dashboard, the catalogue of endpoints, the wallet-compatible RPC views,
  request parsing, authorization, configuration and logging: no state of their
  own, and what they change enters through the actions of Process.
- Deployment scripts, the ERC-20 contract, the demo of the course hand-in and
  its block-less flooding mode, which no running node uses.
- Adoption of a remote genesis by a fresh node: the block tree of every module
  starts from one genesis.
- The monthly payout: a withdrawal on a calendar condition.
- Bounded socket buffers (who waits for whom when writes block), and meshes of
  three and more nodes in Overlay.
- 64-bit overflow: TLC's integers are narrower than the code's.

## Plan

1. Genesis adoption: fresh nodes with their own genesis, `canAdoptRemoteGenesis`
   and `adoptRemoteChain`; two fresh nodes that adopt each other.
2. The monthly payout in the slot loop and in the state file; at most one payout
   per interval across a crash.
