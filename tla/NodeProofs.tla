------------------------------ MODULE NodeProofs ------------------------------
(***************************************************************************)
(* Proofs about the network of nodes, for every number of nodes, slots,    *)
(* transactions, crashes and lost connections.                             *)
(***************************************************************************)
EXTENDS Node, BlockTreeProofs

-----------------------------------------------------------------------------
(* The types of the network, over a set W of blocks. *)

Lists(W) == {bs \in Seq(W) : Rooted(bs)}

Reply(W) == [height: Nat, whole: BOOLEAN, blocks: Seq(W)]

MessageOver(W) ==
  [type: {"tx"}, from: Node, tx: Tx] \cup [type: {"block"}, from: Node, block: W]
    \cup [type: {"request"}, from: Node, fromHeight: Nat]
    \cup [type: {"response"}, from: Node, reply: Reply(W)]

Queues(W) == [Node -> [Node -> Seq(MessageOver(W))]]

File(W) == [blocks: Lists(W), slot: Nat]

(***************************************************************************)
(* Everything but the blocks.  An attempt is left while a candidate waits, *)
(* or the failed candidate would be counted below zero.                    *)
(***************************************************************************)
Books ==
  /\ up \in [Node -> BOOLEAN] /\ link \in SUBSET SUBSET Node
  /\ mempool \in [Node -> SUBSET Tx] /\ \A n \in Node : IsFiniteSet(mempool[n])
  /\ seenTx \in [Node -> SUBSET TxId] /\ seenBlock \in [Node -> SUBSET Hash]
  /\ flooding \in [Node -> Tx \cup {None}]
  /\ slot \in [Node -> Nat] /\ attempts \in [Node -> Nat]
  /\ mining \in [Node -> Signed \cup {None}]
  /\ \A n \in Node : mining[n] # None => attempts[n] > 0
  /\ crashes \in Nat /\ cuts \in Nat

(***************************************************************************)
(* The sync responses at work.  A replacement is longer than the branch    *)
(* its installer saw, and ends in a block of W.                            *)
(***************************************************************************)
Answer(W) ==
  {k \in [peer: Node, live: BOOLEAN, how: {"full", "suffix", "overlap"}, reply: Reply(W)] :
     k.reply.blocks # << >>}

Pending(W) ==
  {k \in [peer: Node, live: BOOLEAN, local: Seq(W), blocks: Lists(W)] :
     /\ BestHeight(k.blocks) > Len(k.local)
     /\ \E b \in W : GetBlockHash(b) = BestLeafHash(k.blocks)}

Syncs(W) == responses \in [Node -> Seq(Answer(W))] /\ installing \in [Node -> Seq(Pending(W))]

(***************************************************************************)
(* The blocks that nodes store, send, install, remember and save are in W, *)
(* and the lists they keep hold parents before children.                   *)
(***************************************************************************)
Store(W) ==
  /\ chain \in [Node -> Lists(W)]
  /\ net \in Queues(W)
  /\ stored \in [Node -> SUBSET MessageOver(W)] /\ \A n \in Node : IsFiniteSet(stored[n])
  /\ disk \in [Node -> File(W) \cup {None}]
  /\ Syncs(W)

Held(W) == Books /\ Store(W)

-----------------------------------------------------------------------------
(* Messages and queues. *)

(***************************************************************************)
(* The messages that nodes build are messages.                             *)
(***************************************************************************)
LEMMA Messages ==
  ASSUME NEW W, NEW n \in Node
  PROVE  /\ \A t \in Tx : TxMsg(n, t) \in MessageOver(W)
         /\ \A b \in W : BlockMsg(n, b) \in MessageOver(W)
         /\ \A h \in Nat : SyncRequest(n, h) \in MessageOver(W)
         /\ \A r \in Reply(W) : SyncResponse(n, r) \in MessageOver(W)
BY DEF TxMsg, BlockMsg, SyncRequest, SyncResponse, MessageOver

(***************************************************************************)
(* What a message of each type carries.                                    *)
(***************************************************************************)
LEMMA MessageFields ==
  ASSUME NEW W, NEW msg \in MessageOver(W)
  PROVE  /\ msg.from \in Node
         /\ msg.type = "tx" => msg.tx \in Tx
         /\ msg.type = "block" => msg.block \in W
         /\ msg.type = "request" => msg.fromHeight \in Nat
         /\ msg.type = "response" => msg.reply \in Reply(W)
BY DEF MessageOver

(***************************************************************************)
(* Flooding, sending, reading and losing messages keep the queues typed.   *)
(***************************************************************************)
LEMMA QueuesKept ==
  ASSUME NEW W, NEW q \in Queues(W), NEW n \in Node
  PROVE  /\ \A msg \in MessageOver(W) : \A except : FloodNetwork(q, n, msg, except) \in Queues(W)
         /\ \A msg \in MessageOver(W), m \in Node : Send(q, n, m, msg) \in Queues(W)
         /\ \A cut : Cut(q, cut) \in Queues(W)
BY DEF FloodNetwork, Send, Cut, Queues, Neighbours
(***************************************************************************)
(* Reading a message.                                                      *)
(***************************************************************************)
LEMMA MessageRead ==
  ASSUME NEW W, net \in Queues(W), NEW m \in Node, NEW n \in Node, NEW type, Arrived(m, n, type)
  PROVE  /\ Consumed(m, n) \in Queues(W)
         /\ Head(net[m][n]) \in MessageOver(W) /\ Head(net[m][n]).type = type
<1> DEFINE q == net[m][n]
<1>1. q \in Seq(MessageOver(W)) /\ q # << >> /\ Head(q).type = type BY DEF Queues, Arrived
<1> HIDE DEF q
<1>2. Head(q) \in MessageOver(W) /\ Tail(q) \in Seq(MessageOver(W)) BY <1>1
<1>3. Consumed(m, n) = [net EXCEPT ![m] = [net[m] EXCEPT ![n] = Tail(q)]] BY DEF Consumed, q, Queues
<1>4. net[m] \in [Node -> Seq(MessageOver(W))] BY DEF Queues
<1>5. [net[m] EXCEPT ![n] = Tail(q)] \in [Node -> Seq(MessageOver(W))] BY <1>2, <1>4
<1>6. Consumed(m, n) \in Queues(W) BY <1>3, <1>5 DEF Queues
<1> QED BY <1>1, <1>2, <1>6 DEF q

-----------------------------------------------------------------------------
(* What readers have at work. *)

(***************************************************************************)
(* Removing one element of a list.                                         *)
(***************************************************************************)
LEMMA Removed ==
  ASSUME NEW S, NEW s \in Seq(S), NEW i \in DOMAIN s
  PROVE  /\ RemoveAt(s, i) \in Seq(S)
         /\ Range(RemoveAt(s, i)) \subseteq Range(s)
         /\ Range(s) \subseteq Range(RemoveAt(s, i)) \cup {s[i]}
<1> DEFINE a == SubSeq(s, 1, i - 1)
           c == SubSeq(s, i + 1, Len(s))
<1>1. Len(s) \in Nat /\ i \in 1 .. Len(s) OBVIOUS
<1>2. a \in Seq(S) /\ Len(a) = i - 1 /\ \A j \in 1 .. Len(a) : a[j] = s[j] BY <1>1
<1>3. c \in Seq(S) /\ Len(c) = Len(s) - i /\ \A j \in 1 .. Len(c) : c[j] = s[i + j] BY <1>1
<1>4. RemoveAt(s, i) = a \o c BY DEF RemoveAt
<1> HIDE DEF a, c
<1>5. a \o c \in Seq(S) /\ Len(a \o c) = Len(s) - 1 BY <1>1, <1>2, <1>3
<1>6. ASSUME NEW j \in 1 .. Len(a \o c)
      PROVE  (a \o c)[j] = IF j < i THEN s[j] ELSE s[j + 1]
  <2>1. CASE j < i
    <3>1. j \in 1 .. Len(a) BY <1>2, <2>1
    <3> QED BY <1>2, <1>3, <2>1, <3>1
  <2>2. CASE ~(j < i)
    <3>1. j - Len(a) \in 1 .. Len(c) /\ i + (j - Len(a)) = j + 1 /\ j > Len(a)
      BY <1>1, <1>2, <1>3, <1>5, <2>2
    <3>2. (a \o c)[j] = c[j - Len(a)]
      <4>1. a \in Seq(S) /\ c \in Seq(S) BY <1>2, <1>3
      <4>2. Len(a \o c) = Len(a) + Len(c) BY <4>1, ConcatProperties
      <4>3. Len(a) = i - 1 /\ Len(c) = Len(s) - i BY <1>2, <1>3
      <4>4. j \in 1 .. (Len(a) + Len(c)) /\ ~(j <= Len(a)) BY <1>1, <2>2, <4>2, <4>3
      <4> QED BY <4>1, <4>4, ConcatProperties
    <3>3. c[j - Len(a)] = s[i + (j - Len(a))] BY <1>3, <3>1
    <3> QED BY <2>2, <3>1, <3>2, <3>3
  <2> QED BY <2>1, <2>2
<1>7. PICK r : r = a \o c OBVIOUS
<1>8. /\ DOMAIN r = 1 .. Len(s) - 1 /\ DOMAIN s = 1 .. Len(s)
      /\ \A j \in DOMAIN r : r[j] = IF j < i THEN s[j] ELSE s[j + 1]
  BY <1>5, <1>6, <1>7
<1>9. Range(r) \subseteq Range(s)
  <2>1. \A j \in DOMAIN r : j \in DOMAIN s /\ j + 1 \in DOMAIN s BY <1>1, <1>8
  <2> QED BY <1>8, <2>1 DEF Range
<1>10. ASSUME NEW j \in DOMAIN s, j # i PROVE s[j] \in Range(r)
  <2>1. CASE j < i
    <3>1. j \in DOMAIN r BY <1>1, <1>8, <2>1
    <3> QED BY <1>8, <2>1, <3>1 DEF Range
  <2>2. CASE j > i
    <3>1. j - 1 \in DOMAIN r /\ ~(j - 1 < i) /\ (j - 1) + 1 = j BY <1>1, <1>8, <2>2
    <3> QED BY <1>8, <3>1 DEF Range
  <2>3. j < i \/ j > i BY <1>1, <1>8, <1>10
  <2> QED BY <2>1, <2>2, <2>3
<1>11. Range(s) \subseteq Range(r) \cup {s[i]} BY <1>10 DEF Range
<1> QED BY <1>4, <1>5, <1>7, <1>9, <1>11

(***************************************************************************)
(* Adding one.                                                             *)
(***************************************************************************)
LEMMA Appended ==
  ASSUME NEW S, NEW s \in Seq(S), NEW e \in S
  PROVE  Append(s, e) \in Seq(S) /\ Range(Append(s, e)) = Range(s) \cup {e}
<1>1. PICK k \in Nat : k = Len(s) OBVIOUS
<1>2. PICK r : r = Append(s, e) OBVIOUS
<1>3. /\ r \in Seq(S) /\ DOMAIN s = 1 .. k /\ DOMAIN r = 1 .. (k + 1)
      /\ \A j \in 1 .. k : r[j] = s[j]
      /\ r[k + 1] = e
  BY <1>1, <1>2
<1>4. k + 1 \in 1 .. (k + 1) /\ \A j \in 1 .. (k + 1) : j \in 1 .. k \/ j = k + 1
  BY <1>1
<1>5. \A j \in 1 .. k : j \in 1 .. (k + 1) BY <1>1
<1>6. \A x \in Range(r) : x \in Range(s) \cup {e} BY <1>3, <1>4 DEF Range
<1>7. \A x \in Range(s) : x \in Range(r) BY <1>3, <1>5 DEF Range
<1>8. e \in Range(r) BY <1>3, <1>4 DEF Range
<1>9. Range(r) = Range(s) \cup {e} BY <1>6, <1>7, <1>8
<1> QED BY <1>2, <1>3, <1>9

(***************************************************************************)
(* An entry whose connection is lost, or not.                              *)
(***************************************************************************)
Marked(k, x) == [k EXCEPT !.live = x]

(***************************************************************************)
(* A lost connection marks the readers that work for it, and no more.      *)
(***************************************************************************)
LEMMA DetachedEntry ==
  ASSUME NEW q, NEW cut, NEW n \in Node
  PROVE  /\ DOMAIN Detached(q, cut)[n] = DOMAIN q[n]
         /\ \A i \in DOMAIN q[n] : \E x \in BOOLEAN :
              Detached(q, cut)[n][i] = Marked(q[n][i], x)
<1> DEFINE d == Detached(q, cut)[n]
<1>1. d = [i \in DOMAIN q[n] |-> [q[n][i] EXCEPT !.live = @ /\ {n, q[n][i].peer} \notin cut]]
  BY DEF Detached
<1>2. ASSUME NEW i \in DOMAIN q[n] PROVE \E x \in BOOLEAN : d[i] = Marked(q[n][i], x)
  <2>1. PICK x \in BOOLEAN : x = (q[n][i].live /\ {n, q[n][i].peer} \notin cut) OBVIOUS
  <2>2. d[i] = Marked(q[n][i], x) BY <1>1, <2>1 DEF Marked
  <2> QED BY <2>2
<1>3. DOMAIN d = DOMAIN q[n] BY <1>1
<1> QED BY <1>2, <1>3

(***************************************************************************)
(* Lists of entries stay lists of entries.                                 *)
(***************************************************************************)
LEMMA Detaching ==
  ASSUME NEW S, NEW q \in [Node -> Seq(S)], NEW cut,
         \A k \in S : \A x \in BOOLEAN : Marked(k, x) \in S
  PROVE  Detached(q, cut) \in [Node -> Seq(S)]
<1>1. ASSUME NEW n \in Node PROVE Detached(q, cut)[n] \in Seq(S)
  <2> DEFINE d == Detached(q, cut)[n]
  <2>1. \A i \in DOMAIN q[n] : \E x \in BOOLEAN : d[i] = Marked(q[n][i], x) BY DetachedEntry
  <2>2. d = [i \in DOMAIN q[n] |-> d[i]] BY DEF Detached
  <2> HIDE DEF d
  <2>3. q[n] \in Seq(S) OBVIOUS
  <2>4. PICK k \in Nat : DOMAIN q[n] = 1 .. k /\ k = Len(q[n]) BY <2>3
  <2>5. ASSUME NEW i \in 1 .. k PROVE d[i] \in S
    <3>1. q[n][i] \in S BY <2>3, <2>4
    <3>2. PICK x \in BOOLEAN : d[i] = Marked(q[n][i], x) BY <2>1, <2>4
    <3>3. Marked(q[n][i], x) \in S BY <3>1
    <3> QED BY <3>2, <3>3
  <2>6. d = [i \in 1 .. k |-> d[i]] BY <2>2, <2>4
  <2>7. d \in Seq(S) BY <2>4, <2>5, <2>6
  <2> QED BY <2>7 DEF d
<1>2. Detached(q, cut) = [n \in Node |-> Detached(q, cut)[n]] BY DEF Detached
<1> QED BY <1>1, <1>2

-----------------------------------------------------------------------------
(* What the parts of the actions compute. *)

(***************************************************************************)
(* Pruning keeps a part of the mempool.                                    *)
(***************************************************************************)
LEMMA Pruned ==
  ASSUME NEW l, NEW pool, IsFiniteSet(pool), NEW kept \in Prunings(l, pool)
  PROVE  kept \in SUBSET pool /\ IsFiniteSet(kept)
<1>1. PICK s \in SetToAllKPermutations(pool) : kept = Range(s) BY DEF Prunings
<1>2. PICK sub \in SUBSET pool : s \in SetToSeqs(sub) BY DEF SetToAllKPermutations
<1>3. s \in [1 .. Cardinality(sub) -> sub] BY <1>2 DEF SetToSeqs
<1>4. kept \subseteq pool BY <1>1, <1>3 DEF Range
<1> QED BY <1>4, FS_Subset

(***************************************************************************)
(* Listing a finite set in any order gives a list of its members.          *)
(***************************************************************************)
LEMMA Listed ==
  ASSUME NEW S, IsFiniteSet(S), NEW s \in SetToSeqs(S)
  PROVE  s \in Seq(S)
<1>1. Cardinality(S) \in Nat BY FS_CardinalityType
<1>2. s \in [1 .. Cardinality(S) -> S] BY DEF SetToSeqs
<1> QED BY <1>1, <1>2

(***************************************************************************)
(* A miner selects a list of pending transactions.                         *)
(***************************************************************************)
LEMMA Selected ==
  ASSUME NEW l, NEW pool, IsFiniteSet(pool), NEW txs \in Selections(l, pool)
  PROVE  txs \in Seq(pool)
<1>1. txs \in SetToAllKPermutations(pool) BY DEF Selections
<1>2. PICK sub \in SUBSET pool : txs \in SetToSeqs(sub) BY <1>1 DEF SetToAllKPermutations
<1>3. txs \in Seq(sub) BY <1>2, Listed, FS_Subset
<1> QED BY <1>3

(***************************************************************************)
(* A transaction that enters leaves the mempool finite; so does the        *)
(* removal of the included ones.                                           *)
(***************************************************************************)
LEMMA EnteredFinite ==
  ASSUME NEW pool, pool \in SUBSET Tx, IsFiniteSet(pool), NEW t \in Tx
  PROVE  Entered(pool, t) \in SUBSET Tx /\ IsFiniteSet(Entered(pool, t))
<1>1. IsFiniteSet(pool \ Replaced(pool, t)) BY FS_Subset
<1>2. IsFiniteSet((pool \ Replaced(pool, t)) \cup {t}) BY <1>1, FS_AddElement
<1> QED BY <1>2 DEF Entered

(***************************************************************************)
(* The tip of a list of blocks.                                            *)
(***************************************************************************)
LEMMA TipTyped ==
  ASSUME Ordered(Hash), NEW W \in SUBSET Block, NEW bs \in Seq(W)
  PROVE  BestLeafHash(bs) \in Hash /\ BestHeight(bs) \in Nat
<1>1. bs \in Seq(Block) OBVIOUS
<1>2. BestLeafHash(bs) \in Hash BY <1>1, BestLeaf
<1> QED BY <1>2 DEF BestHeight, Hash

(***************************************************************************)
(* A sync reply carries blocks of the node that sends it.                  *)
(***************************************************************************)
LEMMA ReplyTyped ==
  ASSUME Ordered(Hash), NEW W \in SUBSET Block, NEW bs \in Seq(W), NEW from \in Nat
  PROVE  SyncReply(bs, from) \in Reply(W)
<1> DEFINE best == CanonicalBlocks(bs, 0)
           S == {1, from}
<1>1. best \in Seq(W) /\ Len(best) \in Nat BY CanonicalPath
<1>2. Max(S) \in S /\ \A y \in S : y <= Max(S)
  <2>1. S \in SUBSET Nat /\ S # {} /\ from + 1 \in Nat /\ \A x \in S : x <= from + 1 OBVIOUS
  <2> HIDE DEF S
  <2> QED BY <2>1, MaxOfBounded
<1>3. Max(S) \in Nat /\ Max(S) >= 1 BY <1>2
<1>4. SubSeq(best, Max(S), Len(best)) \in Seq(W)
  <2> HIDE DEF S, best
  <2> QED BY <1>1, <1>3
<1>5. SyncReply(bs, from) = [height |-> Len(best), whole |-> from = 0,
                             blocks |-> SubSeq(best, Max(S), Len(best))]
  BY DEF SyncReply
<1> HIDE DEF S, best
<1>6. (from = 0) \in BOOLEAN OBVIOUS
<1> QED BY <1>1, <1>4, <1>5, <1>6 DEF Reply

(***************************************************************************)
(* The attempts of a tick.                                                 *)
(***************************************************************************)
LEMMA AttemptsTyped ==
  ASSUME NEW depth \in Nat, NEW nodes \in Nat \ {0}
  PROVE  MineAttemptsForNetwork(depth, nodes) \in Nat
<1> DEFINE work == BaseAttempts + depth * AttemptsPerTx + nodes - 1
<1>1. BaseAttempts \in Nat /\ MaxAttempts \in Nat /\ AttemptsPerTx \in Nat BY NodeAssumption
<1>2. depth * AttemptsPerTx \in Nat BY <1>1
<1>3. work \in Nat BY <1>1, <1>2
<1>4. MineAttemptsForNetwork(depth, nodes) =
        IF work \div nodes > MaxAttempts THEN MaxAttempts
        ELSE IF work \div nodes < BaseAttempts THEN BaseAttempts ELSE work \div nodes
  BY DEF MineAttemptsForNetwork
<1> HIDE DEF work
<1>5. work \div nodes \in Nat BY <1>3
<1> QED BY <1>1, <1>4, <1>5
-----------------------------------------------------------------------------
(* One lemma per action. *)

(***************************************************************************)
(* An entry of a list of answers or of replacements.                       *)
(***************************************************************************)
LEMMA Listing ==
  ASSUME NEW S, NEW s \in Seq(S), NEW k \in Range(s) PROVE k \in S
BY DEF Range

(***************************************************************************)
(* A step that changes no chain and no installer.                          *)
(***************************************************************************)
LEMMA SameHeights ==
  ASSUME UNCHANGED <<chain, installing>> PROVE SecuredStep
<1> SUFFICES ASSUME NEW n \in Node, NEW h, Secured(n, h) PROVE Secured(n, h)' BY DEF SecuredStep
<1> QED BY DEF Secured

(***************************************************************************)
(* What other steps do: the height falls at most to just above the         *)
(* snapshot of an installer, and a new snapshot is as high as the chain.   *)
(***************************************************************************)
Rises(n) ==
  \/ BestHeight(chain'[n]) >= BestHeight(chain[n])
  \/ \E k \in Range(installing[n]) : BestHeight(chain'[n]) > Len(k.local)

Watches(n) ==
  \A k \in Range(installing'[n]) :
    \/ Len(k.local) >= BestHeight(chain[n])
    \/ \E j \in Range(installing[n]) : Len(k.local) = Len(j.local)

(***************************************************************************)
(* Such a step loses no height that the chain and all snapshots have.      *)
(***************************************************************************)
LEMMA SecuredKept ==
  ASSUME Ordered(Hash), NEW W \in SUBSET Signed, Held(W), Held(W)',
         \A n \in Node : up[n] /\ up'[n] => Rises(n) /\ Watches(n)
  PROVE  SecuredStep
<1>1. W \in SUBSET Block BY DEF Signed
<1>2. ASSUME NEW n \in Node
      PROVE  BestHeight(chain[n]) \in Nat /\ \A k \in Range(installing[n]) : Len(k.local) \in Nat
  <2>1. chain[n] \in Seq(W) BY DEF Held, Store, Lists
  <2>2. BestHeight(chain[n]) \in Nat BY <1>1, <2>1, TipTyped
  <2>3. installing[n] \in Seq(Pending(W)) BY DEF Held, Store, Syncs
  <2>4. \A k \in Range(installing[n]) : k \in Pending(W) BY <2>3, Listing
  <2>5. \A k \in Pending(W) : Len(k.local) \in Nat BY DEF Pending
  <2> QED BY <2>2, <2>4, <2>5
<1>3. ASSUME NEW n \in Node
      PROVE  BestHeight(chain'[n]) \in Nat /\ \A k \in Range(installing'[n]) : Len(k.local) \in Nat
  <2>1. chain'[n] \in Seq(W) BY DEF Held, Store, Lists
  <2>2. BestHeight(chain'[n]) \in Nat BY <1>1, <2>1, TipTyped
  <2>3. installing'[n] \in Seq(Pending(W)) BY DEF Held, Store, Syncs
  <2>4. \A k \in Range(installing'[n]) : k \in Pending(W) BY <2>3, Listing
  <2>5. \A k \in Pending(W) : Len(k.local) \in Nat BY DEF Pending
  <2> QED BY <2>2, <2>4, <2>5
<1>4. ASSUME NEW n \in Node, up[n] /\ up'[n], NEW h \in 0 .. BestHeight(chain[n]), Secured(n, h)
      PROVE  Secured(n, h)'
  <2>1. Rises(n) /\ Watches(n) /\ h \in Nat BY <1>2, <1>4
  <2>2. BestHeight(chain[n]) >= h /\ \A k \in Range(installing[n]) : Len(k.local) >= h
    BY <1>4 DEF Secured
  <2>3. BestHeight(chain'[n]) >= h BY <1>2, <1>3, <2>1, <2>2 DEF Rises
  <2>4. \A k \in Range(installing'[n]) : Len(k.local) >= h BY <1>2, <1>3, <2>1, <2>2 DEF Watches
  <2> QED BY <2>3, <2>4 DEF Secured
<1> QED BY <1>4 DEF SecuredStep

(***************************************************************************)
(* A step that only sends and reads messages.                              *)
(***************************************************************************)
LEMMA NetStep ==
  ASSUME NEW W, Held(W), net' \in Queues(W), UNCHANGED <<chain, stored, disk, syncing>>
  PROVE  Store(W)' /\ SecuredStep
<1>1. Syncs(W)' BY DEF Held, Store, Syncs, syncing
<1>2. Store(W)' BY <1>1 DEF Held, Store
<1> QED BY <1>2, SameHeights DEF syncing

(***************************************************************************)
(* A transaction enters the mempool and the history.                       *)
(***************************************************************************)
LEMMA EnterStep ==
  ASSUME Ordered(Hash), NEW W \in SUBSET Signed, Held(W), NEW n \in Node,
         NEW msg \in MessageOver(W), msg.tx \in Tx, EnterMempool(n, msg),
         net' \in Queues(W), flooding' \in [Node -> Tx \cup {None}],
         UNCHANGED <<up, slot, attempts, mining, syncing, disk, link, counters>>
  PROVE  Held(W)' /\ SecuredStep
<1>1. msg.tx.id \in TxId BY TxAssumption DEF TxRecord
<1>2. mempool[n] \in SUBSET Tx /\ IsFiniteSet(mempool[n]) BY DEF Held, Books
<1>3. Entered(mempool[n], msg.tx) \in SUBSET Tx /\ IsFiniteSet(Entered(mempool[n], msg.tx))
  BY <1>2, EnteredFinite
<1>4. /\ mempool' = [mempool EXCEPT ![n] = Entered(mempool[n], msg.tx)]
      /\ seenTx' = [seenTx EXCEPT ![n] = seenTx[n] \cup {msg.tx.id}]
      /\ stored' = [stored EXCEPT ![n] = stored[n] \cup {msg}]
      /\ UNCHANGED <<chain, seenBlock>>
  BY DEF EnterMempool
<1>5. Books' BY <1>1, <1>3, <1>4 DEF Held, Books, counters
<1>6. stored[n] \in SUBSET MessageOver(W) /\ IsFiniteSet(stored[n]) BY DEF Held, Store
<1>7. stored[n] \cup {msg} \in SUBSET MessageOver(W) /\ IsFiniteSet(stored[n] \cup {msg})
  BY <1>6, FS_AddElement
<1>8. Syncs(W)' BY DEF Held, Store, Syncs, syncing
<1>9. Store(W)' BY <1>4, <1>7, <1>8 DEF Held, Store
<1>10. SecuredStep BY <1>4, SameHeights DEF syncing
<1> QED BY <1>5, <1>9, <1>10 DEF Held

(***************************************************************************)
(* A client's transaction, from its arrival to the flood.                  *)
(***************************************************************************)
LEMMA SubmitTxStep ==
  ASSUME Ordered(Hash), NEW W \in SUBSET Signed, Held(W), NEW n \in Node, NEW t \in Tx, SubmitTx(n, t)
  PROVE  Held(W)' /\ SecuredStep
<1>1. TxMsg(n, t) \in MessageOver(W) /\ TxMsg(n, t).tx = t BY Messages DEF TxMsg
<1>2. net' \in Queues(W) /\ flooding' \in [Node -> Tx \cup {None}]
  BY DEF SubmitTx, Held, Books, Store
<1> QED BY <1>1, <1>2, EnterStep DEF SubmitTx

(***************************************************************************)
(* The flood of a client's transaction.                                    *)
(***************************************************************************)
LEMMA FloodTxStep ==
  ASSUME Ordered(Hash), NEW W \in SUBSET Signed, Held(W), NEW n \in Node, FloodTx(n)
  PROVE  Held(W)' /\ SecuredStep
<1>1. flooding[n] \in Tx BY DEF FloodTx, Held, Books
<1>2. TxMsg(n, flooding[n]) \in MessageOver(W) BY <1>1, Messages
<1>3. net' \in Queues(W) BY <1>2, QueuesKept DEF FloodTx, Held, Store
<1>4. Books' BY DEF FloodTx, Held, Books, state, counters
<1> QED BY <1>3, <1>4, NetStep DEF FloodTx, state, Held

(***************************************************************************)
(* A transaction from a peer.                                              *)
(***************************************************************************)
LEMMA HandlePoSTransactionStep ==
  ASSUME Ordered(Hash), NEW W \in SUBSET Signed, Held(W), NEW m \in Node, NEW n \in Node,
         HandlePoSTransaction(m, n)
  PROVE  Held(W)' /\ SecuredStep
<1> DEFINE msg == Head(net[m][n])
<1>1. net \in Queues(W) /\ Arrived(m, n, "tx") BY DEF Held, Store, HandlePoSTransaction
<1>2. Consumed(m, n) \in Queues(W) /\ msg \in MessageOver(W) /\ msg.type = "tx" BY <1>1, MessageRead
<1>3. /\ UNCHANGED <<up, flooding, slot, attempts, mining, syncing, disk, link, counters>>
      /\ \/ /\ EnterMempool(n, msg)
            /\ net' = FloodNetwork(Consumed(m, n), n, TxMsg(n, msg.tx), {msg.from})
         \/ net' = Consumed(m, n) /\ UNCHANGED state
  BY DEF HandlePoSTransaction
<1> HIDE DEF msg
<1>4. msg.tx \in Tx /\ TxMsg(n, msg.tx) \in MessageOver(W) BY <1>2, MessageFields, Messages
<1>5. net' \in Queues(W) BY <1>2, <1>3, <1>4, QueuesKept
<1>6. CASE EnterMempool(n, msg)
  <2>1. flooding' \in [Node -> Tx \cup {None}] BY <1>3 DEF Held, Books
  <2> QED BY <1>2, <1>3, <1>4, <1>5, <1>6, <2>1, EnterStep
<1>7. CASE UNCHANGED state
  <2>1. Books' BY <1>3, <1>7 DEF Held, Books, state, counters
  <2> QED BY <1>3, <1>5, <1>7, <2>1, NetStep DEF state, Held
<1> QED BY <1>3, <1>6, <1>7

(***************************************************************************)
(* A request for blocks is answered from the best branch.                  *)
(***************************************************************************)
LEMMA HandleChainSyncRequestStep ==
  ASSUME Ordered(Hash), NEW W \in SUBSET Signed, Held(W), NEW m \in Node, NEW n \in Node,
         HandleChainSyncRequest(m, n)
  PROVE  Held(W)' /\ SecuredStep
<1> DEFINE msg == Head(net[m][n])
           r == SyncReply(chain[n], msg.fromHeight)
<1>1. net \in Queues(W) /\ Arrived(m, n, "request") BY DEF Held, Store, HandleChainSyncRequest
<1>2. Consumed(m, n) \in Queues(W) /\ msg \in MessageOver(W) /\ msg.type = "request"
  BY <1>1, MessageRead
<1>3. /\ UNCHANGED <<up, state, flooding, slot, attempts, mining, syncing, disk, link, counters>>
      /\ net' = Send(Consumed(m, n), n, msg.from, SyncResponse(n, r))
  BY DEF HandleChainSyncRequest
<1> HIDE DEF msg
<1>4. msg.fromHeight \in Nat /\ msg.from \in Node BY <1>2, MessageFields
<1>5. chain[n] \in Seq(W) /\ W \in SUBSET Block BY DEF Held, Store, Lists, Signed
<1>6. r \in Reply(W) BY <1>4, <1>5, ReplyTyped
<1> HIDE DEF r
<1>7. net' \in Queues(W) BY <1>2, <1>3, <1>4, <1>6, Messages, QueuesKept
<1>8. Books' BY <1>3 DEF Held, Books, state, counters
<1> QED BY <1>3, <1>7, <1>8, NetStep DEF state, Held

(***************************************************************************)
(* The sync timer.                                                         *)
(***************************************************************************)
LEMMA RequestChainSyncStep ==
  ASSUME Ordered(Hash), NEW W \in SUBSET Signed, Held(W), NEW n \in Node, RequestChainSync(n)
  PROVE  Held(W)' /\ SecuredStep
<1>1. chain[n] \in Seq(W) /\ W \in SUBSET Block BY DEF Held, Store, Lists, Signed
<1>2. BestHeight(chain[n]) + 1 \in Nat BY <1>1, TipTyped
<1>3. SyncRequest(n, BestHeight(chain[n]) + 1) \in MessageOver(W) BY <1>2, Messages
<1>4. net' \in Queues(W) BY <1>3, QueuesKept DEF RequestChainSync, Held, Store
<1>5. Books' BY DEF RequestChainSync, Held, Books, state
<1> QED BY <1>4, <1>5, NetStep DEF RequestChainSync, state, Held
(***************************************************************************)
(* A block that AddBlock accepts: the chain keeps parents before children, *)
(* and the tip moves to the block exactly when the fork choice prefers it. *)
(***************************************************************************)
LEMMA AdoptStep ==
  ASSUME Ordered(Hash), NEW W \in SUBSET Signed, Held(W), NEW n \in Node, NEW b \in W,
         CanAddBlock(chain[n], b), Adopt(n, b)
  PROVE  /\ chain' \in [Node -> Lists(W)]
         /\ mempool' \in [Node -> SUBSET Tx] /\ \A k \in Node : IsFiniteSet(mempool'[k])
         /\ seenBlock' = [seenBlock EXCEPT ![n] = seenBlock[n] \cup {GetBlockHash(b)}]
         /\ GetBlockHash(b) \in Hash
         /\ \A k \in Node : k # n => chain'[k] = chain[k]
         /\ BestLeafHash(chain'[n]) =
              IF GetBlockHash(b) # BestLeafHash(chain[n]) /\ Beats(GetBlockHash(b), BestLeafHash(chain[n]))
              THEN GetBlockHash(b) ELSE BestLeafHash(chain[n])
         /\ \A k \in Node : BestHeight(chain'[k]) >= BestHeight(chain[k])
         /\ UNCHANGED seenTx
<1>1. chain \in [Node -> Lists(W)] BY DEF Held, Store
<1>2. chain[n] \in Seq(W) /\ chain[n] \in Seq(Signed) /\ Rooted(chain[n]) /\ b \in Signed
  BY <1>1 DEF Lists
<1>3. b.parent \in Known(CalculateDepths(chain[n])) BY DEF CanAddBlock
<1> DEFINE cs == Append(chain[n], b)
<1>4. /\ Rooted(cs)
      /\ BestLeafHash(cs) =
           IF GetBlockHash(b) # BestLeafHash(chain[n]) /\ Beats(GetBlockHash(b), BestLeafHash(chain[n]))
           THEN GetBlockHash(b) ELSE BestLeafHash(chain[n])
  BY <1>2, <1>3, AcceptedBlock
<1>5. cs \in Seq(W) BY <1>2
<1>6. chain' = [chain EXCEPT ![n] = cs] BY DEF Adopt
<1> HIDE DEF cs
<1>7. chain' \in [Node -> Lists(W)] BY <1>1, <1>4, <1>5, <1>6 DEF Lists
<1>8. chain'[n] = cs /\ \A k \in Node : k # n => chain'[k] = chain[k] BY <1>1, <1>6
<1>9. mempool[n] \in SUBSET Tx /\ IsFiniteSet(mempool[n]) BY DEF Held, Books
<1>10. NotIncluded(mempool[n], b) \in SUBSET Tx /\ IsFiniteSet(NotIncluded(mempool[n], b))
  <2>1. NotIncluded(mempool[n], b) \subseteq mempool[n] BY DEF NotIncluded
  <2> QED BY <1>9, <2>1, FS_Subset
<1>11. PICK kept \in Prunings(LedgerFromBlockchain(Append(chain[n], b), 0), NotIncluded(mempool[n], b)) :
         mempool' = [mempool EXCEPT ![n] = kept]
  BY DEF Adopt
<1>12. kept \in SUBSET Tx /\ IsFiniteSet(kept) BY <1>10, Pruned
<1>13. mempool' \in [Node -> SUBSET Tx] /\ \A k \in Node : IsFiniteSet(mempool'[k])
  BY <1>11, <1>12 DEF Held, Books
<1>14. b \in Block /\ W \in SUBSET Block BY <1>2 DEF Signed
<1>15. GetBlockHash(b) \in Hash BY <1>14, BlockHash
<1>16. seenBlock' = [seenBlock EXCEPT ![n] = seenBlock[n] \cup {GetBlockHash(b)}] /\ UNCHANGED seenTx
  BY DEF Adopt
<1>17. ASSUME NEW k \in Node PROVE BestHeight(chain'[k]) >= BestHeight(chain[k])
  <2>1. chain[k] \in Seq(W) BY <1>1 DEF Lists
  <2>2. BestHeight(chain[k]) \in Nat BY <1>14, <2>1, TipTyped
  <2>3. CASE k = n
    <3>1. Len(GetBlockHash(b)) \in Nat BY <1>15 DEF Hash
    <3> QED BY <1>4, <1>8, <2>2, <2>3, <3>1 DEF BestHeight, Beats
  <2>4. CASE k # n BY <1>8, <2>2, <2>4
  <2> QED BY <2>3, <2>4
<1> QED BY <1>4, <1>7, <1>8, <1>13, <1>15, <1>16, <1>17

(***************************************************************************)
(* A step that only makes chains longer.                                   *)
(***************************************************************************)
LEMMA GrowingStep ==
  ASSUME Ordered(Hash), NEW W \in SUBSET Signed, Held(W), Held(W)', UNCHANGED installing,
         \A k \in Node : BestHeight(chain'[k]) >= BestHeight(chain[k])
  PROVE  SecuredStep
<1>1. \A k \in Node : Rises(k) /\ Watches(k) BY DEF Rises, Watches
<1> QED BY <1>1, SecuredKept

(***************************************************************************)
(* A block from a peer: known, accepted, or refused.                       *)
(***************************************************************************)
LEMMA HandleBlockStep ==
  ASSUME Ordered(Hash), NEW W \in SUBSET Signed, Held(W), NEW m \in Node, NEW n \in Node,
         HandleBlock(m, n)
  PROVE  Held(W)' /\ SecuredStep
<1> DEFINE msg == Head(net[m][n])
           b == msg.block
<1>1. net \in Queues(W) /\ Arrived(m, n, "block") BY DEF Held, Store, HandleBlock
<1>2. Consumed(m, n) \in Queues(W) /\ msg \in MessageOver(W) /\ msg.type = "block"
  BY <1>1, MessageRead
<1>3. UNCHANGED <<up, flooding, slot, attempts, mining, syncing, disk, link, counters>> BY DEF HandleBlock
<1>4. \/ /\ net' = Consumed(m, n) \/ net' = Send(Consumed(m, n), n, msg.from, SyncRequest(n, 0))
         /\ UNCHANGED state
      \/ /\ CanAddBlock(chain[n], b) /\ Adopt(n, b)
         /\ stored' = [stored EXCEPT ![n] = stored[n] \cup {msg}]
         /\ net' = FloodNetwork(Consumed(m, n), n, BlockMsg(n, b), {msg.from})
  BY DEF HandleBlock
<1> HIDE DEF msg
<1>5. b \in W /\ msg.from \in Node BY <1>2, MessageFields
<1> HIDE DEF b
<1>6. BlockMsg(n, b) \in MessageOver(W) /\ SyncRequest(n, 0) \in MessageOver(W) BY <1>5, Messages
<1>7. net' \in Queues(W) BY <1>2, <1>4, <1>5, <1>6, QueuesKept
<1>8. CASE UNCHANGED state
  <2>1. Books' BY <1>3, <1>8 DEF Held, Books, state, counters
  <2> QED BY <1>3, <1>7, <1>8, <2>1, NetStep DEF state, Held
<1>9. CASE /\ CanAddBlock(chain[n], b) /\ Adopt(n, b)
           /\ stored' = [stored EXCEPT ![n] = stored[n] \cup {msg}]
  <2>1. /\ chain' \in [Node -> Lists(W)] /\ GetBlockHash(b) \in Hash
        /\ mempool' \in [Node -> SUBSET Tx] /\ \A k \in Node : IsFiniteSet(mempool'[k])
        /\ seenBlock' = [seenBlock EXCEPT ![n] = seenBlock[n] \cup {GetBlockHash(b)}]
        /\ \A k \in Node : BestHeight(chain'[k]) >= BestHeight(chain[k])
        /\ UNCHANGED seenTx
    BY <1>5, <1>9, AdoptStep
  <2>2. seenBlock' \in [Node -> SUBSET Hash] BY <2>1 DEF Held, Books
  <2>3. Books' BY <1>3, <2>1, <2>2 DEF Held, Books, counters
  <2>4. stored[n] \in SUBSET MessageOver(W) /\ IsFiniteSet(stored[n]) BY DEF Held, Store
  <2>5. stored[n] \cup {msg} \in SUBSET MessageOver(W) /\ IsFiniteSet(stored[n] \cup {msg})
    BY <1>2, <2>4, FS_AddElement
  <2>6. Syncs(W)' /\ UNCHANGED installing BY <1>3 DEF Held, Store, Syncs, syncing
  <2>7. Store(W)' BY <1>3, <1>7, <1>9, <2>1, <2>5, <2>6 DEF Held, Store
  <2>8. Held(W)' BY <2>3, <2>7 DEF Held
  <2> QED BY <2>1, <2>6, <2>8, GrowingStep
<1> QED BY <1>4, <1>8, <1>9

(***************************************************************************)
(* What an installer builds is a branch that is longer than the one it     *)
(* saw, and ends where the response does.                                  *)
(***************************************************************************)
LEMMA Built ==
  ASSUME Ordered(Hash), NEW W \in SUBSET Signed, NEW bs \in Lists(W), NEW r \in Reply(W),
         r.blocks # << >>, NEW how, CanInstall(how, bs, r)
  PROVE  /\ CanonicalBlocks(bs, 0) \in Seq(W)
         /\ Len(CanonicalBlocks(bs, 0)) = BestHeight(bs)
         /\ Replacement(how, bs, r) \in Lists(W)
         /\ BestHeight(Replacement(how, bs, r)) > BestHeight(bs)
         /\ \E b \in W : GetBlockHash(b) = BestLeafHash(Replacement(how, bs, r))
<1> DEFINE cs == Replacement(how, bs, r)
<1>1. W \in SUBSET Block /\ bs \in Seq(W) /\ r.blocks \in Seq(W) BY DEF Lists, Reply, Signed
<1>2. /\ cs \in Seq(W) /\ Path(cs) /\ Len(cs) > BestHeight(bs)
      /\ End(cs) = GetBlockHash(r.blocks[Len(r.blocks)])
  BY <1>1, ReplacementPath
<1>3. CanonicalBlocks(bs, 0) \in Seq(W) /\ Len(CanonicalBlocks(bs, 0)) = BestHeight(bs)
  BY <1>1, CanonicalPath
<1> HIDE DEF cs
<1>4. cs \in Seq(Signed) /\ cs \in Seq(Block) BY <1>1, <1>2
<1>5. BestLeafHash(cs) = End(cs) /\ Len(End(cs)) = Len(cs) BY <1>2, <1>4, PathBest
<1>6. BestHeight(cs) > BestHeight(bs) BY <1>2, <1>5 DEF BestHeight
<1>7. Rooted(cs) BY <1>2, <1>4, PathRooted
<1>8. r.blocks[Len(r.blocks)] \in W
  <2>1. Len(r.blocks) \in 1 .. Len(r.blocks) BY <1>1
  <2> QED BY <1>1, <2>1
<1> QED BY <1>2, <1>3, <1>5, <1>6, <1>7, <1>8 DEF Lists, cs

(***************************************************************************)
(* An installer is chosen for responses that carry blocks.                 *)
(***************************************************************************)
LEMMA Chosen ==
  ASSUME NEW height, NEW r, Installer(height, r) # "none"
  PROVE  Installer(height, r) \in {"full", "suffix", "overlap"} /\ r.blocks # << >>
BY DEF Installer

(***************************************************************************)
(* A sync response is ignored or handed to an installer.                   *)
(***************************************************************************)
LEMMA HandleChainSyncResponseStep ==
  ASSUME Ordered(Hash), NEW W \in SUBSET Signed, Held(W), NEW m \in Node, NEW n \in Node,
         HandleChainSyncResponse(m, n)
  PROVE  Held(W)' /\ SecuredStep
<1> DEFINE msg == Head(net[m][n])
           how == Installer(BestHeight(chain[n]), msg.reply)
           k == [peer |-> m, live |-> TRUE, how |-> how, reply |-> msg.reply]
<1>1. net \in Queues(W) /\ Arrived(m, n, "response") BY DEF Held, Store, HandleChainSyncResponse
<1>2. Consumed(m, n) \in Queues(W) /\ msg \in MessageOver(W) /\ msg.type = "response"
  BY <1>1, MessageRead
<1>3. /\ UNCHANGED <<up, state, flooding, slot, attempts, mining, installing, disk, link, counters>>
      /\ net' = Consumed(m, n)
      /\ responses' = IF how = "none" THEN responses
                      ELSE [responses EXCEPT ![n] = Append(responses[n], k)]
  BY DEF HandleChainSyncResponse
<1>4. msg.reply \in Reply(W) BY <1>2, MessageFields
<1>5. responses \in [Node -> Seq(Answer(W))] /\ installing \in [Node -> Seq(Pending(W))]
  BY DEF Held, Store, Syncs
<1>6. ASSUME how # "none" PROVE Append(responses[n], k) \in Seq(Answer(W))
  <2>1. how \in {"full", "suffix", "overlap"} /\ msg.reply.blocks # << >> BY <1>6, Chosen
  <2> HIDE DEF how, msg
  <2>2. k \in Answer(W) BY <1>4, <2>1 DEF Answer
  <2> HIDE DEF k
  <2> QED BY <1>5, <2>2
<1> HIDE DEF how, k, msg
<1>7. responses' \in [Node -> Seq(Answer(W))] BY <1>3, <1>5, <1>6
<1>8. Syncs(W)' BY <1>3, <1>5, <1>7 DEF Syncs
<1>9. Books' BY <1>3 DEF Held, Books, state, counters
<1>10. Store(W)' BY <1>2, <1>3, <1>8 DEF Held, Store, state
<1>11. SecuredStep BY <1>3, SameHeights DEF state
<1> QED BY <1>9, <1>10, <1>11 DEF Held

(***************************************************************************)
(* An installer builds a replacement of what it sees, or refuses.          *)
(***************************************************************************)
LEMMA BuildReplacementStep ==
  ASSUME Ordered(Hash), NEW W \in SUBSET Signed, Held(W), NEW n \in Node,
         NEW i \in DOMAIN responses[n], BuildReplacement(n, i)
  PROVE  /\ Held(W)' /\ SecuredStep
         /\ \/ UNCHANGED installing
            \/ \E j \in Pending(W) :
                 /\ installing' = [installing EXCEPT ![n] = Append(installing[n], j)]
                 /\ Len(j.local) = BestHeight(chain[n])
<1>1. responses \in [Node -> Seq(Answer(W))] /\ installing \in [Node -> Seq(Pending(W))]
  BY DEF Held, Store, Syncs
<1>2. PICK k \in Answer(W) : k = responses[n][i]
  <2>1. responses[n] \in Seq(Answer(W)) BY <1>1
  <2> QED BY <2>1
<1>3. k.peer \in Node /\ k.live \in BOOLEAN /\ k.reply \in Reply(W) /\ k.reply.blocks # << >>
  BY <1>2 DEF Answer
<1> DEFINE cs == Replacement(k.how, chain[n], k.reply)
           local == CanonicalBlocks(chain[n], 0)
           new == [peer |-> k.peer, live |-> k.live, local |-> local, blocks |-> cs]
<1>4. /\ UNCHANGED <<up, state, flooding, slot, attempts, mining, disk, link, counters>>
      /\ responses' = [responses EXCEPT ![n] = RemoveAt(responses[n], i)]
      /\ \/ /\ CanInstall(k.how, chain[n], k.reply)
            /\ installing' = [installing EXCEPT ![n] = Append(installing[n], new)]
            /\ UNCHANGED net
         \/ /\ net' = Send(net, n, k.peer, SyncRequest(n, 0)) \/ UNCHANGED net
            /\ UNCHANGED installing
  BY <1>2 DEF BuildReplacement
<1>5. RemoveAt(responses[n], i) \in Seq(Answer(W))
  <2>1. responses[n] \in Seq(Answer(W)) BY <1>1
  <2> QED BY <2>1, Removed
<1>6. PICK rest : rest = RemoveAt(responses[n], i) OBVIOUS
<1>7. responses' = [responses EXCEPT ![n] = rest] BY <1>4, <1>6
<1>8. responses' \in [Node -> Seq(Answer(W))] BY <1>1, <1>5, <1>6, <1>7
<1>9. chain[n] \in Lists(W) /\ net \in Queues(W) BY DEF Held, Store
<1>10. CanInstall(k.how, chain[n], k.reply) =>
         new \in Pending(W) /\ Len(new.local) = BestHeight(chain[n])
  <2> SUFFICES ASSUME CanInstall(k.how, chain[n], k.reply)
               PROVE  new \in Pending(W) /\ Len(new.local) = BestHeight(chain[n])
    OBVIOUS
  <2>1. /\ local \in Seq(W) /\ Len(local) = BestHeight(chain[n]) /\ cs \in Lists(W)
        /\ BestHeight(cs) > BestHeight(chain[n])
        /\ \E b \in W : GetBlockHash(b) = BestLeafHash(cs)
    BY <1>3, <1>9, Built
  <2> HIDE DEF local, cs
  <2> QED BY <1>3, <2>1 DEF Pending
<1> HIDE DEF new, local, cs
<1>11. \/ UNCHANGED installing
       \/ /\ new \in Pending(W) /\ Len(new.local) = BestHeight(chain[n])
          /\ installing' = [installing EXCEPT ![n] = Append(installing[n], new)]
  BY <1>4, <1>10
<1>12. installing' \in [Node -> Seq(Pending(W))]
  <2>1. new \in Pending(W) => Append(installing[n], new) \in Seq(Pending(W)) BY <1>1
  <2>2. PICK longer : longer = Append(installing[n], new) OBVIOUS
  <2> QED BY <1>1, <1>11, <2>1, <2>2
<1>13. Syncs(W)' BY <1>8, <1>12 DEF Syncs
<1>14. SyncRequest(n, 0) \in MessageOver(W) BY Messages
<1>15. net' \in Queues(W) BY <1>3, <1>4, <1>9, <1>14, QueuesKept
<1>16. Books' BY <1>4 DEF Held, Books, state, counters
<1>17. Store(W)' BY <1>4, <1>13, <1>15 DEF Held, Store, state
<1>18. Held(W)' BY <1>16, <1>17 DEF Held
<1>19. SecuredStep
  <2>1. CASE UNCHANGED installing BY <1>4, <2>1, SameHeights DEF state
  <2>2. CASE /\ new \in Pending(W) /\ Len(new.local) = BestHeight(chain[n])
             /\ installing' = [installing EXCEPT ![n] = Append(installing[n], new)]
    <3>1. ASSUME NEW x \in Node PROVE Rises(x) /\ Watches(x)
      <4>1. chain[x] \in Seq(W) /\ W \in SUBSET Block BY DEF Held, Store, Lists, Signed
      <4>2. BestHeight(chain[x]) \in Nat /\ chain' = chain BY <1>4, <4>1, TipTyped DEF state
      <4>3. Rises(x) BY <4>2 DEF Rises
      <4>4. CASE x # n
        <5>1. installing'[x] = installing[x] BY <1>1, <2>2, <4>4
        <5> QED BY <4>3, <5>1 DEF Watches
      <4>5. CASE x = n
        <5>1. installing[n] \in Seq(Pending(W)) BY <1>1
        <5>2. Range(Append(installing[n], new)) = Range(installing[n]) \cup {new}
          BY <2>2, <5>1, Appended
        <5>3. Range(installing'[n]) = Range(installing[n]) \cup {new} BY <1>1, <2>2, <5>2
        <5>4. Len(new.local) >= BestHeight(chain[n]) BY <2>2, <4>2, <4>5
        <5> QED BY <4>3, <4>5, <5>3, <5>4 DEF Watches
      <4> QED BY <4>4, <4>5
    <3> QED BY <1>18, <3>1, SecuredKept
  <2> QED BY <1>11, <2>1, <2>2
<1> QED BY <1>11, <1>18, <1>19

(***************************************************************************)
(* A replacement is put in place, whatever the chain has become.           *)
(***************************************************************************)
LEMMA ReplaceBlocksStep ==
  ASSUME Ordered(Hash), NEW W \in SUBSET Signed, Held(W), NEW n \in Node,
         NEW i \in DOMAIN installing[n], ReplaceBlocks(n, i)
  PROVE  /\ Held(W)' /\ SecuredStep
         /\ \A x \in Node : x # n => chain'[x] = chain[x] /\ installing'[x] = installing[x]
         /\ chain'[n] = installing[n][i].blocks
         /\ installing[n][i] \in Range(installing[n])
         /\ Range(installing'[n]) \subseteq Range(installing[n])
         /\ Range(installing[n]) \subseteq Range(installing'[n]) \cup {installing[n][i]}
<1>1. /\ responses \in [Node -> Seq(Answer(W))] /\ installing \in [Node -> Seq(Pending(W))]
      /\ chain \in [Node -> Lists(W)]
  BY DEF Held, Store, Syncs
<1>2. installing[n] \in Seq(Pending(W)) BY <1>1
<1>3. PICK k \in Pending(W) : k = installing[n][i] BY <1>2
<1>4. /\ k.blocks \in Lists(W) /\ BestHeight(k.blocks) > Len(k.local)
      /\ k \in Range(installing[n])
  BY <1>3 DEF Pending, Range
<1>5. PICK rest : rest = RemoveAt(installing[n], i) OBVIOUS
<1>6. /\ rest \in Seq(Pending(W)) /\ Range(rest) \subseteq Range(installing[n])
      /\ Range(installing[n]) \subseteq Range(rest) \cup {k}
  BY <1>2, <1>3, <1>5, Removed
<1>7. /\ chain' = [chain EXCEPT ![n] = k.blocks]
      /\ installing' = [installing EXCEPT ![n] = rest]
      /\ UNCHANGED <<up, mempool, seenTx, seenBlock, stored, flooding, slot, attempts, mining,
                     responses, disk, link, net, counters>>
  BY <1>3, <1>5 DEF ReplaceBlocks
<1>8. /\ \A x \in Node : x # n => chain'[x] = chain[x] /\ installing'[x] = installing[x]
      /\ chain'[n] = k.blocks /\ installing'[n] = rest
  BY <1>1, <1>7
<1>9. chain' \in [Node -> Lists(W)] /\ installing' \in [Node -> Seq(Pending(W))]
  BY <1>1, <1>4, <1>6, <1>7
<1>10. Syncs(W)' BY <1>1, <1>7, <1>9 DEF Syncs
<1>11. Books' BY <1>7 DEF Held, Books, counters
<1>12. Store(W)' BY <1>7, <1>9, <1>10 DEF Held, Store
<1>13. Held(W)' BY <1>11, <1>12 DEF Held
<1>14. ASSUME NEW x \in Node PROVE Rises(x) /\ Watches(x)
  <2>1. CASE x = n BY <1>4, <1>6, <1>8, <2>1 DEF Rises, Watches
  <2>2. CASE x # n
    <3>1. chain[x] \in Seq(W) /\ W \in SUBSET Block BY <1>1 DEF Lists, Signed
    <3>2. BestHeight(chain[x]) \in Nat BY <3>1, TipTyped
    <3> QED BY <1>8, <2>2, <3>2 DEF Rises, Watches
  <2> QED BY <2>1, <2>2
<1>15. SecuredStep BY <1>13, <1>14, SecuredKept
<1> QED BY <1>3, <1>4, <1>6, <1>8, <1>13, <1>15

(***************************************************************************)
(* A step that changes neither blocks nor messages.                        *)
(***************************************************************************)
LEMMA LocalStep ==
  ASSUME NEW W, Held(W), Books', UNCHANGED <<chain, stored, disk, net, syncing>>
  PROVE  Held(W)' /\ SecuredStep
<1>1. net' \in Queues(W) BY DEF Held, Store
<1> QED BY <1>1, NetStep DEF Held

(***************************************************************************)
(* The ticker starts the attempts of a slot, or skips it.                  *)
(***************************************************************************)
LEMMA TickStep ==
  ASSUME Ordered(Hash), NEW W \in SUBSET Signed, Held(W), NEW n \in Node, Tick(n)
  PROVE  Held(W)' /\ SecuredStep
<1> DEFINE k == MineAttemptsForNetwork(Cardinality(mempool[n]), Cardinality(Neighbours(n)) + 1)
<1>1. Cardinality(mempool[n]) \in Nat BY FS_CardinalityType DEF Held, Books
<1>2. Cardinality(Neighbours(n)) \in Nat
  <2>1. Neighbours(n) \subseteq Node BY DEF Neighbours
  <2>2. IsFiniteSet(Neighbours(n)) BY <2>1, FS_Subset, NodeAssumption
  <2> QED BY <2>2, FS_CardinalityType
<1>3. k \in Nat
  <2>1. Cardinality(Neighbours(n)) + 1 \in Nat \ {0} BY <1>2
  <2> QED BY <1>1, <2>1, AttemptsTyped
<1>4. /\ mining[n] = None
      /\ \/ attempts' = [attempts EXCEPT ![n] = k] /\ UNCHANGED slot
         \/ slot' = [slot EXCEPT ![n] = slot[n] + 1] /\ UNCHANGED attempts
      /\ UNCHANGED <<up, state, flooding, mining, syncing, disk, link, net, counters>>
  BY DEF Tick
<1> HIDE DEF k
<1>5. Books' BY <1>3, <1>4 DEF Held, Books, state, counters
<1> QED BY <1>4, <1>5, LocalStep DEF state

(***************************************************************************)
(* The end of an attempt.                                                  *)
(***************************************************************************)
LEMMA EndAttemptStep ==
  ASSUME NEW n \in Node, NEW left \in Nat, Books, EndAttempt(n, left)
  PROVE  /\ slot' \in [Node -> Nat] /\ attempts' \in [Node -> Nat]
         /\ mining' \in [Node -> Signed \cup {None}]
         /\ \A k \in Node : mining'[k] # None => attempts'[k] > 0
         /\ \A k \in Node : slot'[k] >= slot[k]
         /\ slot'[n] = slot[n] + 1 /\ mining'[n] = None
         /\ \A k \in Node : k # n => mining'[k] = mining[k] /\ slot'[k] = slot[k]
BY DEF Books, EndAttempt

(***************************************************************************)
(* A lost slot.                                                            *)
(***************************************************************************)
LEMMA LoseSlotStep ==
  ASSUME Ordered(Hash), NEW W \in SUBSET Signed, Held(W), NEW n \in Node, LoseSlot(n)
  PROVE  Held(W)' /\ SecuredStep
<1>1. attempts[n] - 1 \in Nat /\ Books BY DEF LoseSlot, Held, Books
<1>2. EndAttempt(n, attempts[n] - 1) /\ UNCHANGED <<up, state, flooding, syncing, disk, link, net, counters>>
  BY DEF LoseSlot
<1>3. Books' BY <1>1, <1>2, EndAttemptStep DEF Books, state, counters
<1> QED BY <1>2, <1>3, LocalStep DEF state

(***************************************************************************)
(* A candidate is a block of the miner in its slot, or the lottery is lost *)
(* after the selection.                                                    *)
(***************************************************************************)
LEMMA BuildCandidateStep ==
  ASSUME Ordered(Hash), NEW W \in SUBSET Signed, Held(W), NEW n \in Node, BuildCandidate(n)
  PROVE  /\ Held(W)' /\ SecuredStep
         /\ \A k \in Node : slot'[k] >= slot[k] /\ (k # n => mining'[k] = mining[k] /\ slot'[k] = slot[k])
         /\ mining'[n] # None => mining'[n].miner = n /\ mining'[n].slot = slot'[n]
<1>1. Books BY DEF Held
<1>2. /\ attempts[n] > 0 /\ slot[n] \in Slot
      /\ UNCHANGED <<up, chain, seenTx, seenBlock, stored, flooding, syncing, disk, link, net, counters>>
  BY DEF BuildCandidate
<1>3. PICK kept \in Prunings(BestLedger(n), mempool[n]) :
        /\ mempool' = [mempool EXCEPT ![n] = kept]
        /\ \E txs \in Selections(BestLedger(n), kept) :
             \/ /\ mining' = [mining EXCEPT ![n] =
                                NewCandidateBlock(n, slot[n], BestLeafHash(chain[n]), txs)]
                /\ UNCHANGED <<attempts, slot>>
             \/ EndAttempt(n, attempts[n] - 1)
  BY DEF BuildCandidate
<1>4. kept \in SUBSET mempool[n] /\ IsFiniteSet(kept) /\ mempool[n] \in SUBSET Tx
  BY <1>1, Pruned DEF Books
<1>5. PICK txs \in Selections(BestLedger(n), kept) :
        \/ /\ mining' = [mining EXCEPT ![n] =
                           NewCandidateBlock(n, slot[n], BestLeafHash(chain[n]), txs)]
           /\ UNCHANGED <<attempts, slot>>
        \/ EndAttempt(n, attempts[n] - 1)
  BY <1>3
<1>6. txs \in Seq(Tx)
  <2>1. txs \in Seq(kept) BY <1>4, Selected
  <2> QED BY <1>4, <2>1
<1>7. mempool' \in [Node -> SUBSET Tx] /\ \A k \in Node : IsFiniteSet(mempool'[k])
  BY <1>1, <1>3, <1>4 DEF Books
<1>8. CASE EndAttempt(n, attempts[n] - 1)
  <2>1. attempts[n] - 1 \in Nat BY <1>1, <1>2 DEF Books
  <2>2. /\ slot' \in [Node -> Nat] /\ attempts' \in [Node -> Nat]
        /\ mining' \in [Node -> Signed \cup {None}]
        /\ \A k \in Node : mining'[k] # None => attempts'[k] > 0
        /\ \A k \in Node : slot'[k] >= slot[k] /\ (k # n => mining'[k] = mining[k] /\ slot'[k] = slot[k])
        /\ mining'[n] = None
    BY <1>1, <1>8, <2>1, EndAttemptStep
  <2>3. Books' BY <1>1, <1>2, <1>7, <2>2 DEF Books, counters
  <2> QED BY <1>2, <2>2, <2>3, LocalStep
<1>9. CASE /\ mining' = [mining EXCEPT ![n] =
                           NewCandidateBlock(n, slot[n], BestLeafHash(chain[n]), txs)]
           /\ UNCHANGED <<attempts, slot>>
  <2> DEFINE b == NewCandidateBlock(n, slot[n], BestLeafHash(chain[n]), txs)
  <2>1. chain[n] \in Seq(W) /\ W \in SUBSET Block BY DEF Held, Store, Lists, Signed
  <2>2. BestLeafHash(chain[n]) \in Hash BY <2>1, TipTyped
  <2>3. n \in Native BY NodeAssumption
  <2>4. b \in Signed /\ b.miner = n /\ b.slot = slot[n]
    BY <1>2, <1>6, <2>2, <2>3 DEF Signed, Block, NewCandidateBlock
  <2> HIDE DEF b
  <2>5. mining' = [mining EXCEPT ![n] = b] BY <1>9 DEF b
  <2>6. Books' BY <1>1, <1>2, <1>7, <1>9, <2>4, <2>5 DEF Books, counters
  <2>7. /\ \A k \in Node : slot'[k] >= slot[k] /\ (k # n => mining'[k] = mining[k] /\ slot'[k] = slot[k])
        /\ mining'[n] = b
    BY <1>1, <1>9, <2>5 DEF Books
  <2> QED BY <1>2, <1>9, <2>4, <2>6, <2>7, LocalStep
<1> QED BY <1>5, <1>8, <1>9

(***************************************************************************)
(* The candidate is applied and flooded, or refused.                       *)
(***************************************************************************)
LEMMA ApplyBlockStep ==
  ASSUME Ordered(Hash), NEW W \in SUBSET Signed, Held(W), NEW n \in Node, mining[n] \in W,
         ApplyBlock(n)
  PROVE  Held(W)' /\ SecuredStep
<1> DEFINE b == mining[n]
<1>1. Books BY DEF Held
<1>2. mining[n] # None /\ UNCHANGED <<up, flooding, syncing, disk, link, counters>> BY DEF ApplyBlock
<1>3. \/ /\ CanAddBlock(chain[n], b) /\ Adopt(n, b)
         /\ net' = net \/ net' = FloodNetwork(net, n, BlockMsg(n, b), {n})
         /\ EndAttempt(n, 0) /\ UNCHANGED stored
      \/ EndAttempt(n, attempts[n] - 1) /\ UNCHANGED <<state, net>>
  BY DEF ApplyBlock
<1>4. attempts[n] - 1 \in Nat BY <1>1, <1>2 DEF Books
<1>5. CASE EndAttempt(n, attempts[n] - 1) /\ UNCHANGED <<state, net>>
  <2>1. Books' BY <1>1, <1>2, <1>4, <1>5, EndAttemptStep DEF Books, state, counters
  <2> QED BY <1>2, <1>5, <2>1, LocalStep DEF state
<1>6. CASE /\ CanAddBlock(chain[n], b) /\ Adopt(n, b)
           /\ net' = net \/ net' = FloodNetwork(net, n, BlockMsg(n, b), {n})
           /\ EndAttempt(n, 0) /\ UNCHANGED stored
  <2> HIDE DEF b
  <2>1. b \in W BY DEF b
  <2>2. /\ chain' \in [Node -> Lists(W)] /\ GetBlockHash(b) \in Hash
        /\ mempool' \in [Node -> SUBSET Tx] /\ \A k \in Node : IsFiniteSet(mempool'[k])
        /\ seenBlock' = [seenBlock EXCEPT ![n] = seenBlock[n] \cup {GetBlockHash(b)}]
        /\ \A k \in Node : BestHeight(chain'[k]) >= BestHeight(chain[k])
        /\ UNCHANGED seenTx
    BY <1>6, <2>1, AdoptStep
  <2>3. seenBlock' \in [Node -> SUBSET Hash] BY <1>1, <2>2 DEF Books
  <2>4. /\ slot' \in [Node -> Nat] /\ attempts' \in [Node -> Nat]
        /\ mining' \in [Node -> Signed \cup {None}]
        /\ \A k \in Node : mining'[k] # None => attempts'[k] > 0
    BY <1>1, <1>6, EndAttemptStep
  <2>5. Books' BY <1>1, <1>2, <2>2, <2>3, <2>4 DEF Books, counters
  <2>6. BlockMsg(n, b) \in MessageOver(W) BY <2>1, Messages
  <2>7. net' \in Queues(W) BY <1>6, <2>6, QueuesKept DEF Held, Store
  <2>8. Syncs(W)' /\ UNCHANGED installing BY <1>2 DEF Held, Store, Syncs, syncing
  <2>9. Store(W)' BY <1>2, <1>6, <2>2, <2>7, <2>8 DEF Held, Store
  <2>10. Held(W)' BY <2>5, <2>9 DEF Held
  <2> QED BY <2>2, <2>8, <2>10, GrowingStep
<1> QED BY <1>3, <1>5, <1>6
(***************************************************************************)
(* The state file holds the chain of the moment.                           *)
(***************************************************************************)
LEMMA SaveStep ==
  ASSUME Ordered(Hash), NEW W \in SUBSET Signed, Held(W), NEW n \in Node, SaveNodeState(n)
  PROVE  Held(W)' /\ SecuredStep
<1> DEFINE f == [blocks |-> chain[n], slot |-> slot[n]]
<1>1. f \in File(W) BY DEF File, Held, Books, Store
<1>2. /\ disk' = [disk EXCEPT ![n] = f]
      /\ UNCHANGED <<up, state, flooding, slot, attempts, mining, syncing, link, net, counters>>
  BY DEF SaveNodeState
<1> HIDE DEF f
<1>3. Books' BY <1>2 DEF Held, Books, state, counters
<1>4. Syncs(W)' BY <1>2 DEF Held, Store, Syncs, syncing
<1>5. Store(W)' BY <1>1, <1>2, <1>4 DEF Held, Store, state
<1>6. SecuredStep BY <1>2, SameHeights DEF state, syncing
<1> QED BY <1>3, <1>5, <1>6 DEF Held

(***************************************************************************)
(* What is at work for a lost connection stays what it was, but for the    *)
(* mark.                                                                   *)
(***************************************************************************)
LEMMA DetachedSyncs ==
  ASSUME NEW W, Syncs(W), NEW cut
  PROVE  /\ Detached(responses, cut) \in [Node -> Seq(Answer(W))]
         /\ Detached(installing, cut) \in [Node -> Seq(Pending(W))]
<1>1. \A k \in Answer(W) : \A x \in BOOLEAN : Marked(k, x) \in Answer(W) BY DEF Answer, Marked
<1>2. \A k \in Pending(W) : \A x \in BOOLEAN : Marked(k, x) \in Pending(W) BY DEF Pending, Marked
<1> QED BY <1>1, <1>2, Detaching DEF Syncs

(***************************************************************************)
(* The snapshots and the replacements in particular.                       *)
(***************************************************************************)
LEMMA DetachedBlocks ==
  ASSUME NEW W, Syncs(W), NEW cut, NEW n \in Node
  PROVE  /\ \A k \in Range(Detached(installing, cut)[n]) : \E j \in Range(installing[n]) :
              k.local = j.local /\ k.blocks = j.blocks
         /\ \A j \in Range(installing[n]) : \E k \in Range(Detached(installing, cut)[n]) :
              k.local = j.local /\ k.blocks = j.blocks
<1>1. installing \in [Node -> Seq(Pending(W))] BY DEF Syncs
<1> DEFINE d == Detached(installing, cut)[n]
<1>2. /\ DOMAIN d = DOMAIN installing[n]
      /\ \A i \in DOMAIN installing[n] : \E x \in BOOLEAN : d[i] = Marked(installing[n][i], x)
  BY DetachedEntry
<1> HIDE DEF d
<1>3. ASSUME NEW i \in DOMAIN installing[n]
      PROVE  d[i].local = installing[n][i].local /\ d[i].blocks = installing[n][i].blocks
  <2>1. installing[n] \in Seq(Pending(W)) BY <1>1
  <2>2. PICK k \in Pending(W) : k = installing[n][i] BY <2>1
  <2>3. PICK x \in BOOLEAN : d[i] = Marked(k, x) BY <1>2, <2>2
  <2>4. Marked(k, x).local = k.local /\ Marked(k, x).blocks = k.blocks BY DEF Pending, Marked
  <2> QED BY <2>2, <2>3, <2>4
<1>4. ASSUME NEW k \in Range(d)
      PROVE  \E j \in Range(installing[n]) : k.local = j.local /\ k.blocks = j.blocks
  <2>1. PICK i \in DOMAIN installing[n] : k = d[i] BY <1>2 DEF Range
  <2>2. installing[n][i] \in Range(installing[n]) BY DEF Range
  <2> QED BY <1>3, <2>1, <2>2
<1>5. ASSUME NEW j \in Range(installing[n])
      PROVE  \E k \in Range(d) : k.local = j.local /\ k.blocks = j.blocks
  <2>1. PICK i \in DOMAIN installing[n] : j = installing[n][i] BY DEF Range
  <2>2. d[i] \in Range(d) BY <1>2 DEF Range
  <2> QED BY <1>3, <2>1, <2>2
<1> QED BY <1>4, <1>5 DEF d

(***************************************************************************)
(* The nodes that a crash or a restart does not touch, or only by marking  *)
(* their readers.                                                          *)
(***************************************************************************)
LEMMA OtherHeights ==
  ASSUME Ordered(Hash), NEW W \in SUBSET Signed, Held(W), Held(W)', NEW cut, NEW n,
         \A k \in Node : up[k] /\ up'[k] => k # n,
         \A k \in Node : k # n => chain'[k] = chain[k],
         \A k \in Node : k # n => installing'[k] \in {installing[k], Detached(installing, cut)[k]}
  PROVE  SecuredStep
<1>1. ASSUME NEW x \in Node, up[x] /\ up'[x] PROVE Rises(x) /\ Watches(x)
  <2>1. x # n BY <1>1
  <2>2. chain[x] \in Seq(W) /\ W \in SUBSET Block BY DEF Held, Store, Lists, Signed
  <2>3. BestHeight(chain[x]) \in Nat BY <2>2, TipTyped
  <2>4. Rises(x) BY <2>1, <2>3 DEF Rises
  <2>5. CASE installing'[x] = installing[x] BY <2>4, <2>5 DEF Watches
  <2>6. CASE installing'[x] = Detached(installing, cut)[x]
    <3>1. Syncs(W) BY DEF Held, Store
    <3>2. \A k \in Range(Detached(installing, cut)[x]) : \E j \in Range(installing[x]) :
            k.local = j.local
      BY <3>1, DetachedBlocks
    <3> QED BY <2>4, <2>6, <3>2 DEF Watches
  <2> QED BY <2>1, <2>5, <2>6
<1> QED BY <1>1, SecuredKept

(***************************************************************************)
(* A crash loses everything but the state file.                            *)
(***************************************************************************)
LEMMA CrashStep ==
  ASSUME Ordered(Hash), NEW W \in SUBSET Signed, Held(W), NEW n \in Node, Crash(n)
  PROVE  Held(W)' /\ SecuredStep
<1>1. << >> \in Lists(W)
  <2>1. << >> \in Seq(W) /\ Len(<< >>) = 0 OBVIOUS
  <2> QED BY <2>1 DEF Lists, Rooted
<1>2. /\ up' = [up EXCEPT ![n] = FALSE] /\ crashes' = crashes + 1
      /\ link' = {l \in link : n \notin l} /\ net' = Cut(net, {l \in link : n \in l})
      /\ mempool' = [mempool EXCEPT ![n] = {}] /\ seenTx' = [seenTx EXCEPT ![n] = {}]
      /\ seenBlock' = [seenBlock EXCEPT ![n] = {}] /\ flooding' = [flooding EXCEPT ![n] = None]
      /\ attempts' = [attempts EXCEPT ![n] = 0] /\ mining' = [mining EXCEPT ![n] = None]
      /\ chain' = [chain EXCEPT ![n] = << >>] /\ stored' = [stored EXCEPT ![n] = {}]
      /\ responses' = [Detached(responses, {l \in link : n \in l}) EXCEPT ![n] = << >>]
      /\ installing' = [Detached(installing, {l \in link : n \in l}) EXCEPT ![n] = << >>]
      /\ UNCHANGED <<slot, disk, cuts>>
  BY DEF Crash
<1>3. IsFiniteSet({}) BY FS_EmptySet
<1>4. Books' BY <1>2, <1>3 DEF Held, Books
<1>5. net' \in Queues(W) BY <1>2, QueuesKept DEF Held, Store
<1>6. PICK cut : cut = {l \in link : n \in l} OBVIOUS
<1>7. /\ Detached(responses, cut) \in [Node -> Seq(Answer(W))]
      /\ Detached(installing, cut) \in [Node -> Seq(Pending(W))]
  BY DetachedSyncs DEF Held, Store
<1>8. /\ responses' \in [Node -> Seq(Answer(W))] /\ installing' \in [Node -> Seq(Pending(W))]
      /\ \A k \in Node : k # n => installing'[k] = Detached(installing, cut)[k]
  BY <1>2, <1>6, <1>7
<1>9. Syncs(W)' BY <1>8 DEF Syncs
<1>10. Store(W)' BY <1>1, <1>2, <1>3, <1>5, <1>9 DEF Held, Store
<1>11. Held(W)' BY <1>4, <1>10 DEF Held
<1>12. ~up'[n] /\ \A k \in Node : k # n => chain'[k] = chain[k] BY <1>2 DEF Held, Books, Store
<1>13. /\ \A k \in Node : up[k] /\ up'[k] => k # n
       /\ \A k \in Node : k # n => installing'[k] \in {installing[k], Detached(installing, cut)[k]}
  BY <1>8, <1>12
<1>14. SecuredStep BY <1>11, <1>12, <1>13, OtherHeights
<1> QED BY <1>11, <1>14

(***************************************************************************)
(* A restart loads the state file.                                         *)
(***************************************************************************)
LEMMA RestartStep ==
  ASSUME Ordered(Hash), NEW W \in SUBSET Signed, Held(W), NEW n \in Node, Restart(n)
  PROVE  Held(W)' /\ SecuredStep
<1>1. disk[n] \in File(W) BY DEF Restart, Held, Store
<1>2. disk[n].blocks \in Lists(W) /\ disk[n].slot + 1 \in Nat BY <1>1 DEF File
<1>3. /\ ~up[n] /\ up' = [up EXCEPT ![n] = TRUE] /\ chain' = [chain EXCEPT ![n] = disk[n].blocks]
      /\ slot' = [slot EXCEPT ![n] = disk[n].slot + 1]
      /\ UNCHANGED <<mempool, seenTx, seenBlock, stored, flooding, attempts, mining, syncing, disk, link, net, counters>>
  BY DEF Restart
<1>4. Books' BY <1>2, <1>3 DEF Held, Books, counters
<1>5. Syncs(W)' BY <1>3 DEF Held, Store, Syncs, syncing
<1>6. Store(W)' BY <1>2, <1>3, <1>5 DEF Held, Store
<1>7. Held(W)' BY <1>4, <1>6 DEF Held
<1>8. \A k \in Node : k # n => chain'[k] = chain[k] /\ installing'[k] = installing[k]
  BY <1>3 DEF Held, Store, syncing
<1>9. SecuredStep BY <1>3, <1>7, <1>8, OtherHeights
<1> QED BY <1>7, <1>9

(***************************************************************************)
(* A lost connection.                                                      *)
(***************************************************************************)
LEMMA DisconnectStep ==
  ASSUME Ordered(Hash), NEW W \in SUBSET Signed, Held(W), NEW n \in Node, NEW m \in Node, Disconnect(n, m)
  PROVE  Held(W)' /\ SecuredStep
<1>1. /\ cuts' = cuts + 1 /\ link' = link \ {{n, m}} /\ net' = Cut(net, {{n, m}})
      /\ responses' = Detached(responses, {{n, m}}) /\ installing' = Detached(installing, {{n, m}})
      /\ UNCHANGED <<up, state, flooding, slot, attempts, mining, disk, crashes>>
  BY DEF Disconnect
<1>2. Books' BY <1>1 DEF Held, Books, state
<1>3. net' \in Queues(W) BY <1>1, QueuesKept DEF Held, Store
<1>4. Syncs(W)' BY <1>1, DetachedSyncs DEF Held, Store, Syncs
<1>5. Store(W)' BY <1>1, <1>3, <1>4 DEF Held, Store, state
<1>6. Held(W)' BY <1>2, <1>5 DEF Held
<1>7. ASSUME NEW x \in Node PROVE Rises(x) /\ Watches(x)
  <2>1. chain[x] \in Seq(W) /\ W \in SUBSET Block BY DEF Held, Store, Lists, Signed
  <2>2. BestHeight(chain[x]) \in Nat BY <2>1, TipTyped
  <2>3. Rises(x) BY <1>1, <2>2 DEF Rises, state
  <2>4. \A k \in Range(Detached(installing, {{n, m}})[x]) : \E j \in Range(installing[x]) :
          k.local = j.local
    BY DetachedBlocks DEF Held, Store
  <2> QED BY <1>1, <2>3, <2>4 DEF Watches
<1>8. SecuredStep BY <1>6, <1>7, SecuredKept
<1> QED BY <1>6, <1>8

(***************************************************************************)
(* A new connection starts with a sync request and the history.            *)
(***************************************************************************)
LEMMA ConnectStep ==
  ASSUME Ordered(Hash), NEW W \in SUBSET Signed, Held(W), NEW n \in Node, NEW m \in Node, Connect(n, m)
  PROVE  Held(W)' /\ SecuredStep
<1>1. ASSUME NEW x \in Node, NEW y \in Node
      PROVE  MaybeRequestChainSync(x, y) \in Seq(MessageOver(W))
  <2>1. chain[x] \in Seq(W) /\ W \in SUBSET Block BY DEF Held, Store, Lists, Signed
  <2>2. BestHeight(chain[x]) + 1 \in Nat BY <2>1, TipTyped
  <2>3. SyncRequest(x, BestHeight(chain[x]) + 1) \in MessageOver(W) BY <2>2, Messages
  <2> QED BY <2>3 DEF MaybeRequestChainSync
<1>2. PICK catchUp \in SetToSeqs(stored[m]) :
        net' = [net EXCEPT ![n][m] = MaybeRequestChainSync(n, m),
                           ![m][n] = MaybeRequestChainSync(m, n) \o catchUp]
  BY DEF Connect
<1>3. catchUp \in Seq(MessageOver(W))
  <2>1. stored[m] \in SUBSET MessageOver(W) /\ IsFiniteSet(stored[m]) BY DEF Held, Store
  <2>2. catchUp \in Seq(stored[m]) BY <2>1, Listed
  <2> QED BY <2>1, <2>2
<1> DEFINE a == MaybeRequestChainSync(n, m)
           c == MaybeRequestChainSync(m, n) \o catchUp
<1>4. a \in Seq(MessageOver(W)) BY <1>1
<1>5. c \in Seq(MessageOver(W))
  <2>1. MaybeRequestChainSync(m, n) \in Seq(MessageOver(W)) BY <1>1
  <2> QED BY <1>3, <2>1
<1>6. net' = [net EXCEPT ![n][m] = a, ![m][n] = c] BY <1>2
<1> HIDE DEF a, c
<1>7. net' \in Queues(W)
  <2>1. net \in [Node -> [Node -> Seq(MessageOver(W))]] BY DEF Held, Store, Queues
  <2> DEFINE q == [net EXCEPT ![n][m] = a]
  <2>2. q \in [Node -> [Node -> Seq(MessageOver(W))]] BY <1>4, <2>1
  <2>3. net' = [q EXCEPT ![m][n] = c] BY <1>6
  <2> HIDE DEF q
  <2>4. net' \in [Node -> [Node -> Seq(MessageOver(W))]] BY <1>5, <2>2, <2>3
  <2> QED BY <2>4 DEF Queues
<1>8. link' \in SUBSET SUBSET Node BY DEF Connect, Held, Books
<1>9. UNCHANGED <<up, state, flooding, slot, attempts, mining, syncing, disk, counters>> BY DEF Connect
<1>10. Books' BY <1>8, <1>9 DEF Held, Books, state, counters
<1> QED BY <1>7, <1>9, <1>10, NetStep DEF state, Held

-----------------------------------------------------------------------------
(* With crashes: types, the order of the lists, and the height. *)

(***************************************************************************)
(* Nothing happened yet.                                                   *)
(***************************************************************************)
LEMMA HeldInit == ASSUME NEW W, Init PROVE Held(W)
<1>1. << >> \in Lists(W)
  <2>1. << >> \in Seq(W) /\ Len(<< >>) = 0 OBVIOUS
  <2> QED BY <2>1 DEF Lists, Rooted
<1>2. IsFiniteSet({}) BY FS_EmptySet
<1>3. Books BY <1>2 DEF Init, Books
<1>4. Syncs(W) BY DEF Init, Syncs
<1>5. Store(W) BY <1>1, <1>2, <1>4 DEF Init, Store, Queues
<1> QED BY <1>3, <1>5 DEF Held

(***************************************************************************)
(* Every step of every node and every fault, when the candidates that are  *)
(* applied are in W.                                                       *)
(***************************************************************************)
LEMMA HeldNext ==
  ASSUME Ordered(Hash), NEW W \in SUBSET Signed, Held(W), Next,
         \A n \in Node : ApplyBlock(n) => mining[n] \in W
  PROVE  Held(W)' /\ SecuredStep
<1>1. ASSUME NEW n \in Node, NEW t \in Tx, SubmitTx(n, t) PROVE Held(W)' /\ SecuredStep
  BY <1>1, SubmitTxStep
<1>2. ASSUME NEW m \in Node, NEW n \in Node, Receive(m, n) PROVE Held(W)' /\ SecuredStep
  BY <1>2, HandlePoSTransactionStep, HandleBlockStep, HandleChainSyncRequestStep,
     HandleChainSyncResponseStep DEF Receive
<1>3. ASSUME NEW n \in Node, Install(n) PROVE Held(W)' /\ SecuredStep
  BY <1>3, BuildReplacementStep, ReplaceBlocksStep DEF Install
<1>4. ASSUME NEW n \in Node, SlotLoop(n) PROVE Held(W)' /\ SecuredStep
  BY <1>4, TickStep, LoseSlotStep, BuildCandidateStep, ApplyBlockStep DEF SlotLoop
<1>5. ASSUME NEW n \in Node,
             FloodTx(n) \/ RequestChainSync(n) \/ SaveNodeState(n) \/ Crash(n) \/ Restart(n)
      PROVE  Held(W)' /\ SecuredStep
  BY <1>5, FloodTxStep, RequestChainSyncStep, SaveStep, CrashStep, RestartStep
<1>6. ASSUME NEW n \in Node, NEW m \in Node, Disconnect(n, m) \/ Connect(n, m)
      PROVE  Held(W)' /\ SecuredStep
  BY <1>6, DisconnectStep, ConnectStep
<1>7. CASE Terminated
  <2>1. Books' BY <1>7 DEF Terminated, vars, Held, Books
  <2> QED BY <1>7, <2>1, LocalStep DEF Terminated, vars, syncing
<1> QED BY <1>1, <1>2, <1>3, <1>4, <1>5, <1>6, <1>7 DEF Next

(***************************************************************************)
(* A step that changes nothing.                                            *)
(***************************************************************************)
LEMMA HeldStutter ==
  ASSUME NEW W, Held(W), UNCHANGED vars PROVE Held(W)'
<1>1. Syncs(W)' BY DEF vars, Held, Store, Syncs
<1> QED BY <1>1 DEF vars, Held, Books, Store

(***************************************************************************)
(* All blocks anywhere are signed, whatever crashes.                       *)
(***************************************************************************)
LEMMA HeldAlways ==
  ASSUME Ordered(Hash) PROVE Spec => []Held(Signed)
<1>1. Init => Held(Signed) BY HeldInit
<1>2. Held(Signed) /\ [Next]_vars => Held(Signed)'
  <2> SUFFICES ASSUME Held(Signed), [Next]_vars PROVE Held(Signed)' OBVIOUS
  <2>1. \A n \in Node : ApplyBlock(n) => mining[n] \in Signed BY DEF ApplyBlock, Held, Books
  <2>2. CASE Next BY <2>1, <2>2, HeldNext
  <2>3. CASE UNCHANGED vars BY <2>3, HeldStutter
  <2> QED BY <2>2, <2>3
<1> QED BY <1>1, <1>2, PTL DEF Spec

(***************************************************************************)
(* Types, for every number of nodes and every schedule of crashes and lost *)
(* connections.                                                            *)
(***************************************************************************)
THEOREM NetworkWellTyped ==
  ASSUME Ordered(Hash) PROVE Spec => []TypeOK
<1>1. Held(Signed) => TypeOK
  <2> SUFFICES ASSUME Held(Signed) PROVE TypeOK OBVIOUS
  <2>1. Signed \subseteq Block BY DEF Signed
  <2>2. Seq(Signed) \subseteq Seq(Block) BY <2>1
  <2>3. Lists(Signed) \subseteq Seq(Block) BY <2>2 DEF Lists
  <2>4. MessageOver(Signed) \subseteq Message BY <2>1, <2>2 DEF MessageOver, Message, Reply, AnyReply
  <2>5. Seq(MessageOver(Signed)) \subseteq Seq(Message) BY <2>4
  <2>6. net \in [Node -> [Node -> Seq(Message)]] BY <2>5 DEF Held, Store, Queues
  <2>7. chain \in [Node -> Seq(Block)] BY <2>3 DEF Held, Store
  <2>8. stored \in [Node -> SUBSET Message] BY <2>4 DEF Held, Store
  <2>9. disk \in [Node -> [blocks: Seq(Block), slot: Nat] \cup {None}]
    <3>1. File(Signed) \subseteq [blocks: Seq(Block), slot: Nat] BY <2>3 DEF File
    <3> QED BY <3>1 DEF Held, Store
  <2>10. mining \in [Node -> Block \cup {None}] BY <2>1 DEF Held, Books
  <2>11. responses \in [Node -> Seq([peer: Node, live: BOOLEAN, how: {"full", "suffix", "overlap"},
                                     reply: AnyReply])]
    <3> DEFINE A == [peer: Node, live: BOOLEAN, how: {"full", "suffix", "overlap"}, reply: AnyReply]
    <3>1. Reply(Signed) \subseteq AnyReply BY <2>2 DEF Reply, AnyReply
    <3>2. Answer(Signed) \subseteq A BY <3>1 DEF Answer
    <3> HIDE DEF A
    <3>3. Seq(Answer(Signed)) \subseteq Seq(A) BY <3>2
    <3>4. responses \in [Node -> Seq(A)] BY <3>3 DEF Held, Store, Syncs
    <3> QED BY <3>4 DEF A
  <2>12. installing \in [Node -> Seq([peer: Node, live: BOOLEAN, local: Seq(Block), blocks: Seq(Block)])]
    <3> DEFINE A == [peer: Node, live: BOOLEAN, local: Seq(Block), blocks: Seq(Block)]
    <3>1. Pending(Signed) \subseteq A BY <2>2, <2>3 DEF Pending
    <3> HIDE DEF A
    <3>2. Seq(Pending(Signed)) \subseteq Seq(A) BY <3>1
    <3>3. installing \in [Node -> Seq(A)] BY <3>2 DEF Held, Store, Syncs
    <3> QED BY <3>3 DEF A
  <2> QED BY <2>6, <2>7, <2>8, <2>9, <2>10, <2>11, <2>12 DEF Held, Books, TypeOK
<1> QED BY <1>1, HeldAlways, PTL

(***************************************************************************)
(* Every list that AddBlock, the sync installers and the state file leave  *)
(* holds parents before children, crashes included.                        *)
(***************************************************************************)
THEOREM ParentsStandFirst ==
  ASSUME Ordered(Hash) PROVE Spec => []ParentsFirst
<1>1. Held(Signed) => ParentsFirst
  <2> SUFFICES ASSUME Held(Signed), NEW n \in Node PROVE
        \A i \in DOMAIN chain[n] :
          \/ chain[n][i].parent = GenesisHash
          \/ \E j \in 1 .. (i - 1) : GetBlockHash(chain[n][j]) = chain[n][i].parent
    BY DEF ParentsFirst
  <2>1. chain[n] \in Seq(Signed) /\ Rooted(chain[n]) BY DEF Held, Store, Lists
  <2>2. DOMAIN chain[n] = 1 .. Len(chain[n]) BY <2>1
  <2> QED BY <2>1, <2>2 DEF Rooted
<1> QED BY <1>1, HeldAlways, PTL

(***************************************************************************)
(* A replacement that is stale when it is installed may shorten a node's   *)
(* best branch, but not below what every installer at work has seen: a     *)
(* height that the branch and all their snapshots have is kept while the   *)
(* node runs, however readers and the slot loop interleave.                *)
(***************************************************************************)
THEOREM SecuredHeightsKept ==
  ASSUME Ordered(Hash) PROVE Spec => HeightsStaySecured
<1>1. Held(Signed) /\ [Next]_vars => [SecuredStep]_vars
  <2> SUFFICES ASSUME Held(Signed), Next PROVE SecuredStep OBVIOUS
  <2>1. \A n \in Node : ApplyBlock(n) => mining[n] \in Signed BY DEF ApplyBlock, Held, Books
  <2> QED BY <2>1, HeldNext
<1> QED BY <1>1, HeldAlways, PTL DEF Spec, HeightsStaySecured

(***************************************************************************)
(* The replay of a node's best branch applies a wallet transaction once,   *)
(* whatever is resubmitted, resent by catch-up, mined twice or forgotten   *)
(* in a crash: a second copy meets a nonce that has moved on.              *)
(***************************************************************************)
THEOREM WalletAppliedOnce ==
  ASSUME Ordered(Hash) PROVE Spec => []WalletTxOnce
<1>1. Held(Signed) => WalletTxOnce
  <2> SUFFICES ASSUME Held(Signed), NEW n \in Node, NEW t \in Tx, t.evm
               PROVE  TimesApplied(chain[n], t) <= 1
    BY DEF WalletTxOnce
  <2>1. Signed \subseteq Block BY DEF Signed
  <2>2. chain[n] \in Seq(Signed) BY DEF Held, Store, Lists
  <2>3. CanonicalBlocks(chain[n], 0) \in Seq(Signed) BY <2>1, <2>2, CanonicalPath
  <2>4. CanonicalBlocks(chain[n], 0) \in Seq(Block) BY <2>1, <2>3
  <2> QED BY <2>4, WalletApplied
<1> QED BY <1>1, HeldAlways, PTL
-----------------------------------------------------------------------------
(* Without crashes: one block per miner and slot, validity, fork choice.    *)

(***************************************************************************)
(* W is the set of blocks that were ever applied.  Every miner made at     *)
(* most one for each of the slots it has left behind, each passed          *)
(* AddBlock's test on a list of blocks that were applied before, and their *)
(* hashes are the published ones.  The blocks that nodes hold now are not  *)
(* enough: sync drops side branches that messages still carry.             *)
(***************************************************************************)
Honest(W) ==
  /\ \A b, c \in W : b.miner = c.miner /\ b.slot = c.slot => b = c
  /\ \A b \in W : b.miner \in Node /\ b.slot < slot[b.miner]
  /\ \A b \in W : \E bs \in Seq(W) : CanAddBlock(bs, b)
  /\ \A n \in Node : mining[n] # None => mining[n].miner = n /\ mining[n].slot = slot[n]
  /\ Published = {GetBlockHash(b) : b \in W}
  /\ \A n \in Node : up[n]

Applied(W) == Held(W) /\ Honest(W)

History == \E W \in SUBSET Signed : Applied(W)

(***************************************************************************)
(* More blocks may be held.                                                *)
(***************************************************************************)
LEMMA HeldMono ==
  ASSUME NEW W, NEW V, W \subseteq V, Store(W) PROVE Store(V)
<1>1. Seq(W) \subseteq Seq(V) OBVIOUS
<1>2. Lists(W) \subseteq Lists(V) BY <1>1 DEF Lists
<1>3. Reply(W) \subseteq Reply(V) BY <1>1 DEF Reply
<1>4. MessageOver(W) \subseteq MessageOver(V) BY <1>3 DEF MessageOver
<1>5. Seq(MessageOver(W)) \subseteq Seq(MessageOver(V)) BY <1>4
<1>6. net \in Queues(V) BY <1>5 DEF Store, Queues
<1>7. disk \in [Node -> File(V) \cup {None}]
  <2>1. File(W) \subseteq File(V) BY <1>2 DEF File
  <2> QED BY <2>1 DEF Store
<1>8. chain \in [Node -> Lists(V)] BY <1>2 DEF Store
<1>9. stored \in [Node -> SUBSET MessageOver(V)] /\ \A n \in Node : IsFiniteSet(stored[n])
  BY <1>4 DEF Store
<1>10. Answer(W) \subseteq Answer(V) BY <1>3 DEF Answer
<1>11. Pending(W) \subseteq Pending(V) BY <1>1, <1>2 DEF Pending
<1>12. Seq(Answer(W)) \subseteq Seq(Answer(V)) BY <1>10
<1>13. Seq(Pending(W)) \subseteq Seq(Pending(V)) BY <1>11
<1>14. Syncs(V) BY <1>12, <1>13 DEF Store, Syncs
<1> QED BY <1>6, <1>7, <1>8, <1>9, <1>14 DEF Store

(***************************************************************************)
(* Blocks with one hash have one miner and one slot.                       *)
(***************************************************************************)
LEMMA OneMaker ==
  ASSUME NEW b \in Block, NEW c \in Block, GetBlockHash(b) = GetBlockHash(c)
  PROVE  b.miner = c.miner /\ b.slot = c.slot
<1>1. <<b.miner, b.slot>> = <<c.miner, c.slot>> BY BlockHash
<1> QED BY <1>1

(***************************************************************************)
(* AddBlock's test depends on the branch under the block only.             *)
(***************************************************************************)
LEMMA SameTest ==
  ASSUME NEW bs \in Seq(Block), NEW cs \in Seq(Block), NEW b, CanAddBlock(bs, b),
         b.parent \in Known(CalculateDepths(cs)),
         \A c \in Range(bs), d \in Range(cs) : GetBlockHash(c) = GetBlockHash(d) => c = d
  PROVE  CanAddBlock(cs, b)
<1>1. b.parent \in Known(CalculateDepths(bs)) BY DEF CanAddBlock
<1>2. b.parent \in Attached(bs) \cup {GenesisHash} /\ b.parent \in Attached(cs) \cup {GenesisHash}
  BY <1>1, KnownHashes
<1>3. BlocksTo(CalculateDepths(bs), b.parent) = BlocksTo(CalculateDepths(cs), b.parent)
  BY <1>2, SameBranch
<1>4. BuildLedgerAtHash(CalculateDepths(bs), b.parent) = BuildLedgerAtHash(CalculateDepths(cs), b.parent)
  BY <1>3 DEF BuildLedgerAtHash
<1> QED BY <1>4 DEF CanAddBlock

(***************************************************************************)
(* A step that publishes nothing.                                          *)
(***************************************************************************)
LEMMA HonestKept ==
  ASSUME NEW W, W \subseteq Signed, Books, Books', Honest(W),
         UNCHANGED up, Published' = Published,
         \A n \in Node : slot'[n] >= slot[n],
         \A n \in Node : mining'[n] # None => mining'[n].miner = n /\ mining'[n].slot = slot'[n]
  PROVE  Honest(W)'
<1>1. ASSUME NEW b \in W PROVE b.miner \in Node /\ b.slot < slot'[b.miner]
  <2>1. b.miner \in Node /\ b.slot < slot[b.miner] /\ slot'[b.miner] >= slot[b.miner] BY DEF Honest
  <2>2. b.slot \in Nat BY SlotAssumption DEF Signed, Block
  <2>3. slot[b.miner] \in Nat /\ slot'[b.miner] \in Nat BY <2>1 DEF Books
  <2> QED BY <2>1, <2>2, <2>3
<1> QED BY <1>1 DEF Honest

(***************************************************************************)
(* The abstract specification's step.                                      *)
(***************************************************************************)
ForkStep == [FC!AbstractNext]_(FC!abstractVars)

(***************************************************************************)
(* A step that moves no tip, plans no move and publishes nothing.          *)
(***************************************************************************)
LEMMA ForkStutter ==
  ASSUME Published' = Published, Tips' = Tips, Plans' = Plans PROVE ForkStep
BY DEF ForkStep, FC!abstractVars

(***************************************************************************)
(* One tip moves to a published block that the fork choice prefers.        *)
(***************************************************************************)
LEMMA ForkLearn ==
  ASSUME NEW n \in Node, Published' = Published, Plans' = Plans,
         NEW h \in Published, h # Tips[n], Beats(h, Tips[n]), Tips' = [Tips EXCEPT ![n] = h]
  PROVE  ForkStep
<1>1. FC!Better(h, Tips[n]) BY DEF FC!Better, Beats
<1>2. FC!Learn(n) BY <1>1 DEF FC!Learn
<1> QED BY <1>2 DEF ForkStep, FC!AbstractNext

(***************************************************************************)
(* A move to a longer published block is planned.                          *)
(***************************************************************************)
LEMMA ForkDecide ==
  ASSUME NEW n \in Node, Published' = Published, Tips' = Tips,
         NEW h \in Published, Len(h) > Len(Tips[n]),
         Plans' = [Plans EXCEPT ![n] = Plans[n] \cup {h}]
  PROVE  ForkStep
<1>1. FC!Decide(n) BY DEF FC!Decide
<1> QED BY <1>1 DEF ForkStep, FC!AbstractNext

(***************************************************************************)
(* A plan is carried out.                                                  *)
(***************************************************************************)
LEMMA ForkMove ==
  ASSUME NEW n \in Node, Published' = Published, NEW h \in Plans[n],
         Tips' = [Tips EXCEPT ![n] = h],
         Plans' = [Plans EXCEPT ![n] = Plans[n] \ {h}] \/ Plans' = Plans
  PROVE  ForkStep
<1>1. FC!Move(n) BY DEF FC!Move
<1> QED BY <1>1 DEF ForkStep, FC!AbstractNext

(***************************************************************************)
(* A miner publishes a block for a slot it has not used.                   *)
(***************************************************************************)
LEMMA ForkPublish ==
  ASSUME NEW n \in Node, NEW b \in Block, b.miner = n, Tips[n] \in Hash,
         b.parent \in Published \cup {GenesisHash},
         \A h \in Published : h[Len(h)] # <<n, b.slot>>,
         Published' = Published \cup {GetBlockHash(b)}, Plans' = Plans,
         Tips' = [Tips EXCEPT ![n] =
                    IF GetBlockHash(b) # Tips[n] /\ Beats(GetBlockHash(b), Tips[n])
                    THEN GetBlockHash(b) ELSE Tips[n]]
  PROVE  ForkStep
<1> DEFINE new == GetBlockHash(b)
<1>1. new = Append(b.parent, <<n, b.slot>>) BY DEF GetBlockHash
<1>2. Len(new) \in Nat /\ Len(Tips[n]) \in Nat BY BlockHash DEF Hash
<1>3. FC!Better(new, Tips[n]) <=> new # Tips[n] /\ Beats(new, Tips[n])
  <2> HIDE DEF new
  <2> QED BY <1>2 DEF FC!Better, Beats
<1>4. b.slot \in Slot BY DEF Block
<1>5. Tips' = [Tips EXCEPT ![n] = IF FC!Better(new, Tips[n]) THEN new ELSE Tips[n]] BY <1>3
<1>6. b.parent \in Published \cup {FC!GenesisHash} BY DEF FC!GenesisHash, GenesisHash
<1> HIDE DEF new
<1>7. Published' = Published \cup {new} BY DEF new
<1>8. FC!Publish(n) BY <1>1, <1>4, <1>5, <1>6, <1>7 DEF FC!Publish
<1> QED BY <1>8 DEF ForkStep, FC!AbstractNext

(***************************************************************************)
(* A step that changes no chain, plans no change and applies no block: the *)
(* slot loop only goes forward.                                            *)
(***************************************************************************)
Quiet ==
  /\ UNCHANGED <<up, chain, seenBlock>> /\ Plans' = Plans
  /\ \A n \in Node : slot'[n] >= slot[n]
  /\ \A n \in Node : mining'[n] # None => mining'[n].miner = n /\ mining'[n].slot = slot'[n]

(***************************************************************************)
(* Such a step keeps what was applied.                                     *)
(***************************************************************************)
LEMMA QuietStep ==
  ASSUME NEW W \in SUBSET Signed, Applied(W), Held(W)', Quiet
  PROVE  History' /\ ForkStep
<1>1. Published' = Published BY DEF Published, Quiet
<1>2. Tips' = Tips BY DEF Tips, Quiet
<1>3. Honest(W)' BY <1>1, HonestKept DEF Applied, Held, Quiet
<1>4. Applied(W)' BY <1>3 DEF Applied
<1>5. Plans' = Plans BY DEF Quiet
<1> QED BY <1>1, <1>2, <1>4, <1>5, ForkStutter DEF History

(***************************************************************************)
(* The actions that leave the chains, the plans and the slots alone.       *)
(***************************************************************************)
LEMMA IdleQuiet ==
  ASSUME NEW W, Applied(W), UNCHANGED <<up, chain, seenBlock, slot, mining>>, Plans' = Plans
  PROVE  Quiet
<1>1. \A n \in Node : slot[n] \in Nat BY DEF Applied, Held, Books
<1> QED BY <1>1 DEF Quiet, Applied, Honest

(***************************************************************************)
(* A step that builds and installs no replacement.                         *)
(***************************************************************************)
LEMMA SamePlans == ASSUME UNCHANGED installing PROVE Plans' = Plans
BY DEF Plans

(***************************************************************************)
(* A lost connection changes no plan.                                      *)
(***************************************************************************)
LEMMA DetachedPlans ==
  ASSUME NEW W, Held(W), NEW cut, installing' = Detached(installing, cut)
  PROVE  Plans' = Plans
<1>1. Syncs(W) BY DEF Held, Store
<1>2. ASSUME NEW n \in Node
      PROVE  {BestLeafHash(k.blocks) : k \in Range(installing'[n])} =
             {BestLeafHash(k.blocks) : k \in Range(installing[n])}
  <2>1. /\ \A k \in Range(installing'[n]) : \E j \in Range(installing[n]) : k.blocks = j.blocks
        /\ \A j \in Range(installing[n]) : \E k \in Range(installing'[n]) : k.blocks = j.blocks
    BY <1>1, DetachedBlocks
  <2>2. PICK A, B : A = Range(installing'[n]) /\ B = Range(installing[n]) OBVIOUS
  <2>3. /\ \A k \in A : \E j \in B : k.blocks = j.blocks
        /\ \A j \in B : \E k \in A : k.blocks = j.blocks
    BY <2>1, <2>2
  <2>4. {BestLeafHash(k.blocks) : k \in A} = {BestLeafHash(k.blocks) : k \in B} BY <2>3
  <2> QED BY <2>2, <2>4
<1> QED BY <1>2 DEF Plans

(***************************************************************************)
(* Every action but the four that change a chain or a plan, and crashes.   *)
(***************************************************************************)
LEMMA QuietNext ==
  ASSUME Ordered(Hash), NEW W \in SUBSET Signed, Applied(W), Next,
         \A n \in Node : ~ApplyBlock(n) /\ ~Crash(n) /\ ~Restart(n),
         \A m, n \in Node : ~HandleBlock(m, n) /\ ~Install(n)
  PROVE  History' /\ ForkStep
<1>1. Held(W)' BY HeldNext DEF Applied
<1>2. SUFFICES Quiet BY <1>1, QuietStep
<1>3. ASSUME NEW n \in Node, NEW t \in Tx, SubmitTx(n, t) PROVE Quiet
  BY <1>3, IdleQuiet, SamePlans DEF SubmitTx, EnterMempool, syncing
<1>4. ASSUME NEW m \in Node, NEW n \in Node, Receive(m, n) PROVE Quiet
  <2>1. HandlePoSTransaction(m, n) \/ HandleChainSyncRequest(m, n) \/ HandleChainSyncResponse(m, n)
    BY <1>4 DEF Receive
  <2>2. UNCHANGED <<up, chain, seenBlock, slot, mining, installing>>
    BY <2>1 DEF HandlePoSTransaction, HandleChainSyncRequest, HandleChainSyncResponse, EnterMempool,
                state, syncing
  <2> QED BY <2>2, IdleQuiet, SamePlans
<1>5. ASSUME NEW n \in Node, FloodTx(n) \/ RequestChainSync(n) \/ SaveNodeState(n) PROVE Quiet
  BY <1>5, IdleQuiet, SamePlans DEF FloodTx, RequestChainSync, SaveNodeState, state, syncing
<1>6. ASSUME NEW n \in Node, NEW m \in Node, Disconnect(n, m) \/ Connect(n, m) PROVE Quiet
  <2>1. CASE Disconnect(n, m)
    <3>1. /\ installing' = Detached(installing, {{n, m}})
          /\ UNCHANGED <<up, chain, seenBlock, slot, mining>>
      BY <2>1 DEF Disconnect, state
    <3>2. Plans' = Plans BY <3>1, DetachedPlans DEF Applied
    <3> QED BY <3>1, <3>2, IdleQuiet
  <2>2. CASE Connect(n, m) BY <2>2, IdleQuiet, SamePlans DEF Connect, state, syncing
  <2> QED BY <1>6, <2>1, <2>2
<1>7. CASE Terminated BY <1>7, IdleQuiet, SamePlans DEF Terminated, vars
<1>8. ASSUME NEW n \in Node, SlotLoop(n) PROVE Quiet
  <2>1. Books /\ \A k \in Node : mining[k] # None => mining[k].miner = k /\ mining[k].slot = slot[k]
    BY DEF Applied, Held, Honest
  <2>2. CASE Tick(n)
    <3>1. /\ mining[n] = None
          /\ UNCHANGED slot \/ slot' = [slot EXCEPT ![n] = slot[n] + 1]
          /\ UNCHANGED <<up, state, mining, syncing>>
      BY <2>2 DEF Tick
    <3> QED BY <2>1, <3>1, SamePlans DEF Quiet, Books, state, syncing
  <2>3. CASE LoseSlot(n)
    <3>1. attempts[n] - 1 \in Nat /\ EndAttempt(n, attempts[n] - 1) /\ UNCHANGED <<up, state, syncing>>
      BY <2>1, <2>3 DEF LoseSlot, Books
    <3>2. /\ \A k \in Node : slot'[k] >= slot[k]
          /\ mining'[n] = None
          /\ \A k \in Node : k # n => mining'[k] = mining[k] /\ slot'[k] = slot[k]
      BY <2>1, <3>1, EndAttemptStep
    <3> QED BY <2>1, <3>1, <3>2, SamePlans DEF Quiet, state, syncing
  <2>4. CASE BuildCandidate(n)
    <3>1. /\ \A k \in Node : slot'[k] >= slot[k] /\ (k # n => mining'[k] = mining[k] /\ slot'[k] = slot[k])
          /\ mining'[n] # None => mining'[n].miner = n /\ mining'[n].slot = slot'[n]
      BY <2>4, BuildCandidateStep DEF Applied
    <3>2. UNCHANGED <<up, chain, seenBlock, installing>> BY <2>4 DEF BuildCandidate, syncing
    <3> QED BY <2>1, <3>1, <3>2, SamePlans DEF Quiet
  <2> QED BY <1>8, <2>2, <2>3, <2>4 DEF SlotLoop
<1> QED BY <1>3, <1>4, <1>5, <1>6, <1>7, <1>8 DEF Next
(***************************************************************************)
(* A step in which n's chain alone changes and nothing is published: the   *)
(* tip stays or moves to a better block that was applied.                  *)
(***************************************************************************)
LEMMA LearnStep ==
  ASSUME NEW W \in SUBSET Signed, Applied(W), Held(W)', NEW n \in Node,
         \A k \in Node : k # n => chain'[k] = chain[k],
         Published' = Published, UNCHANGED <<up, slot, mining, installing>>,
         LET t == BestLeafHash(chain'[n])
         IN  t # BestLeafHash(chain[n]) =>
               Beats(t, BestLeafHash(chain[n])) /\ \E b \in W : GetBlockHash(b) = t
  PROVE  History' /\ ForkStep
<1> DEFINE t == BestLeafHash(chain'[n])
           u == BestLeafHash(chain[n])
<1>1. \A k \in Node : slot'[k] >= slot[k] BY DEF Applied, Held, Books
<1>2. Honest(W)'
  <2>1. \A k \in Node : mining'[k] # None => mining'[k].miner = k /\ mining'[k].slot = slot'[k]
    BY DEF Applied, Honest
  <2> QED BY <1>1, <2>1, HonestKept DEF Applied, Held
<1>3. Applied(W)' BY <1>2 DEF Applied
<1>4. History' BY <1>3 DEF History
<1>5. Tips' = [Tips EXCEPT ![n] = t] /\ Tips[n] = u BY DEF Tips
<1>6. Plans' = Plans BY SamePlans
<1> HIDE DEF t, u
<1>7. CASE t = u
  <2>1. Tips' = Tips
    <3>1. \A k \in Node : Tips'[k] = Tips[k] BY <1>5, <1>7 DEF Tips
    <3> QED BY <3>1 DEF Tips
  <2> QED BY <1>4, <1>6, <2>1, ForkStutter
<1>8. CASE t # u
  <2>1. Beats(t, u) /\ t \in Published BY <1>8 DEF t, u, Applied, Honest
  <2> QED BY <1>4, <1>5, <1>8, <1>6, <2>1, ForkLearn
<1> QED BY <1>7, <1>8

(***************************************************************************)
(* A block from a peer was published before.                               *)
(***************************************************************************)
LEMMA HandleBlockLearns ==
  ASSUME Ordered(Hash), NEW W \in SUBSET Signed, Applied(W), NEW m \in Node, NEW n \in Node,
         HandleBlock(m, n)
  PROVE  History' /\ ForkStep
<1> DEFINE msg == Head(net[m][n])
           b == msg.block
<1>1. Held(W) /\ Held(W)' BY HandleBlockStep DEF Applied
<1>2. net \in Queues(W) /\ Arrived(m, n, "block") BY <1>1 DEF Held, Store, HandleBlock
<1>3. msg \in MessageOver(W) /\ msg.type = "block" BY <1>2, MessageRead
<1>4. UNCHANGED <<up, slot, mining, installing>> BY DEF HandleBlock, syncing
<1>5. UNCHANGED state \/ (CanAddBlock(chain[n], b) /\ Adopt(n, b)) BY DEF HandleBlock
<1> HIDE DEF msg
<1>6. b \in W BY <1>3, MessageFields
<1> HIDE DEF b
<1>7. CASE UNCHANGED state
  <2>1. Quiet BY <1>4, <1>7, IdleQuiet, SamePlans DEF state
  <2> QED BY <1>1, <2>1, QuietStep
<1>8. CASE CanAddBlock(chain[n], b) /\ Adopt(n, b)
  <2>1. /\ seenBlock' = [seenBlock EXCEPT ![n] = seenBlock[n] \cup {GetBlockHash(b)}]
        /\ \A k \in Node : k # n => chain'[k] = chain[k]
        /\ BestLeafHash(chain'[n]) =
             IF GetBlockHash(b) # BestLeafHash(chain[n]) /\ Beats(GetBlockHash(b), BestLeafHash(chain[n]))
             THEN GetBlockHash(b) ELSE BestLeafHash(chain[n])
    BY <1>1, <1>6, <1>8, AdoptStep
  <2>2. GetBlockHash(b) \in Published BY <1>6 DEF Applied, Honest
  <2>3. Published' = Published BY <1>1, <2>1, <2>2 DEF Published, Held, Books
  <2> QED BY <1>1, <1>4, <1>6, <2>1, <2>3, LearnStep
<1> QED BY <1>5, <1>7, <1>8

(***************************************************************************)
(* An installer plans to move to a longer block, which was published       *)
(* before, or refuses.                                                     *)
(***************************************************************************)
LEMMA BuildReplacementDecides ==
  ASSUME Ordered(Hash), NEW W \in SUBSET Signed, Applied(W), NEW n \in Node,
         NEW i \in DOMAIN responses[n], BuildReplacement(n, i)
  PROVE  History' /\ ForkStep
<1>1. /\ Held(W) /\ Held(W)'
      /\ \/ UNCHANGED installing
         \/ \E j \in Pending(W) :
              /\ installing' = [installing EXCEPT ![n] = Append(installing[n], j)]
              /\ Len(j.local) = BestHeight(chain[n])
  BY BuildReplacementStep DEF Applied
<1>2. UNCHANGED <<up, chain, seenBlock, slot, mining>> BY DEF BuildReplacement, state
<1>3. CASE UNCHANGED installing
  <2>1. Quiet BY <1>2, <1>3, IdleQuiet, SamePlans
  <2> QED BY <1>1, <2>1, QuietStep
<1>4. CASE ~(UNCHANGED installing)
  <2>1. PICK j \in Pending(W) :
          /\ installing' = [installing EXCEPT ![n] = Append(installing[n], j)]
          /\ Len(j.local) = BestHeight(chain[n])
    BY <1>1, <1>4
  <2>2. installing \in [Node -> Seq(Pending(W))] BY <1>1 DEF Held, Store, Syncs
  <2>3. Range(Append(installing[n], j)) = Range(installing[n]) \cup {j} BY <2>2, Appended
  <2>4. PICK h : h = BestLeafHash(j.blocks) OBVIOUS
  <2>5. ASSUME NEW x \in Node PROVE Plans'[x] = IF x = n THEN Plans[n] \cup {h} ELSE Plans[x]
    <3>1. CASE x = n
      <4>1. PICK B : B = Range(installing[n]) OBVIOUS
      <4>2. Range(installing'[n]) = B \cup {j} BY <2>1, <2>2, <2>3, <4>1
      <4>3. Plans'[n] = {BestLeafHash(k.blocks) : k \in B \cup {j}} BY <4>2 DEF Plans
      <4>4. Plans[n] = {BestLeafHash(k.blocks) : k \in B} BY <4>1 DEF Plans
      <4> QED BY <2>4, <3>1, <4>3, <4>4
    <3>2. CASE x # n
      <4>1. installing'[x] = installing[x] BY <2>1, <2>2, <3>2
      <4> QED BY <3>2, <4>1 DEF Plans
    <3> QED BY <3>1, <3>2
  <2>6. Plans' = [Plans EXCEPT ![n] = Plans[n] \cup {h}]
    <3>1. Plans' = [x \in Node |-> Plans'[x]] /\ Plans = [x \in Node |-> Plans[x]] BY DEF Plans
    <3> QED BY <2>5, <3>1
  <2>7. Published' = Published /\ Tips' = Tips BY <1>2 DEF Published, Tips
  <2>8. h \in Published BY <2>4 DEF Pending, Applied, Honest
  <2>9. Len(h) > Len(Tips[n]) BY <2>1, <2>4 DEF Pending, Tips, BestHeight
  <2>10. ForkStep BY <2>6, <2>7, <2>8, <2>9, ForkDecide
  <2>11. \A k \in Node : slot'[k] >= slot[k] BY <1>1, <1>2 DEF Held, Books
  <2>12. Honest(W)'
    <3>1. \A k \in Node : mining'[k] # None => mining'[k].miner = k /\ mining'[k].slot = slot'[k]
      BY <1>2 DEF Applied, Honest
    <3> QED BY <1>1, <1>2, <2>7, <2>11, <3>1, HonestKept DEF Applied, Held
  <2> QED BY <1>1, <2>10, <2>12 DEF History, Applied
<1> QED BY <1>3, <1>4

(***************************************************************************)
(* A replacement is installed: a plan is carried out.                      *)
(***************************************************************************)
LEMMA ReplaceBlocksMoves ==
  ASSUME Ordered(Hash), NEW W \in SUBSET Signed, Applied(W), NEW n \in Node,
         NEW i \in DOMAIN installing[n], ReplaceBlocks(n, i)
  PROVE  History' /\ ForkStep
<1>1. PICK k : k = installing[n][i] OBVIOUS
<1>2. PICK A, B : A = Range(installing'[n]) /\ B = Range(installing[n]) OBVIOUS
<1>3. /\ Held(W) /\ Held(W)'
      /\ \A x \in Node : x # n => chain'[x] = chain[x] /\ installing'[x] = installing[x]
      /\ chain'[n] = k.blocks /\ k \in B /\ A \subseteq B /\ B \subseteq A \cup {k}
  BY <1>1, <1>2, ReplaceBlocksStep DEF Applied
<1>4. UNCHANGED <<up, seenBlock, slot, mining>> BY DEF ReplaceBlocks
<1>5. PICK h : h = BestLeafHash(k.blocks) OBVIOUS
<1>6. Tips' = [Tips EXCEPT ![n] = h]
  <2>1. Tips' = [x \in Node |-> Tips'[x]] /\ Tips = [x \in Node |-> Tips[x]] BY DEF Tips
  <2>2. \A x \in Node : Tips'[x] = IF x = n THEN h ELSE Tips[x] BY <1>3, <1>5 DEF Tips
  <2> QED BY <2>1, <2>2
<1>7. Plans'[n] = {BestLeafHash(j.blocks) : j \in A} /\ Plans[n] = {BestLeafHash(j.blocks) : j \in B}
  BY <1>2 DEF Plans
<1>8. Plans'[n] = Plans[n] \ {h} \/ Plans'[n] = Plans[n] BY <1>3, <1>5, <1>7
<1>9. h \in Plans[n] BY <1>3, <1>5, <1>7
<1>10. Plans' = [Plans EXCEPT ![n] = Plans[n] \ {h}] \/ Plans' = Plans
  <2>1. Plans' = [x \in Node |-> Plans'[x]] /\ Plans = [x \in Node |-> Plans[x]] BY DEF Plans
  <2>2. \A x \in Node : x # n => Plans'[x] = Plans[x] BY <1>3 DEF Plans
  <2> QED BY <1>8, <2>1, <2>2
<1>11. Published' = Published BY <1>4 DEF Published
<1>12. ForkStep BY <1>6, <1>9, <1>10, <1>11, ForkMove
<1>13. \A x \in Node : slot'[x] >= slot[x] BY <1>3, <1>4 DEF Held, Books
<1>14. Honest(W)'
  <2>1. \A x \in Node : mining'[x] # None => mining'[x].miner = x /\ mining'[x].slot = slot'[x]
    BY <1>4 DEF Applied, Honest
  <2> QED BY <1>3, <1>4, <1>11, <1>13, <2>1, HonestKept DEF Applied, Held
<1> QED BY <1>3, <1>12, <1>14 DEF History, Applied

(***************************************************************************)
(* A miner applies its candidate, which is a new block, or AddBlock        *)
(* refuses it and the slot is over.                                        *)
(***************************************************************************)
LEMMA ApplyBlockPublishes ==
  ASSUME Ordered(Hash), NEW W \in SUBSET Signed, Applied(W), NEW n \in Node, ApplyBlock(n)
  PROVE  History' /\ ForkStep
<1>1. Held(W) /\ Books /\ Store(W) /\ Honest(W) BY DEF Applied, Held
<1>b. PICK b \in Signed : b = mining[n] BY <1>1 DEF ApplyBlock, Books
<1>v. PICK V \in SUBSET Signed : V = W \cup {b} OBVIOUS
<1>2. mining[n] # None /\ b.miner = n /\ b.slot = slot[n] /\ attempts[n] - 1 \in Nat
  BY <1>1, <1>b DEF ApplyBlock, Books, Honest
<1>3. W \subseteq V /\ mining[n] \in V /\ b \in V BY <1>b, <1>v
<1>4. \/ CanAddBlock(chain[n], b) /\ Adopt(n, b) /\ EndAttempt(n, 0)
      \/ EndAttempt(n, attempts[n] - 1) /\ UNCHANGED <<state, net>>
  BY <1>b DEF ApplyBlock
<1>5. UNCHANGED <<up, disk, responses, installing>> BY DEF ApplyBlock, syncing
<1>6. Held(V) BY <1>1, <1>3, HeldMono DEF Held
<1>7. Held(V)' BY <1>3, <1>6, ApplyBlockStep
<1>8. CASE EndAttempt(n, attempts[n] - 1) /\ UNCHANGED <<state, net>>
  <2>0. Syncs(W)' BY <1>1, <1>5 DEF Store, Syncs
  <2>1. Store(W)' BY <1>1, <1>5, <1>8, <2>0 DEF Store, state
  <2>2. Held(W)' BY <1>7, <2>1 DEF Held
  <2>3. /\ \A k \in Node : slot'[k] >= slot[k]
        /\ mining'[n] = None
        /\ \A k \in Node : k # n => mining'[k] = mining[k] /\ slot'[k] = slot[k]
    BY <1>1, <1>2, <1>8, EndAttemptStep
  <2>4. Quiet BY <1>1, <1>5, <1>8, <2>3, SamePlans DEF Quiet, Honest, state
  <2> QED BY <2>2, <2>4, QuietStep
<1>9. CASE CanAddBlock(chain[n], b) /\ Adopt(n, b) /\ EndAttempt(n, 0)
  <2>1. /\ slot'[n] = slot[n] + 1 /\ mining'[n] = None
        /\ \A k \in Node : slot'[k] >= slot[k]
        /\ \A k \in Node : k # n => mining'[k] = mining[k] /\ slot'[k] = slot[k]
    BY <1>1, <1>9, EndAttemptStep
  <2>2. /\ seenBlock' = [seenBlock EXCEPT ![n] = seenBlock[n] \cup {GetBlockHash(b)}]
        /\ \A k \in Node : k # n => chain'[k] = chain[k]
        /\ BestLeafHash(chain'[n]) =
             IF GetBlockHash(b) # BestLeafHash(chain[n]) /\ Beats(GetBlockHash(b), BestLeafHash(chain[n]))
             THEN GetBlockHash(b) ELSE BestLeafHash(chain[n])
    BY <1>3, <1>6, <1>9, AdoptStep
  <2>3. Published' = Published \cup {GetBlockHash(b)} BY <1>1, <2>2 DEF Published, Books
  <2>4. Published' = {GetBlockHash(c) : c \in V} BY <1>1, <1>v, <2>3 DEF Honest
  <2>5. \A c \in W : c.miner = n => c.slot < slot[n] BY <1>1 DEF Honest
  <2>6. \A c \in W : ~(c.miner = n /\ c.slot = slot[n])
    <3>1. slot[n] \in Nat BY <1>1 DEF Books
    <3> QED BY <2>5, <3>1
  <2>7. \A c, d \in V : c.miner = d.miner /\ c.slot = d.slot => c = d
    BY <1>1, <1>2, <1>v, <2>6 DEF Honest
  <2>8. ASSUME NEW c \in V PROVE c.miner \in Node /\ c.slot < slot'[c.miner]
    <3>1. \A k \in Node : slot[k] \in Nat /\ slot'[k] \in Nat BY <1>1, <1>7 DEF Held, Books
    <3>2. CASE c = b BY <1>2, <2>1, <3>1, <3>2
    <3>3. CASE c \in W
      <4>1. c.miner \in Node /\ c.slot < slot[c.miner] /\ c.slot \in Nat
        BY <1>1, <3>3, SlotAssumption DEF Honest, Signed, Block
      <4> QED BY <2>1, <3>1, <4>1
    <3> QED BY <1>v, <3>2, <3>3
  <2>9. ASSUME NEW c \in V PROVE \E bs \in Seq(V) : CanAddBlock(bs, c)
    <3>1. Seq(W) \subseteq Seq(V) BY <1>3
    <3>2. chain[n] \in Seq(W) BY <1>1 DEF Store, Lists
    <3>3. CASE c = b BY <1>9, <3>1, <3>2, <3>3
    <3>4. CASE c \in W BY <1>1, <3>1, <3>4 DEF Honest
    <3> QED BY <1>v, <3>3, <3>4
  <2>10. \A k \in Node : mining'[k] # None => mining'[k].miner = k /\ mining'[k].slot = slot'[k]
    BY <1>1, <2>1 DEF Honest
  <2>11. Honest(V)' BY <1>1, <1>5, <2>4, <2>7, <2>8, <2>9, <2>10 DEF Honest
  <2>12. History' BY <1>7, <2>11 DEF History, Applied
  <2>13. b.parent \in Published \cup {GenesisHash}
    <3>1. chain[n] \in Seq(W) /\ chain[n] \in Seq(Block) BY <1>1 DEF Store, Lists, Signed
    <3>2. b.parent \in Attached(chain[n]) \cup {GenesisHash}
      BY <1>9, <3>1, KnownHashes DEF CanAddBlock
    <3>3. HashesIn(chain[n]) \subseteq Published
      <4>1. \A c \in Range(chain[n]) : c \in W BY <3>1 DEF Range
      <4> QED BY <1>1, <4>1 DEF HashesIn, Honest
    <3> QED BY <3>2, <3>3 DEF Attached
  <2>14. ASSUME NEW h \in Published PROVE h[Len(h)] # <<n, b.slot>>
    <3>1. PICK c \in W : h = GetBlockHash(c) BY <1>1 DEF Honest
    <3>2. c \in Block BY DEF Signed
    <3>3. h[Len(h)] = <<c.miner, c.slot>> BY <3>1, <3>2, BlockHash
    <3>4. <<c.miner, c.slot>> # <<n, b.slot>> BY <1>2, <2>6
    <3> QED BY <3>3, <3>4
  <2>15. Tips[n] \in Hash
    <3>1. chain[n] \in Seq(W) /\ W \in SUBSET Block BY <1>1 DEF Store, Lists, Signed
    <3> QED BY <3>1, TipTyped DEF Tips
  <2>16. Tips' = [Tips EXCEPT ![n] =
                    IF GetBlockHash(b) # Tips[n] /\ Beats(GetBlockHash(b), Tips[n])
                    THEN GetBlockHash(b) ELSE Tips[n]]
    BY <2>2 DEF Tips
  <2>17. b \in Block /\ b.miner = n BY <1>2 DEF Signed
  <2>18. Plans' = Plans BY <1>5, SamePlans
  <2>19. ForkStep BY <2>3, <2>13, <2>14, <2>15, <2>16, <2>17, <2>18, ForkPublish
  <2> QED BY <2>12, <2>19
<1> QED BY <1>4, <1>8, <1>9
(***************************************************************************)
(* Nothing was applied yet.                                                *)
(***************************************************************************)
LEMMA HistoryInit == ASSUME Init PROVE History /\ FC!AbstractInit
<1>1. Held({}) BY HeldInit
<1>2. Published = {} BY DEF Init, Published
<1>3. Honest({}) BY <1>2 DEF Init, Honest
<1>4. {} \in SUBSET Signed OBVIOUS
<1>5. History BY <1>1, <1>3, <1>4 DEF History, Applied
<1>6. ASSUME NEW n \in Node PROVE BestLeafHash(chain[n]) = GenesisHash
  <2>1. chain[n] = << >> BY DEF Init
  <2>2. << >> \in Seq(Block) /\ Range(<< >>) = {} BY DEF Range
  <2>3. HashesIn(<< >>) = {} BY <2>2 DEF HashesIn
  <2>4. Attached(<< >>) = {} BY <2>3 DEF Attached
  <2>5. Known(CalculateDepths(<< >>)) = {GenesisHash} BY <2>2, <2>4, KnownHashes
  <2>6. BestLeafHash(<< >>) = CHOOSE h \in {GenesisHash} :
          \A g \in {GenesisHash} \ {h} : Len(g) < Len(h) \/ (Len(g) = Len(h) /\ HashBefore(h, g))
    BY <2>5 DEF BestLeafHash, GetLeafHash
  <2> QED BY <2>1, <2>6
<1>7. Tips = [n \in Node |-> GenesisHash] BY <1>6 DEF Tips
<1>8. Plans = [n \in Node |-> {}]
  <2>1. \A n \in Node : Range(installing[n]) = {} BY DEF Init, Range
  <2> QED BY <2>1 DEF Plans
<1>9. FC!AbstractInit BY <1>2, <1>7, <1>8 DEF FC!AbstractInit, FC!GenesisHash, GenesisHash
<1> QED BY <1>5, <1>9

(***************************************************************************)
(* Every step of a network in which no node crashes.                       *)
(***************************************************************************)
LEMMA HistoryNext ==
  ASSUME Ordered(Hash), MaxCrashes = 0, History, [Next]_vars
  PROVE  History' /\ ForkStep
<1>1. PICK W \in SUBSET Signed : Applied(W) BY DEF History
<1>2. CASE UNCHANGED vars
  <2>1. Held(W)' BY <1>1, <1>2, HeldStutter DEF Applied
  <2>2. Quiet BY <1>1, <1>2, IdleQuiet, SamePlans DEF vars
  <2> QED BY <1>1, <2>1, <2>2, QuietStep
<1>3. CASE Next
  <2>1. \A n \in Node : ~Crash(n)
    <3>1. crashes \in Nat BY <1>1 DEF Applied, Held, Books
    <3> QED BY <3>1 DEF Crash
  <2>2. \A n \in Node : ~Restart(n) BY <1>1 DEF Restart, Applied, Honest
  <2>3. CASE \E n \in Node : ApplyBlock(n) BY <1>1, <2>3, ApplyBlockPublishes
  <2>4. CASE \E m, n \in Node : HandleBlock(m, n) BY <1>1, <2>4, HandleBlockLearns
  <2>5. CASE \E n \in Node : Install(n)
    BY <1>1, <2>5, BuildReplacementDecides, ReplaceBlocksMoves DEF Install
  <2> QED BY <1>1, <1>3, <2>1, <2>2, <2>3, <2>4, <2>5, QuietNext
<1> QED BY <1>2, <1>3

(***************************************************************************)
(* The invariant of the network without crashes.                           *)
(***************************************************************************)
LEMMA HistoryAlways ==
  ASSUME Ordered(Hash), MaxCrashes = 0 PROVE Spec => []History
<1>1. Init => History BY HistoryInit
<1>2. History /\ [Next]_vars => History' BY HistoryNext
<1> QED BY <1>1, <1>2, PTL DEF Spec

(***************************************************************************)
(* Without crashes, and without /admin/mine, no two blocks with one hash   *)
(* differ, wherever they are stored: the slot loop never uses a slot       *)
(* twice, although the candidate is built and applied in two steps, and    *)
(* hashes leave transactions out.                                          *)
(***************************************************************************)
THEOREM MinersKeepToOneBlock ==
  ASSUME Ordered(Hash), MaxCrashes = 0 PROVE Spec => []OneBlockPerHash
<1>1. History => OneBlockPerHash
  <2> SUFFICES ASSUME NEW W \in SUBSET Signed, Applied(W) PROVE OneBlockPerHash BY DEF History
  <2>1. ASSUME NEW b \in BlocksHeld PROVE b \in W
    <3>1. PICK n \in Node : b \in Range(chain[n]) BY DEF BlocksHeld
    <3>2. chain[n] \in Seq(W) BY DEF Applied, Held, Store, Lists
    <3> QED BY <3>1, <3>2 DEF Range
  <2>2. W \subseteq Block BY DEF Signed
  <2> QED BY <2>1, <2>2, OneMaker DEF OneBlockPerHash, Applied, Honest
<1> QED BY <1>1, HistoryAlways, PTL

(***************************************************************************)
(* Without crashes every block a node stores passes AddBlock's test on the *)
(* branch it sits on, although chain sync installs blocks without it.      *)
(***************************************************************************)
THEOREM SyncInstallsValidBlocks ==
  ASSUME Ordered(Hash), MaxCrashes = 0 PROVE Spec => []ChainsStayValid
<1>1. History => ChainsStayValid
  <2> SUFFICES ASSUME NEW W \in SUBSET Signed, Applied(W), NEW n \in Node, NEW b \in Range(chain[n])
               PROVE  CanAddBlock(chain[n], b)
    BY DEF History, ChainsStayValid
  <2>1. chain[n] \in Seq(W) /\ Rooted(chain[n]) BY DEF Applied, Held, Store, Lists
  <2>2. b \in W BY <2>1 DEF Range
  <2>3. PICK bs \in Seq(W) : CanAddBlock(bs, b) BY <2>2 DEF Applied, Honest
  <2>4. W \subseteq Block /\ chain[n] \in Seq(Block) /\ bs \in Seq(Block) BY <2>1 DEF Signed
  <2>5. \A c \in Range(bs), d \in Range(chain[n]) : GetBlockHash(c) = GetBlockHash(d) => c = d
    <3>1. Range(bs) \subseteq W /\ Range(chain[n]) \subseteq W BY <2>1 DEF Range
    <3> QED BY <2>4, <3>1, OneMaker DEF Applied, Honest
  <2>6. b.parent \in Known(CalculateDepths(chain[n]))
    <3>1. b.signed /\ \A i \in 1 .. Len(chain[n]) : chain[n][i].signed BY <2>1, <2>2 DEF Signed
    <3>2. PICK i \in 1 .. Len(chain[n]) : b = chain[n][i] BY <2>1 DEF Range
    <3>3. GetBlockHash(b) \in Attached(chain[n]) BY <2>1, <2>4, <3>1, <3>2, RootedAttached
    <3>4. b.parent \in Attached(chain[n]) \cup {GenesisHash} BY <2>4, <3>1, <3>3, AttachedByParent
    <3> QED BY <2>4, <3>4, KnownHashes
  <2> QED BY <2>3, <2>4, <2>5, <2>6, SameTest
<1> QED BY <1>1, HistoryAlways, PTL

(***************************************************************************)
(* Without crashes the network implements the abstract fork choice: every  *)
(* step of gossip, sync, mining and lost connections publishes one block   *)
(* in an unused slot, moves one tip to a better published block, plans a   *)
(* move to a longer one, carries out a plan, which may be stale by then,   *)
(* or does none of these.                                                  *)
(***************************************************************************)
THEOREM NetworkImplementsForkChoice ==
  ASSUME Ordered(Hash), MaxCrashes = 0 PROVE Spec => ImplementsForkChoice
<1>1. Init => FC!AbstractInit BY HistoryInit
<1>2. History /\ [Next]_vars => [FC!AbstractNext]_(FC!abstractVars) BY HistoryNext DEF ForkStep
<1> QED BY <1>1, <1>2, HistoryAlways, PTL DEF Spec, ImplementsForkChoice, FC!AbstractSpec
=============================================================================
