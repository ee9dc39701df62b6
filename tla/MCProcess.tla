------------------------------- MODULE MCProcess ------------------------------
(***************************************************************************)
(* One node n1 with two connections and one request at a time.  Its peer   *)
(* n2 has mined two blocks, the first with a wallet transaction, and sends *)
(* them as blocks or as sync responses; the wallet submits that            *)
(* transaction, a replacement for it and its successor, and the operator   *)
(* mints.                                                                  *)
(***************************************************************************)
EXTENDS Process, TLC

CONSTANTS n1, n2, w, card, r1, r2, q

Wallet(id, nonce, k) ==
  [id |-> id, kind |-> "transfer", evm |-> TRUE, signed |-> TRUE, ok |-> TRUE,
   from |-> w, to |-> n1, amount |-> k, amountB |-> 0, nonce |-> nonce,
   token |-> card, pool |-> {PKN}, assetA |-> PKN, assetB |-> PKN]

first  == Wallet("first", 0, 1)
faster == Wallet("faster", 0, 0)
second == Wallet("second", 1, 1)

Bonus == [Wallet("bonus", 0, 1) EXCEPT !.kind = "mint", !.evm = FALSE, !.from = n1, !.to = w]

MCTxId == {"first", "faster", "second", "bonus"}
AllTxs == {first, faster, second, Bonus}
FirstTx == {first}

Staked == [x \in Account |-> IF x = w THEN 2 ELSE 3]

(***************************************************************************)
(* n1 wins slots 1 and 3, slot 2 if the hardness has been raised, and      *)
(* slot 4 never.                                                           *)
(***************************************************************************)
MCDraw == [x \in Native |-> IF x = n1 THEN <<0, 7, 2, 20>> ELSE <<0, 1, 2, 3>>]

MCConfig == [hardness |-> 2, forkHeight |-> 2, min |-> 1, max |-> 4, window |-> 2,
             fastTarget |-> 1, idleTarget |-> 2]

Position(x) == IF x = n1 THEN 1 ELSE 2

MCHashBefore(g, h) ==
  LET k == Max({i \in 1 .. Len(g) : g[i] # h[i]})
  IN  10 * g[k][2] + Position(g[k][1]) < 10 * h[k][2] + Position(h[k][1])

(***************************************************************************)
(* The order that the proofs assume, for hashes up to length 2.            *)
(***************************************************************************)
ASSUME MCOrderAssumption == Ordered(UNION {[1 .. k -> Native \X Slot] : k \in 0 .. 2})

b1 == NewCandidateBlock(n2, 1, GenesisHash, <<first>>)
b2 == NewCandidateBlock(n2, 2, GetBlockHash(b1), << >>)

MCPeerBlocks == {b1, b2}
MCPeerReplies == {SyncReply(<<b1, b2>>, from) : from \in 0 .. 2} \cup {SyncReply(<<b1>>, 1)}

(***************************************************************************)
(* What the proofs ask of the replies: AddBlock took their blocks.         *)
(***************************************************************************)
ASSUME MCVouched == CanAddBlock(<< >>, b1) /\ CanAddBlock(<<b1>>, b2)

Readers == Permutations({r1, r2})
=============================================================================
