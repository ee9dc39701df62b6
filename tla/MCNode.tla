-------------------------------- MODULE MCNode --------------------------------
(***************************************************************************)
(* Two mining nodes; one payment signed with an account key and one        *)
(* wallet transaction.                                                     *)
(***************************************************************************)
EXTENDS Node

CONSTANTS n1, n2, w, card

Pay(id, from, to, k) ==
  [id |-> id, kind |-> "transfer", evm |-> FALSE, signed |-> TRUE, ok |-> TRUE,
   from |-> from, to |-> to, amount |-> k, amountB |-> 0, nonce |-> 0,
   token |-> card, pool |-> {PKN}, assetA |-> PKN, assetB |-> PKN]

pay    == Pay("pay", n1, n2, 1)
wallet == [Pay("wallet", w, n1, 1) EXCEPT !.evm = TRUE]

NoTx == {}
NativeTx == {pay}
OneWalletTx == {wallet}
MCTxId == {"pay", "wallet"}

Staked == [x \in Account |-> IF x = w THEN 2 ELSE 3]

\* Every node wins every slot.
MCDraw == [x \in Native |-> [s \in Slot |-> s - 1]]

\* n1 wins every slot, n2 slot 2 only.
RivalDraw == [x \in Native |-> [s \in Slot |-> IF x = n2 /\ s # 2 THEN 10000000 ELSE s - 1]]

\* Both win slot 2 and lose the others.
LateDraw == [x \in Native |-> [s \in Slot |-> IF s = 2 THEN 0 ELSE 10000000]]

MCConfig == [hardness |-> 2, forkHeight |-> 2, min |-> 1, max |-> 4, window |-> 2,
             fastTarget |-> 1, idleTarget |-> 2]

Position(x) == IF x = n1 THEN 1 ELSE 2

MCHashBefore(g, h) ==
  LET k == Max({i \in 1 .. Len(g) : g[i] # h[i]})
  IN  10 * g[k][2] + Position(g[k][1]) < 10 * h[k][2] + Position(h[k][1])

(***************************************************************************)
(* The order that the proofs assume, for hashes up to length 2.            *)
(***************************************************************************)
ASSUME MCOrderAssumption == Ordered(UNION {[1 .. k -> Native \X Slot] : k \in 0 .. 2})
=============================================================================
