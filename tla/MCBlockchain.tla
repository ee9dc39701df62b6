----------------------------- MODULE MCBlockchain -----------------------------
(***************************************************************************)
(* Two miners, v with the whole stake and the newcomer u, and a wallet w.  *)
(* v draws badly in slot 2, so it loses there unless the lottery is easy;  *)
(* u spends what it earned by mining, or issues gold, opens a pool with it *)
(* and buys back a coin that it deposited.                                 *)
(***************************************************************************)
EXTENDS Explorer

CONSTANTS v, u, w, card, gold

Pay(n, a, b, k) ==
  [id |-> n, kind |-> "transfer", evm |-> FALSE, signed |-> TRUE, ok |-> TRUE,
   from |-> a, to |-> b, amount |-> k, amountB |-> 0, nonce |-> 0,
   token |-> card, pool |-> {PKN}, assetA |-> PKN, assetB |-> PKN]

pay    == Pay("pay", v, w, 3)
spend  == Pay("spend", u, v, 2)
wallet == [Pay("wallet", w, u, 1) EXCEPT !.evm = TRUE]
mint   == [Pay("mint", v, u, 1) EXCEPT !.kind = "mint"]

Trade(n, k, x, y) ==
  [Pay(n, u, u, x) EXCEPT !.kind = k, !.amountB = y, !.pool = {PKN, gold}, !.assetA = gold, !.assetB = PKN]

issue == Trade("issue", "asset_credit", 9, 0)
open  == Trade("open", "amm_create_pool", 0, 0)
fund  == Trade("fund", "amm_add_liquidity", 4, 3)
swap  == Trade("swap", "amm_swap", 5, 0)

MCTx == {pay, spend, wallet, mint, issue, open, fund, swap}
MCTxId == {"pay", "spend", "wallet", "mint", "issue", "open", "fund", "swap"}
MCTxLists == {<< >>, <<pay, wallet>>, <<spend, mint>>, <<pay, pay>>, <<issue, open, fund, swap>>}

MCGenesis == [a \in Account |-> IF a = v THEN 4 ELSE 0]

MCDraw == [a \in Native |-> [s \in Slot |-> IF a = v /\ s = 2 THEN 3000000 ELSE 1000 * s]]

MCConfig == [hardness |-> 2, forkHeight |-> 2, min |-> 1, max |-> 4, window |-> 2,
             fastTarget |-> 1, idleTarget |-> 2]

\* Hashes of one length compare like the last pair in which they differ.
Rank(e) == 10 * e[2] + (IF e[1] = u THEN 0 ELSE 1)

MCHashBefore(g, h) ==
  LET k == Max({i \in 1 .. Len(g) : g[i] # h[i]})
  IN  Rank(g[k]) < Rank(h[k])

(***************************************************************************)
(* The order that the proofs assume, for hashes up to length 2.            *)
(***************************************************************************)
ASSUME MCOrderAssumption == Ordered(UNION {[1 .. k -> Native \X Slot] : k \in 0 .. 2})
=============================================================================
