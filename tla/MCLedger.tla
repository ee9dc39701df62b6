------------------------------- MODULE MCLedger -------------------------------
(***************************************************************************)
(* Small instance of LedgerSpec and LotterySpec: a validator v, a native   *)
(* user u that holds nothing at genesis and becomes a validator by mining  *)
(* or by a mint, and a wallet w; PKN, WPKN and a third asset; one token.   *)
(***************************************************************************)
EXTENDS LotterySpec

CONSTANTS v, u, w, WPKN, USDT, card

Pair == {PKN, WPKN}

Blank ==
  [id |-> "", kind |-> "transfer", evm |-> FALSE, signed |-> TRUE, ok |-> TRUE,
   from |-> v, to |-> v, amount |-> 0, amountB |-> 0, nonce |-> 0,
   token |-> card, pool |-> Pair, assetA |-> PKN, assetB |-> WPKN]

\* Transfers and wallet transactions: a replayable native payment, one that
\* overdraws, one nobody signed, a zero-amount cancel and two that compete
\* for a nonce.
Payments ==
  { [Blank EXCEPT !.id = "pay", !.to = w, !.amount = 2],
    [Blank EXCEPT !.id = "forged", !.to = u, !.amount = 1, !.signed = FALSE],
    [Blank EXCEPT !.id = "back", !.evm = TRUE, !.from = w, !.to = u, !.amount = 1],
    [Blank EXCEPT !.id = "cancel", !.evm = TRUE, !.from = w, !.to = w],
    [Blank EXCEPT !.id = "later", !.evm = TRUE, !.from = w, !.to = v, !.amount = 1, !.nonce = 1],
    [Blank EXCEPT !.id = "mint", !.kind = "mint", !.from = u, !.to = u, !.amount = 1] }

Contracts ==
  { [Blank EXCEPT !.id = "deploy", !.kind = "evm_create", !.evm = TRUE, !.from = w, !.nonce = 1],
    [Blank EXCEPT !.id = "revert", !.kind = "evm_create", !.evm = TRUE, !.from = w, !.ok = FALSE],
    [Blank EXCEPT !.id = "call", !.kind = "evm_call", !.evm = TRUE, !.from = w, !.to = u, !.nonce = 2] }

Tokens ==
  { [Blank EXCEPT !.id = "nft", !.kind = "nft_mint", !.to = u],
    [Blank EXCEPT !.id = "nftAgain", !.kind = "nft_mint", !.from = u, !.to = w],
    [Blank EXCEPT !.id = "give", !.kind = "nft_transfer", !.from = u, !.to = v],
    [Blank EXCEPT !.id = "giveBack", !.kind = "nft_transfer", !.from = v, !.to = u] }

Trades ==
  { [Blank EXCEPT !.id = "credit", !.kind = "asset_credit", !.assetA = WPKN, !.amount = 4],
    [Blank EXCEPT !.id = "debit", !.kind = "asset_debit", !.assetA = WPKN, !.amount = 3],
    [Blank EXCEPT !.id = "pool", !.kind = "amm_create_pool"],
    [Blank EXCEPT !.id = "deposit", !.kind = "amm_add_liquidity", !.amount = 2, !.amountB = 4],
    [Blank EXCEPT !.id = "sell", !.kind = "amm_swap", !.amount = 3],
    [Blank EXCEPT !.id = "buy", !.kind = "amm_swap", !.assetA = WPKN, !.assetB = PKN,
                  !.amount = 4, !.amountB = 1] }

\* A swap that names as AssetOut an asset the pool does not hold.
Mispaired == { [Blank EXCEPT !.id = "stray", !.kind = "amm_swap", !.assetB = USDT, !.amount = 3] }

AllPaymentTx == Payments \cup Contracts \cup Tokens
AllTradeTx == Trades \cup
  { [Blank EXCEPT !.id = "pay", !.to = w, !.amount = 2],
    [Blank EXCEPT !.id = "later", !.kind = "amm_swap", !.evm = TRUE, !.from = w, !.amount = 2] }
AllStrayTx == Trades \cup Mispaired

MCTxId == {"pay", "forged", "back", "cancel", "later", "mint", "deploy", "revert", "call",
           "nft", "nftAgain", "give", "giveBack",
           "credit", "debit", "pool", "deposit", "sell", "buy", "stray"}

MCGenesis == [a \in Account |-> IF a = v THEN 6 ELSE 0]

MCConfig == [hardness |-> 5, forkHeight |-> 2, min |-> 1, max |-> 10, window |-> 2,
             fastTarget |-> 2, idleTarget |-> 4]
=============================================================================
