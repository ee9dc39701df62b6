------------------------------ MODULE LedgerSpec ------------------------------
(***************************************************************************)
(* One ledger as a state machine: any client transaction may be submitted  *)
(* at any time, and again after it was applied, and a block reward may be  *)
(* paid to any native account.  This is every sequence of calls that       *)
(* replaying some chain of blocks can make on a Ledger.                    *)
(***************************************************************************)
EXTENDS Ledger

CONSTANT MaxBalance   \* bound on balances and reserves, below 2^63 - 1 in the code

ASSUME BoundAssumption == MaxBalance \in Nat

VARIABLE ledger

(***************************************************************************)
(* The bound that keeps the state space finite.                            *)
(***************************************************************************)
Within(l) ==
  /\ \A s \in Asset, a \in Account : l.bal[s][a] <= MaxBalance
  /\ \A p \in PoolId : l.pools[p] # None =>
       l.pools[p].reserveA <= MaxBalance /\ l.pools[p].reserveB <= MaxBalance
  /\ \A a \in Account : l.evmNonce[a] <= MaxBalance

Init == ledger = InitializeFromGenesis

Submit(ks) ==
  \E t \in Tx :
    /\ t.kind \in ks
    /\ Within(Transaction(ledger, t))
    /\ ledger' = Transaction(ledger, t)

SubmitTransfer == Submit({"transfer"})

SubmitMint == Submit({"mint"})

SubmitNFT == Submit({"nft_mint", "nft_transfer"})

SubmitAsset == Submit({"asset_credit", "asset_debit"})

SubmitLiquidity == Submit({"amm_create_pool", "amm_add_liquidity"})

SubmitSwap == Submit({"amm_swap"})

SubmitContract == Submit(ContractKinds)

Reward ==
  \E m \in Native :
    /\ Within(PayReward(MarkValidator(ledger, m), m))
    /\ ledger' = PayReward(MarkValidator(ledger, m), m)

Next ==
  \/ SubmitTransfer
  \/ SubmitMint
  \/ SubmitNFT
  \/ SubmitAsset
  \/ SubmitLiquidity
  \/ SubmitSwap
  \/ SubmitContract
  \/ Reward

Spec == Init /\ [][Next]_ledger

-----------------------------------------------------------------------------
TypeOK == ledger \in LedgerType

(***************************************************************************)
(* "Reject overdrafts (no negative balances)" (transaction.go:192): no     *)
(* order of transfers, debits, deposits and swaps takes an account or a    *)
(* pool reserve below zero.                                                *)
(***************************************************************************)
NoOverdraft == Solvent(ledger)

(***************************************************************************)
(* The nonce test of Ledger.Transaction protects wallets from replay: the  *)
(* wallet transactions recorded for a sender are exactly one for each      *)
(* nonce below its current one, whatever was resubmitted in between.       *)
(***************************************************************************)
NoncesConsumedOnce ==
  \A a \in Account :
    LET sent == {t \in ledger.history : t.evm /\ t.from = a}
    IN  /\ \A t \in sent : t.nonce < ledger.nonces[a]
        /\ \A n \in 0 .. (ledger.nonces[a] - 1) : \E t \in sent : t.nonce = n
        /\ \A t, u \in sent : t.nonce = u.nonce => t = u

(***************************************************************************)
(* The registry of tokens agrees with the recorded history: the mint and   *)
(* the last transfer a token names are recorded transactions of that token,*)
(* and its owner is the one the last of them named.                        *)
(***************************************************************************)
NFTProvenance ==
  \A k \in Token : ledger.nfts[k] # None =>
    /\ \E t \in ledger.history :
         /\ t.kind = "nft_mint" /\ t.token = k
         /\ t.id = ledger.nfts[k].mintTx /\ t.from = ledger.nfts[k].minter
    /\ \E t \in ledger.history :
         /\ t.kind \in {"nft_mint", "nft_transfer"} /\ t.token = k
         /\ t.id = ledger.nfts[k].lastTx /\ t.to = ledger.nfts[k].owner

(***************************************************************************)
(* A token that exists is never minted again, nor forgotten, and only a    *)
(* transfer its owner signed hands it over.                                *)
(***************************************************************************)
NFTStepOK ==
  \A k \in Token : ledger.nfts[k] # None =>
    /\ ledger'.nfts[k] # None
    /\ ledger'.nfts[k].mintTx = ledger.nfts[k].mintTx
    /\ ledger'.nfts[k].owner # ledger.nfts[k].owner =>
         \E t \in ledger'.history :
           t.id = ledger'.nfts[k].lastTx /\ t.from = ledger.nfts[k].owner /\ t.signed

NFTHandover == [][NFTStepOK]_ledger

(***************************************************************************)
(* "Swaps are rejected ... if reserves would be drained"                   *)
(* (docs/pokoin-swap.md): a pool that holds both assets holds both forever.*)
(***************************************************************************)
PoolStepKeepsReserves ==
  \A p \in PoolId : ledger.pools[p] # None =>
    /\ ledger'.pools[p] # None
    /\ ledger.pools[p].reserveA > 0 /\ ledger.pools[p].reserveB > 0 =>
         ledger'.pools[p].reserveA > 0 /\ ledger'.pools[p].reserveB > 0

NeverDrained == [][PoolStepKeepsReserves]_ledger

(***************************************************************************)
(* Integer rounding never favours the trader: no step decreases the        *)
(* product of a pool's reserves, so no sequence of swaps extracts value.   *)
(***************************************************************************)
PoolStepKeepsProduct ==
  \A p \in PoolId : ledger.pools[p] # None =>
    ledger'.pools[p].reserveA * ledger'.pools[p].reserveB
      >= ledger.pools[p].reserveA * ledger.pools[p].reserveB

ConstantProduct == [][PoolStepKeepsProduct]_ledger

(***************************************************************************)
(* Transfers, deposits and swaps between the two assets of a pool move     *)
(* value and create none: the supply of every asset is unchanged.          *)
(***************************************************************************)
MovesOnly(t) == t.kind \in {"transfer", "amm_add_liquidity", "amm_swap"} /\ Paired(t)

StepConservesSupply ==
  \A t \in Tx : MovesOnly(t) /\ Accepts(ledger, t) /\ ledger' = Apply(ledger, t) =>
    \A s \in Asset : SupplyOf(ledger', s) = SupplyOf(ledger, s)

SupplyConserved == [][StepConservesSupply]_ledger

(***************************************************************************)
(* "Operators create pools, credit/debit internal assets, and add          *)
(* liquidity. Public users swap" (docs/pokoin-swap.md:19): the supply of   *)
(* an internal asset grows only by an operator's asset_credit.             *)
(***************************************************************************)
StepIssuesByOperator ==
  \A s \in Asset \ {PKN} :
    SupplyOf(ledger', s) > SupplyOf(ledger, s) =>
      \E t \in ledger'.history :
        t.kind = "asset_credit" /\ ledger' = Transaction(ledger, t)

OnlyOperatorsIssue == [][StepIssuesByOperator]_ledger
=============================================================================
