-------------------------------- MODULE Ledger --------------------------------
(***************************************************************************)
(* The account ledger that every PokoinPoS node replays from its blocks    *)
(* (src/peer/account/ledger.go, transaction.go).  This module holds no     *)
(* state: a ledger is a record, and a transaction is a function on ledgers *)
(* made of a condition (Accepts) and an effect (Apply).  LedgerSpec turns  *)
(* it into a state machine; Blockchain and Node replay it.                 *)
(*                                                                         *)
(* Signatures, base64 and address spelling are abstracted: an account, an  *)
(* asset or a token is a model value and stands for the string the code    *)
(* normalises it to.                                                       *)
(***************************************************************************)
EXTENDS Integers, FiniteSetsExt

CONSTANTS
  Account,        \* account names: base64 public keys and 0x addresses
  Native,         \* the accounts that are base64 keys (isNativeValidatorAccount)
  Asset, PKN,     \* asset names, and the native one among them
  Token,          \* NFT keys: collection/token after NFTKey
  TxId,           \* transaction identifiers
  Tx,             \* the signed transactions that clients may issue
  Genesis,        \* the genesis balances
  MinerReward,    \* MINER_BLOCK_REWARD
  FeeBps,         \* AMMFeeBps
  None            \* the absent entry of a map

AMMDenominatorBps == 10000

AMMKinds == {"asset_credit", "asset_debit", "amm_create_pool", "amm_add_liquidity", "amm_swap"}

ContractKinds == {"evm_create", "evm_call"}

Kinds == {"transfer", "mint", "nft_mint", "nft_transfer"} \cup AMMKinds \cup ContractKinds

(***************************************************************************)
(* PoolID sorts the two asset names, so a pool is named by a pair.         *)
(***************************************************************************)
PoolId == {{a, b} : a \in Asset, b \in Asset}

(***************************************************************************)
(* A transaction.  evm tells a wallet transaction, which carries a nonce,  *)
(* from one signed with an account key; amount and amountB are the amounts *)
(* of the kinds that have two (amountA and amountB, or amountIn and        *)
(* minAmountOut); ok is what the EVM answers to a contract transaction;    *)
(* signed is the outcome of Verify.                                        *)
(***************************************************************************)
TxRecord ==
  [id: TxId, kind: Kinds, evm: BOOLEAN, signed: BOOLEAN, ok: BOOLEAN,
   from: Account, to: Account, amount: Nat, amountB: Nat, nonce: Nat,
   token: Token, pool: PoolId, assetA: Asset, assetB: Asset]

ASSUME AccountAssumption == Native \subseteq Account /\ PKN \in Asset

(***************************************************************************)
(* The transactions are those the constructors make: NewEVMTransaction     *)
(* signs transfers, contract transactions and router swaps, and an         *)
(* identifier names one transaction. Verify does not enforce it, since a   *)
(* wallet's signature does not cover Kind, and a wallet transaction whose  *)
(* Kind was rewritten on the way to a mint or NFT kind would be applied    *)
(* without its nonce being tested. What is stated about nonces is about    *)
(* the transactions of the constructors.                                   *)
(***************************************************************************)
ASSUME TxAssumption ==
  /\ Tx \subseteq TxRecord
  /\ \A t \in Tx : t.kind \in ContractKinds => t.evm
  /\ \A t \in Tx : t.evm => t.kind \in ContractKinds \cup {"transfer", "amm_swap"}
  /\ \A t, u \in Tx : t.id = u.id => t = u

ASSUME AmountAssumption ==
  /\ Genesis \in [Account -> Nat]
  /\ MinerReward \in Nat
  /\ FeeBps \in 1 .. AMMDenominatorBps

(***************************************************************************)
(* The ledger.  Accounts and AssetBalances are one map: the code's asset   *)
(* helpers send PKN to Accounts and every other asset to AssetBalances.    *)
(* evmNonce is the part of EVMAccounts that a failed contract creation     *)
(* leaves changed.                                                         *)
(***************************************************************************)
NFTToken == [owner: Account, minter: Account, mintTx: TxId, lastTx: TxId]

AMMPool == [assetA: Asset, assetB: Asset, reserveA: Int, reserveB: Int]

LedgerType ==
  [bal: [Asset -> [Account -> Int]],
   nonces: [Account -> Nat],
   validators: SUBSET Account,
   nfts: [Token -> NFTToken \cup {None}],
   pools: [PoolId -> AMMPool \cup {None}],
   evmNonce: [Account -> Nat],
   history: SUBSET Tx]

ASSUME NoneAssumption == None \notin AMMPool /\ None \notin NFTToken

(***************************************************************************)
(* No account and no pool reserve is below zero.                           *)
(***************************************************************************)
Solvent(l) ==
  /\ \A s \in Asset, a \in Account : l.bal[s][a] >= 0
  /\ \A p \in PoolId : l.pools[p] # None =>
       l.pools[p].reserveA >= 0 /\ l.pools[p].reserveB >= 0

InitializeFromGenesis ==
  [bal |-> [s \in Asset |-> [a \in Account |-> IF s = PKN THEN Genesis[a] ELSE 0]],
   nonces |-> [a \in Account |-> 0],
   validators |-> {a \in Account : Genesis[a] > 0},
   nfts |-> [k \in Token |-> None],
   pools |-> [p \in PoolId |-> None],
   evmNonce |-> [a \in Account |-> 0],
   history |-> {}]

-----------------------------------------------------------------------------
(* Helpers: balances, the validator registry, the recorded history. *)

CreditAsset(bal, s, a, x) == [bal EXCEPT ![s][a] = @ + x]

DebitAsset(bal, s, a, x) == [bal EXCEPT ![s][a] = @ - x]

\* Mutant: the balance is not looked at.
CanDebitAnyAmount(l, s, a, x) == x > 0

CanDebitAsset(l, s, a, x) == x > 0 /\ l.bal[s][a] >= x

IsOperator(l, a) == a \in Native /\ a \in l.validators

\* Mutant: a wallet may leave gaps between nonces.
NonceAtLeast(l, t) == t.evm => l.nonces[t.from] <= t.nonce

\* Mutant: the nonce is not looked at.
NonceIgnored(l, t) == TRUE

NonceMatches(l, t) == t.evm => l.nonces[t.from] = t.nonce

MarkValidator(l, a) == [l EXCEPT !.validators = @ \cup {a}]

\* Mutant: the nonce moves the wrong way.
RecordedBackwards(l, t) ==
  [l EXCEPT !.history = {h \in @ : h.id # t.id} \cup {t},
            !.nonces = IF t.evm THEN [@ EXCEPT ![t.from] = t.nonce - 1] ELSE @]

(***************************************************************************)
(* What every accepted transaction does besides its own effect: it is      *)
(* stored under its identifier, and a wallet transaction advances the      *)
(* nonce of its sender. The branches for mints and NFTs leave the nonces   *)
(* alone, and TxAssumption keeps wallet transactions out of them.          *)
(***************************************************************************)
Recorded(l, t) ==
  [l EXCEPT !.history = {h \in @ : h.id # t.id} \cup {t},
            !.nonces = IF t.evm THEN [@ EXCEPT ![t.from] = t.nonce + 1] ELSE @]

-----------------------------------------------------------------------------
(* The constant-product pool. *)

ReserveIn(p, s) == IF s = p.assetA THEN p.reserveA ELSE IF s = p.assetB THEN p.reserveB ELSE 0

ReserveOut(p, s) == IF s = p.assetA THEN p.reserveB ELSE IF s = p.assetB THEN p.reserveA ELSE 0

AmountInAfterFee(x) == (x * (AMMDenominatorBps - FeeBps)) \div AMMDenominatorBps

\* Mutant: the quote is rounded up.
ProductQuoteCeiling(rIn, rOut, x) == (rOut * x + rIn + x - 1) \div (rIn + x)

ProductQuote(rIn, rOut, x) == (rOut * x) \div (rIn + x)

\* Mutant: the quote is rounded up and may take the whole reserve.
QuoteSwapGenerous(p, s, x) ==
  LET rIn  == ReserveIn(p, s)
      rOut == ReserveOut(p, s)
      fee  == AmountInAfterFee(x)
  IN  IF x > 0 /\ rIn > 0 /\ rOut > 0 /\ fee > 0 THEN (rOut * fee + rIn + fee - 1) \div (rIn + fee) ELSE 0

(***************************************************************************)
(* QuoteSwap answers 0 where the code answers (0, false).                  *)
(***************************************************************************)
QuoteSwap(p, s, x) ==
  LET rIn  == ReserveIn(p, s)
      rOut == ReserveOut(p, s)
      fee  == AmountInAfterFee(x)
      out  == ProductQuote(rIn, rOut, fee)
  IN  IF x > 0 /\ rIn > 0 /\ rOut > 0 /\ fee > 0 /\ out > 0 /\ out < rOut THEN out ELSE 0

ApplySwap(p, s, x, out) ==
  IF s = p.assetA
  THEN [p EXCEPT !.reserveA = @ + x, !.reserveB = @ - out]
  ELSE [p EXCEPT !.reserveB = @ + x, !.reserveA = @ - out]

-----------------------------------------------------------------------------
(* Conditions and effects, one pair per kind of transaction. *)

\* Mutant: the balance is not looked at.
CanTransferOnCredit(l, t) == (t.evm \/ t.amount >= 1) /\ NonceMatches(l, t)

CanTransfer(l, t) ==
  /\ t.evm \/ t.amount >= 1
  /\ NonceMatches(l, t)
  /\ l.bal[PKN][t.from] >= t.amount

Transfer(l, t) ==
  LET paid == DebitAsset(l.bal, PKN, t.from, t.amount)
  IN  [Recorded(l, t) EXCEPT !.bal = CreditAsset(paid, PKN, t.to, t.amount)]

CanMint(l, t) == t.amount >= 1 /\ l.bal[PKN][t.from] > 0

Mint(l, t) ==
  [Recorded(l, t) EXCEPT
     !.bal = CreditAsset(l.bal, PKN, t.to, t.amount),
     !.validators = IF t.to \in Native THEN @ \cup {t.to} ELSE @]

\* Mutant: a token may be minted again.
CanNFTMintAgain(l, t) == TRUE

CanNFTMint(l, t) == l.nfts[t.token] = None

NFTMint(l, t) ==
  [Recorded(l, t) EXCEPT
     !.nfts[t.token] = [owner |-> t.to, minter |-> t.from, mintTx |-> t.id, lastTx |-> t.id]]

CanNFTTransfer(l, t) == l.nfts[t.token] # None /\ l.nfts[t.token].owner = t.from

\* Mutant: the last transaction of the token is not updated.
NFTTransferUntraced(l, t) == [Recorded(l, t) EXCEPT !.nfts[t.token].owner = t.to]

NFTTransfer(l, t) ==
  [Recorded(l, t) EXCEPT !.nfts[t.token] = [@ EXCEPT !.owner = t.to, !.lastTx = t.id]]

CanAssetCredit(l, t) == IsOperator(l, t.from) /\ t.assetA # PKN /\ t.amount >= 1

AssetCredit(l, t) ==
  [Recorded(l, t) EXCEPT !.bal = CreditAsset(l.bal, t.assetA, t.to, t.amount)]

CanAssetDebit(l, t) ==
  /\ IsOperator(l, t.from) /\ t.assetA # PKN
  /\ CanDebitAsset(l, t.assetA, t.to, t.amount)

AssetDebit(l, t) ==
  [Recorded(l, t) EXCEPT !.bal = DebitAsset(l.bal, t.assetA, t.to, t.amount)]

CanCreatePool(l, t) ==
  /\ IsOperator(l, t.from) /\ t.assetA # t.assetB
  /\ l.pools[{t.assetA, t.assetB}] = None

CreatePool(l, t) ==
  [Recorded(l, t) EXCEPT
     !.pools[{t.assetA, t.assetB}] =
        [assetA |-> t.assetA, assetB |-> t.assetB, reserveA |-> 0, reserveB |-> 0]]

CanAddLiquidity(l, t) ==
  /\ IsOperator(l, t.from) /\ l.pools[t.pool] # None
  /\ CanDebitAsset(l, l.pools[t.pool].assetA, t.from, t.amount)
  /\ CanDebitAsset(l, l.pools[t.pool].assetB, t.from, t.amountB)

\* Mutant: the second asset is deposited and not debited.
AddLiquidityHalfPaid(l, t) ==
  [Recorded(l, t) EXCEPT
     !.bal = DebitAsset(l.bal, l.pools[t.pool].assetA, t.from, t.amount),
     !.pools[t.pool] = [@ EXCEPT !.reserveA = @ + t.amount, !.reserveB = @ + t.amountB]]

AddLiquidity(l, t) ==
  LET p    == l.pools[t.pool]
      paid == DebitAsset(l.bal, p.assetA, t.from, t.amount)
  IN  [Recorded(l, t) EXCEPT
         !.bal = DebitAsset(paid, p.assetB, t.from, t.amountB),
         !.pools[t.pool] = [p EXCEPT !.reserveA = @ + t.amount, !.reserveB = @ + t.amountB]]

(***************************************************************************)
(* The asset paid in selects the side of the pool.  The asset paid out is  *)
(* the one the transaction names: the code only asks that it differ from   *)
(* the asset paid in (validAMM).  The debit precedes applySwap, whose own  *)
(* test cannot fail once QuoteSwap has answered.                           *)
(***************************************************************************)
CanSwap(l, t) ==
  /\ t.assetA # t.assetB
  /\ NonceMatches(l, t)
  /\ l.pools[t.pool] # None
  /\ QuoteSwap(l.pools[t.pool], t.assetA, t.amount) >= 1
  /\ QuoteSwap(l.pools[t.pool], t.assetA, t.amount) >= t.amountB
  /\ CanDebitAsset(l, t.assetA, t.from, t.amount)

Swap(l, t) ==
  LET p    == l.pools[t.pool]
      out  == QuoteSwap(p, t.assetA, t.amount)
      paid == DebitAsset(l.bal, t.assetA, t.from, t.amount)
  IN  [Recorded(l, t) EXCEPT
         !.bal = CreditAsset(paid, t.assetB, t.from, out),
         !.pools[t.pool] = ApplySwap(p, t.assetA, t.amount, out)]

(***************************************************************************)
(* Contract transactions.  EVM balances start at zero and move only when   *)
(* CanTransfer finds them sufficient, so a call that carries value always  *)
(* fails.  evm.Create counts the sender's EVM nonce before its snapshot:   *)
(* a creation that reverts is rejected and still leaves the nonce counted. *)
(***************************************************************************)
CanRunContract(l, t) == NonceMatches(l, t) /\ t.amount = 0 /\ t.ok

BumpEVMNonce(l, t) ==
  IF t.kind = "evm_create" THEN [l EXCEPT !.evmNonce[t.from] = @ + 1] ELSE l

RunContract(l, t) == BumpEVMNonce(Recorded(l, t), t)

RejectedContract(l, t) ==
  IF t.signed /\ NonceMatches(l, t) /\ t.amount = 0 THEN BumpEVMNonce(l, t) ELSE l

-----------------------------------------------------------------------------
(* Ledger.Transaction: the boolean it returns and the ledger it leaves. *)

Accepts(l, t) ==
  /\ t.signed
  /\ CASE t.kind = "transfer"          -> CanTransfer(l, t)
       [] t.kind = "mint"              -> CanMint(l, t)
       [] t.kind = "nft_mint"          -> CanNFTMint(l, t)
       [] t.kind = "nft_transfer"      -> CanNFTTransfer(l, t)
       [] t.kind = "asset_credit"      -> CanAssetCredit(l, t)
       [] t.kind = "asset_debit"       -> CanAssetDebit(l, t)
       [] t.kind = "amm_create_pool"   -> CanCreatePool(l, t)
       [] t.kind = "amm_add_liquidity" -> CanAddLiquidity(l, t)
       [] t.kind = "amm_swap"          -> CanSwap(l, t)
       [] t.kind \in ContractKinds     -> CanRunContract(l, t)

Apply(l, t) ==
  CASE t.kind = "transfer"          -> Transfer(l, t)
    [] t.kind = "mint"              -> Mint(l, t)
    [] t.kind = "nft_mint"          -> NFTMint(l, t)
    [] t.kind = "nft_transfer"      -> NFTTransfer(l, t)
    [] t.kind = "asset_credit"      -> AssetCredit(l, t)
    [] t.kind = "asset_debit"       -> AssetDebit(l, t)
    [] t.kind = "amm_create_pool"   -> CreatePool(l, t)
    [] t.kind = "amm_add_liquidity" -> AddLiquidity(l, t)
    [] t.kind = "amm_swap"          -> Swap(l, t)
    [] t.kind \in ContractKinds     -> RunContract(l, t)

Rejected(l, t) == IF t.kind \in ContractKinds THEN RejectedContract(l, t) ELSE l

Transaction(l, t) == IF Accepts(l, t) THEN Apply(l, t) ELSE Rejected(l, t)

(***************************************************************************)
(* What a block adds to its transactions: the miner enters the registry    *)
(* and is paid.                                                            *)
(***************************************************************************)
PayReward(l, m) == [l EXCEPT !.bal = CreditAsset(l.bal, PKN, m, MinerReward)]
-----------------------------------------------------------------------------
(***************************************************************************)
(* The amount of an asset in existence: what accounts and pools hold.      *)
(***************************************************************************)
PoolHolding(p, s) ==
  IF p = None THEN 0
  ELSE (IF p.assetA = s THEN p.reserveA ELSE 0) + (IF p.assetB = s THEN p.reserveB ELSE 0)

PoolSupply(l, s) == MapThenSumSet(LAMBDA p : PoolHolding(l.pools[p], s), PoolId)

SupplyOf(l, s) == MapThenSumSet(LAMBDA a : l.bal[s][a], Account) + PoolSupply(l, s)

(***************************************************************************)
(* A swap between the two assets of the pool it names.                     *)
(***************************************************************************)
Paired(t) == t.kind = "amm_swap" => t.pool = {t.assetA, t.assetB}
=============================================================================
