----------------------------- MODULE LedgerProofs -----------------------------
(***************************************************************************)
(* Lemmas about Ledger.Transaction and the block reward, for every ledger  *)
(* record, every set of accounts, assets, tokens and transactions and      *)
(* every balance: first balances and pools (Sound), then what the ledger   *)
(* remembers (Registry), then what exists of an asset (SupplyOf).  They    *)
(* serve LedgerSpecProofs, where a ledger is a state, and the proofs about *)
(* blocks, where it is the value of a replay.                              *)
(***************************************************************************)
EXTENDS Ledger, SumProofs

(***************************************************************************)
(* A pool is stored under the pair of assets it trades, and they differ:   *)
(* without it the two debits of a deposit would hit one balance after each *)
(* was checked alone.                                                      *)
(***************************************************************************)
PoolsNamed(l) ==
  \A p \in PoolId : l.pools[p] # None =>
    l.pools[p].assetA # l.pools[p].assetB /\ p = {l.pools[p].assetA, l.pools[p].assetB}

Sound(l) == l \in LedgerType /\ Solvent(l) /\ PoolsNamed(l)

USE DEF AMMDenominatorBps

(***************************************************************************)
(* Recording a transaction touches the history and the nonces only.        *)
(***************************************************************************)
LEMMA RecordedType ==
  ASSUME NEW l \in LedgerType, NEW t \in Tx
  PROVE  /\ Recorded(l, t) \in LedgerType
         /\ Recorded(l, t).bal = l.bal
         /\ Recorded(l, t).pools = l.pools
         /\ Recorded(l, t).nfts = l.nfts
         /\ Recorded(l, t).validators = l.validators
<1>1. t \in TxRecord BY TxAssumption
<1>2. t.from \in Account /\ t.nonce \in Nat BY <1>1 DEF TxRecord
<1> DEFINE H == {h \in l.history : h.id # t.id} \cup {t}
<1> DEFINE N == IF t.evm THEN [l.nonces EXCEPT ![t.from] = t.nonce + 1] ELSE l.nonces
<1>3. H \in SUBSET Tx BY DEF LedgerType
<1>4. N \in [Account -> Nat] BY <1>2 DEF LedgerType
<1>5. Recorded(l, t) = [l EXCEPT !.history = H, !.nonces = N] BY DEF Recorded
<1> HIDE DEF H, N
<1> QED BY <1>3, <1>4, <1>5 DEF LedgerType

(***************************************************************************)
(* The balance tables without a negative entry.  They are what a covered   *)
(* debit and any credit lead to.                                           *)
(***************************************************************************)
Covered == {bal \in [Asset -> [Account -> Int]] : \A s \in Asset, a \in Account : bal[s][a] >= 0}

(***************************************************************************)
(* A credit of a natural amount keeps every balance typed and not          *)
(* negative.                                                               *)
(***************************************************************************)
LEMMA CreditCovered ==
  ASSUME NEW bal \in Covered, NEW s \in Asset, NEW a \in Account, NEW x \in Nat
  PROVE  CreditAsset(bal, s, a, x) \in Covered
BY DEF CreditAsset, Covered

(***************************************************************************)
(* A debit that the balance covers keeps every balance typed and not       *)
(* negative.                                                               *)
(***************************************************************************)
LEMMA DebitCovered ==
  ASSUME NEW bal \in Covered, NEW s \in Asset, NEW a \in Account, NEW x \in Nat, bal[s][a] >= x
  PROVE  DebitAsset(bal, s, a, x) \in Covered
BY DEF DebitAsset, Covered

(***************************************************************************)
(* The fields of a transaction have their types.                           *)
(***************************************************************************)
LEMMA TxFields ==
  ASSUME NEW t \in Tx
  PROVE  /\ t.from \in Account /\ t.to \in Account
         /\ t.amount \in Nat /\ t.amountB \in Nat /\ t.nonce \in Nat
         /\ t.token \in Token /\ t.pool \in PoolId /\ t.id \in TxId
         /\ t.assetA \in Asset /\ t.assetB \in Asset
BY TxAssumption DEF TxRecord

(***************************************************************************)
(* An accepted transaction that changes balances only keeps the ledger     *)
(* sound when the new balances are typed and not negative.                 *)
(***************************************************************************)
LEMMA NewBalances ==
  ASSUME NEW l, Sound(l), NEW t \in Tx, NEW B \in Covered
  PROVE  /\ Sound([Recorded(l, t) EXCEPT !.bal = B])
         /\ [Recorded(l, t) EXCEPT !.bal = B].pools = l.pools
<1>1. l \in LedgerType BY DEF Sound
<1> DEFINE r == Recorded(l, t)
           m == [r EXCEPT !.bal = B]
<1>2. r \in LedgerType /\ r.pools = l.pools BY <1>1, RecordedType
<1> HIDE DEF r
<1>3. m \in LedgerType /\ m.bal = B /\ m.pools = l.pools BY <1>2 DEF LedgerType, Covered
<1> HIDE DEF m
<1>4. Solvent(m) /\ PoolsNamed(m) BY <1>3 DEF Sound, Solvent, PoolsNamed, Covered
<1> QED BY <1>3, <1>4 DEF Sound, m, r

(***************************************************************************)
(* Transfers: the debit was checked against the balance, the credit only   *)
(* adds, also when sender and receiver are one account.                    *)
(***************************************************************************)
LEMMA TransferSound ==
  ASSUME NEW l, Sound(l), NEW t \in Tx, CanTransfer(l, t)
  PROVE  Sound(Transfer(l, t)) /\ Transfer(l, t).pools = l.pools
<1>1. l.bal \in Covered BY DEF Sound, LedgerType, Solvent, Covered
<1>2. t.from \in Account /\ t.to \in Account /\ t.amount \in Nat /\ PKN \in Asset
  BY TxFields, AccountAssumption
<1> DEFINE paid == DebitAsset(l.bal, PKN, t.from, t.amount)
           B == CreditAsset(paid, PKN, t.to, t.amount)
<1>3. paid \in Covered BY <1>1, <1>2, DebitCovered DEF CanTransfer
<1>4. B \in Covered BY <1>2, <1>3, CreditCovered
<1>5. Transfer(l, t) = [Recorded(l, t) EXCEPT !.bal = B] BY DEF Transfer
<1> HIDE DEF B
<1> QED BY <1>4, <1>5, NewBalances

(***************************************************************************)
(* Minting credits an account and may register it as a validator.          *)
(***************************************************************************)
LEMMA MintSound ==
  ASSUME NEW l, Sound(l), NEW t \in Tx, CanMint(l, t)
  PROVE  Sound(Mint(l, t)) /\ Mint(l, t).pools = l.pools
<1>1. l.bal \in Covered /\ l \in LedgerType BY DEF Sound, LedgerType, Solvent, Covered
<1>2. t.to \in Account /\ t.amount \in Nat /\ PKN \in Asset BY TxFields, AccountAssumption
<1> DEFINE r == Recorded(l, t)
           B == CreditAsset(l.bal, PKN, t.to, t.amount)
           V == IF t.to \in Native THEN r.validators \cup {t.to} ELSE r.validators
           m == [r EXCEPT !.bal = B, !.validators = V]
<1>3. B \in Covered BY <1>1, <1>2, CreditCovered
<1>4. r \in LedgerType /\ r.pools = l.pools BY <1>1, RecordedType
<1>5. Mint(l, t) = m BY DEF Mint
<1> HIDE DEF r, B
<1>6. V \in SUBSET Account BY <1>2, <1>4 DEF LedgerType
<1> HIDE DEF V
<1>7. m \in LedgerType /\ m.bal = B /\ m.pools = l.pools BY <1>3, <1>4, <1>6 DEF LedgerType, Covered
<1> HIDE DEF m
<1>8. Sound(m) BY <1>3, <1>7 DEF Sound, Solvent, PoolsNamed, Covered
<1> QED BY <1>5, <1>7, <1>8

(***************************************************************************)
(* Token transactions touch the token registry only.                       *)
(***************************************************************************)
LEMMA NFTSound ==
  ASSUME NEW l, Sound(l), NEW t \in Tx, NEW k \in NFTToken
  PROVE  /\ Sound([Recorded(l, t) EXCEPT !.nfts[t.token] = k])
         /\ [Recorded(l, t) EXCEPT !.nfts[t.token] = k].pools = l.pools
<1> DEFINE r == Recorded(l, t)
           m == [r EXCEPT !.nfts[t.token] = k]
<1>1. r \in LedgerType /\ r.pools = l.pools /\ r.bal = l.bal BY RecordedType DEF Sound
<1>2. t.token \in Token BY TxFields
<1> HIDE DEF r
<1>3. m \in LedgerType /\ m.bal = l.bal /\ m.pools = l.pools BY <1>1, <1>2 DEF LedgerType
<1> HIDE DEF m
<1>4. Sound(m) BY <1>3 DEF Sound, Solvent, PoolsNamed
<1> QED BY <1>3, <1>4 DEF m, r

(***************************************************************************)
(* An accepted mint writes one entry of the token registry.                *)
(***************************************************************************)
LEMMA NFTMintSound ==
  ASSUME NEW l, Sound(l), NEW t \in Tx
  PROVE  Sound(NFTMint(l, t)) /\ NFTMint(l, t).pools = l.pools
<1> DEFINE k == [owner |-> t.to, minter |-> t.from, mintTx |-> t.id, lastTx |-> t.id]
<1>1. k \in NFTToken BY TxFields DEF NFTToken
<1>2. NFTMint(l, t) = [Recorded(l, t) EXCEPT !.nfts[t.token] = k] BY DEF NFTMint
<1> HIDE DEF k
<1> QED BY <1>1, <1>2, NFTSound

(***************************************************************************)
(* An accepted token transfer rewrites the owner and the last transaction  *)
(* of an existing entry.                                                   *)
(***************************************************************************)
LEMMA NFTTransferSound ==
  ASSUME NEW l, Sound(l), NEW t \in Tx, CanNFTTransfer(l, t)
  PROVE  Sound(NFTTransfer(l, t)) /\ NFTTransfer(l, t).pools = l.pools
<1> DEFINE k == [l.nfts[t.token] EXCEPT !.owner = t.to, !.lastTx = t.id]
<1>1. l.nfts[t.token] \in NFTToken BY TxFields DEF CanNFTTransfer, Sound, LedgerType
<1>2. k \in NFTToken BY <1>1, TxFields DEF NFTToken
<1>3. Recorded(l, t).nfts = l.nfts BY RecordedType DEF Sound
<1>4. NFTTransfer(l, t) = [Recorded(l, t) EXCEPT !.nfts[t.token] = k] BY <1>3 DEF NFTTransfer
<1> HIDE DEF k
<1> QED BY <1>2, <1>4, NFTSound

(***************************************************************************)
(* Operator credits and debits of an internal asset.                       *)
(***************************************************************************)
LEMMA AssetSound ==
  ASSUME NEW l, Sound(l), NEW t \in Tx
  PROVE  /\ Sound(AssetCredit(l, t)) /\ AssetCredit(l, t).pools = l.pools
         /\ CanAssetDebit(l, t) => Sound(AssetDebit(l, t)) /\ AssetDebit(l, t).pools = l.pools
<1>1. l.bal \in Covered BY DEF Sound, LedgerType, Solvent, Covered
<1>2. t.to \in Account /\ t.amount \in Nat /\ t.assetA \in Asset BY TxFields
<1>3. CreditAsset(l.bal, t.assetA, t.to, t.amount) \in Covered BY <1>1, <1>2, CreditCovered
<1>4. CanAssetDebit(l, t) => DebitAsset(l.bal, t.assetA, t.to, t.amount) \in Covered
  BY <1>1, <1>2, DebitCovered DEF CanAssetDebit, CanDebitAsset
<1> QED BY <1>3, <1>4, NewBalances DEF AssetCredit, AssetDebit

(***************************************************************************)
(* Contract transactions, accepted or not, touch EVM nonces only.          *)
(***************************************************************************)
LEMMA ContractSound ==
  ASSUME NEW l, Sound(l), NEW t \in Tx
  PROVE  /\ Sound(BumpEVMNonce(l, t)) /\ BumpEVMNonce(l, t).pools = l.pools
         /\ Sound(RunContract(l, t)) /\ RunContract(l, t).pools = l.pools
<1>1. ASSUME NEW m, Sound(m)
      PROVE  Sound(BumpEVMNonce(m, t)) /\ BumpEVMNonce(m, t).pools = m.pools
  <2> DEFINE x == m.evmNonce[t.from] + 1
             n == [m EXCEPT !.evmNonce[t.from] = x]
  <2>1. t.from \in Account /\ m \in LedgerType BY <1>1, TxFields DEF Sound
  <2>2. x \in Nat BY <2>1 DEF LedgerType
  <2> HIDE DEF x
  <2>3. n \in LedgerType /\ n.bal = m.bal /\ n.pools = m.pools BY <2>1, <2>2 DEF LedgerType
  <2> HIDE DEF n
  <2>4. Sound(n) BY <1>1, <2>3 DEF Sound, Solvent, PoolsNamed
  <2> QED BY <1>1, <2>3, <2>4 DEF BumpEVMNonce, n, x
<1>2. Sound(Recorded(l, t)) /\ Recorded(l, t).pools = l.pools
  BY RecordedType DEF Sound, Solvent, PoolsNamed
<1> QED BY <1>1, <1>2 DEF RunContract

(***************************************************************************)
(* The reward of a block.                                                  *)
(***************************************************************************)
LEMMA RewardSound ==
  ASSUME NEW l, Sound(l), NEW a \in Account
  PROVE  /\ Sound(PayReward(MarkValidator(l, a), a))
         /\ PayReward(MarkValidator(l, a), a).pools = l.pools
<1>1. l.bal \in Covered BY DEF Sound, LedgerType, Solvent, Covered
<1> DEFINE n == MarkValidator(l, a)
           B == CreditAsset(n.bal, PKN, a, MinerReward)
           m == [n EXCEPT !.bal = B]
<1>2. n \in LedgerType /\ n.bal = l.bal /\ n.pools = l.pools BY DEF MarkValidator, Sound, LedgerType
<1>3. B \in Covered BY <1>1, <1>2, CreditCovered, AccountAssumption, AmountAssumption
<1>4. PayReward(n, a) = m BY DEF PayReward
<1> HIDE DEF n, B
<1>5. m \in LedgerType /\ m.bal = B /\ m.pools = l.pools BY <1>2, <1>3 DEF LedgerType, Covered
<1> HIDE DEF m
<1>6. Sound(m) BY <1>3, <1>5 DEF Sound, Solvent, PoolsNamed, Covered
<1> QED BY <1>4, <1>5, <1>6 DEF n

-----------------------------------------------------------------------------
(* The arithmetic of the pool. *)

(***************************************************************************)
(* Integer division rounds down.                                           *)
(***************************************************************************)
LEMMA DivisionFloor ==
  ASSUME NEW n \in Nat, NEW d \in Nat, d > 0
  PROVE  (n \div d) \in Nat /\ (n \div d) * d <= n
<1>1. (n \div d) \in Int /\ n = d * (n \div d) + (n % d) /\ n % d >= 0 OBVIOUS
<1>2. (n \div d) >= 0 OBVIOUS
<1> QED BY <1>1, <1>2

(***************************************************************************)
(* The fee never increases the amount that enters the pool.                *)
(***************************************************************************)
LEMMA FeeBound ==
  ASSUME NEW x \in Nat
  PROVE  AmountInAfterFee(x) \in Nat /\ AmountInAfterFee(x) <= x
<1> DEFINE n == x * (AMMDenominatorBps - FeeBps)
<1>1. FeeBps \in 1 .. 10000 BY AmountAssumption
<1>2. n \in Nat /\ n <= x * 10000 BY <1>1
<1>3. AmountInAfterFee(x) = n \div 10000 BY DEF AmountInAfterFee
<1> HIDE DEF n
<1>4. n \div 10000 \in Nat /\ (n \div 10000) * 10000 <= n BY <1>2, DivisionFloor
<1> QED BY <1>2, <1>3, <1>4

(***************************************************************************)
(* The constant product: what leaves the pool is worth no more than what   *)
(* the formula allows for the amount after the fee.                        *)
(***************************************************************************)
LEMMA QuoteKeepsProduct ==
  ASSUME NEW rIn \in Nat, NEW rOut \in Nat, NEW f \in Nat, NEW x \in Nat, f <= x, rIn > 0,
         NEW out \in Nat, out = ProductQuote(rIn, rOut, f), out < rOut
  PROVE  (rIn + x) * (rOut - out) >= rIn * rOut
<1>1. rOut * f \in Nat /\ rIn + f \in Nat /\ rIn + f > 0 OBVIOUS
<1>2. out * (rIn + f) <= rOut * f BY <1>1, DivisionFloor DEF ProductQuote
<1>3. (rIn + f) * (rOut - out) = rIn * rOut + rOut * f - out * (rIn + f) OBVIOUS
<1>4. (rIn + f) * (rOut - out) >= rIn * rOut
  <2> DEFINE a == (rIn + f) * (rOut - out)
             b == rIn * rOut
             c == rOut * f
             d == out * (rIn + f)
  <2>1. a \in Int /\ b \in Int /\ c \in Int /\ d \in Int OBVIOUS
  <2>2. a = b + c - d /\ d <= c BY <1>2, <1>3
  <2> HIDE DEF a, b, c, d
  <2>3. a >= b BY <2>1, <2>2
  <2> QED BY <2>3 DEF a, b
<1>5. (rIn + x) * (rOut - out) = (rIn + f) * (rOut - out) + (x - f) * (rOut - out) OBVIOUS
<1>6. (x - f) * (rOut - out) >= 0
  <2>1. x - f \in Nat /\ rOut - out \in Nat OBVIOUS
  <2> QED BY <2>1
<1> QED
  <2> DEFINE a == (rIn + f) * (rOut - out)
             b == rIn * rOut
             c == (x - f) * (rOut - out)
             d == (rIn + x) * (rOut - out)
  <2>1. a \in Int /\ b \in Int /\ c \in Int /\ d \in Int OBVIOUS
  <2>2. a >= b /\ c >= 0 /\ d = a + c BY <1>4, <1>5, <1>6
  <2> HIDE DEF a, b, c, d
  <2>3. d >= b BY <2>1, <2>2
  <2> QED BY <2>3 DEF b, d

(***************************************************************************)
(* What a step may do to the pools: none disappears, none is drained, no   *)
(* product decreases.                                                      *)
(***************************************************************************)
PoolKept(p, q) ==
  /\ q # None
  /\ p.reserveA > 0 /\ p.reserveB > 0 => q.reserveA > 0 /\ q.reserveB > 0
  /\ q.reserveA * q.reserveB >= p.reserveA * p.reserveB

PoolStep(l, m) == \A i \in PoolId : l.pools[i] # None => PoolKept(l.pools[i], m.pools[i])

(***************************************************************************)
(* A pool that a step leaves alone is kept, its product included.          *)
(***************************************************************************)
LEMMA PoolKeptSame ==
  ASSUME NEW p \in AMMPool PROVE PoolKept(p, p)
<1>1. p.reserveA \in Int /\ p.reserveB \in Int BY DEF AMMPool
<1>2. p.reserveA * p.reserveB \in Int BY <1>1
<1>3. p # None BY NoneAssumption
<1> QED BY <1>2, <1>3 DEF PoolKept

(***************************************************************************)
(* A step that touches no pool keeps all of them.                          *)
(***************************************************************************)
LEMMA SamePools ==
  ASSUME NEW l \in LedgerType, NEW m, m.pools = l.pools PROVE PoolStep(l, m)
BY PoolKeptSame DEF PoolStep, LedgerType

(***************************************************************************)
(* A pool with both reserves written.                                      *)
(***************************************************************************)
SetReserves(p, a, b) == [p EXCEPT !.reserveA = a, !.reserveB = b]

(***************************************************************************)
(* Writing both reserves of a pool keeps it a pool of the same assets.     *)
(***************************************************************************)
LEMMA PoolUpdate ==
  ASSUME NEW p \in AMMPool, NEW a \in Int, NEW b \in Int
  PROVE  /\ SetReserves(p, a, b) \in AMMPool
         /\ SetReserves(p, a, b).assetA = p.assetA /\ SetReserves(p, a, b).assetB = p.assetB
         /\ SetReserves(p, a, b).reserveA = a /\ SetReserves(p, a, b).reserveB = b
<1> DEFINE r == [p EXCEPT !.reserveA = a]
<1>1. r \in AMMPool /\ r.assetA = p.assetA /\ r.assetB = p.assetB /\ r.reserveA = a
  BY DEF AMMPool
<1>2. SetReserves(p, a, b) = [r EXCEPT !.reserveB = b] BY DEF SetReserves
<1> HIDE DEF r
<1> QED BY <1>1, <1>2 DEF AMMPool

(***************************************************************************)
(* A step that records t, writes the balances and replaces one pool.       *)
(***************************************************************************)
WithPool(l, t, B, i, q) == [Recorded(l, t) EXCEPT !.bal = B, !.pools[i] = q]

(***************************************************************************)
(* Balances and one pool change: the step is sound when the new balances   *)
(* are covered and the new pool is a kept successor of the old one.        *)
(***************************************************************************)
LEMMA NewPool ==
  ASSUME NEW l, Sound(l), NEW t \in Tx, NEW B \in Covered, NEW i \in PoolId, NEW q \in AMMPool,
         q.reserveA >= 0, q.reserveB >= 0, q.assetA # q.assetB, i = {q.assetA, q.assetB},
         l.pools[i] # None => PoolKept(l.pools[i], q)
  PROVE  Sound(WithPool(l, t, B, i, q)) /\ PoolStep(l, WithPool(l, t, B, i, q))
<1> DEFINE r == Recorded(l, t)
           m == WithPool(l, t, B, i, q)
<1>1. r \in LedgerType /\ r.pools = l.pools /\ l \in LedgerType BY RecordedType DEF Sound
<1> DEFINE P == [r.pools EXCEPT ![i] = q]
<1>2. m = [r EXCEPT !.bal = B, !.pools = P] BY DEF WithPool
<1> HIDE DEF r, m
<1>a. P \in [PoolId -> AMMPool \cup {None}] BY <1>1 DEF LedgerType
<1>b. \A j \in PoolId : P[j] = IF j = i THEN q ELSE l.pools[j] BY <1>1 DEF LedgerType
<1> HIDE DEF P
<1>3. m \in LedgerType /\ m.bal = B /\ m.pools = P
  BY <1>1, <1>2, <1>a DEF LedgerType, Covered
<1>4. \A j \in PoolId : m.pools[j] = IF j = i THEN q ELSE l.pools[j] BY <1>3, <1>b
<1>5. Solvent(m) BY <1>3, <1>4 DEF Sound, Solvent, Covered
<1>6. PoolsNamed(m) BY <1>4 DEF Sound, PoolsNamed
<1>7. PoolStep(l, m)
  <2> SUFFICES ASSUME NEW j \in PoolId, l.pools[j] # None PROVE PoolKept(l.pools[j], m.pools[j])
    BY DEF PoolStep
  <2>1. CASE j = i BY <1>4, <2>1
  <2>2. CASE j # i
    <3>1. l.pools[j] \in AMMPool /\ m.pools[j] = l.pools[j] BY <1>1, <1>4, <2>2 DEF LedgerType
    <3> QED BY <3>1, PoolKeptSame
  <2> QED BY <2>1, <2>2
<1> QED BY <1>3, <1>5, <1>6, <1>7 DEF Sound, m

(***************************************************************************)
(* A new pool starts empty, under a name no other pool has.                *)
(***************************************************************************)
LEMMA CreatePoolSound ==
  ASSUME NEW l, Sound(l), NEW t \in Tx, CanCreatePool(l, t)
  PROVE  Sound(CreatePool(l, t)) /\ PoolStep(l, CreatePool(l, t))
<1> DEFINE i == {t.assetA, t.assetB}
           q == [assetA |-> t.assetA, assetB |-> t.assetB, reserveA |-> 0, reserveB |-> 0]
           r == Recorded(l, t)
<1>1. l.bal \in Covered BY DEF Sound, LedgerType, Solvent, Covered
<1>2. t.assetA \in Asset /\ t.assetB \in Asset /\ t.assetA # t.assetB BY TxFields DEF CanCreatePool
<1>3. i \in PoolId /\ q \in AMMPool BY <1>2 DEF PoolId, AMMPool
<1>4. q.reserveA >= 0 /\ q.reserveB >= 0 /\ q.assetA # q.assetB /\ i = {q.assetA, q.assetB} BY <1>2
<1>5. l.pools[i] = None BY DEF CanCreatePool
<1>6. r \in LedgerType /\ r.bal = l.bal BY RecordedType DEF Sound
<1>7. CreatePool(l, t) = [r EXCEPT !.pools[i] = q] BY DEF CreatePool
<1> HIDE DEF i, q, r
<1>8. CreatePool(l, t) = WithPool(l, t, l.bal, i, q) BY <1>6, <1>7 DEF LedgerType, WithPool, r
<1> QED BY <1>1, <1>3, <1>4, <1>5, <1>8, NewPool

(***************************************************************************)
(* A deposit: both debits were checked, and they hit different assets.     *)
(***************************************************************************)
LEMMA AddLiquiditySound ==
  ASSUME NEW l, Sound(l), NEW t \in Tx, CanAddLiquidity(l, t)
  PROVE  Sound(AddLiquidity(l, t)) /\ PoolStep(l, AddLiquidity(l, t))
<1> DEFINE p == l.pools[t.pool]
           paid == DebitAsset(l.bal, p.assetA, t.from, t.amount)
           B == DebitAsset(paid, p.assetB, t.from, t.amountB)
           q == [p EXCEPT !.reserveA = @ + t.amount, !.reserveB = @ + t.amountB]
<1>1. l.bal \in Covered BY DEF Sound, LedgerType, Solvent, Covered
<1>2. t.from \in Account /\ t.amount \in Nat /\ t.amountB \in Nat /\ t.pool \in PoolId BY TxFields
<1>3. /\ p # None /\ p \in AMMPool /\ p.reserveA >= 0 /\ p.reserveB >= 0
      /\ p.assetA # p.assetB /\ t.pool = {p.assetA, p.assetB}
  BY <1>2 DEF CanAddLiquidity, Sound, Solvent, PoolsNamed, LedgerType
<1>4. /\ p.assetA \in Asset /\ p.assetB \in Asset
      /\ p.reserveA \in Nat /\ p.reserveB \in Nat BY <1>3 DEF AMMPool
<1>5. l.bal[p.assetA][t.from] >= t.amount /\ l.bal[p.assetB][t.from] >= t.amountB
  BY DEF CanAddLiquidity, CanDebitAsset
<1>6. t.amount > 0 /\ t.amountB > 0 BY DEF CanAddLiquidity, CanDebitAsset
<1>7. AddLiquidity(l, t) = WithPool(l, t, B, t.pool, q) BY DEF AddLiquidity, WithPool
<1> HIDE DEF p
<1>8. paid \in Covered BY <1>1, <1>2, <1>4, <1>5, DebitCovered
<1>9. paid[p.assetB][t.from] = l.bal[p.assetB][t.from]
  BY <1>1, <1>2, <1>3, <1>4 DEF DebitAsset, Covered
<1> HIDE DEF paid
<1>10. B \in Covered BY <1>2, <1>4, <1>5, <1>8, <1>9, DebitCovered
<1>11. /\ q \in AMMPool /\ q.assetA = p.assetA /\ q.assetB = p.assetB
       /\ q.reserveA = p.reserveA + t.amount /\ q.reserveB = p.reserveB + t.amountB
  <2>1. q = SetReserves(p, p.reserveA + t.amount, p.reserveB + t.amountB) BY DEF SetReserves
  <2>2. p.reserveA + t.amount \in Int /\ p.reserveB + t.amountB \in Int BY <1>2, <1>4
  <2> HIDE DEF q
  <2> QED BY <1>3, <2>1, <2>2, PoolUpdate
<1> HIDE DEF B, q
<1>12. PoolKept(p, q)
  <2>1. q # None BY <1>11, NoneAssumption
  <2>2. (p.reserveA + t.amount) * (p.reserveB + t.amountB) >= p.reserveA * p.reserveB
    <3>1. ASSUME NEW a \in Nat, NEW b \in Nat, NEW x \in Nat, NEW y \in Nat
          PROVE  (a + x) * (b + y) >= a * b
      <4>1. (a + x) * (b + y) = a * b + (a * y + x * b + x * y) OBVIOUS
      <4>2. a * y + x * b + x * y \in Nat /\ a * b \in Nat OBVIOUS
      <4> QED BY <4>1, <4>2
    <3> QED BY <3>1, <1>2, <1>4
  <2> QED BY <1>2, <1>4, <1>11, <2>1, <2>2 DEF PoolKept
<1>13. /\ q.reserveA >= 0 /\ q.reserveB >= 0 /\ q.assetA # q.assetB
       /\ t.pool = {q.assetA, q.assetB}
       /\ PoolKept(l.pools[t.pool], q)
  BY <1>2, <1>3, <1>4, <1>11, <1>12 DEF p
<1> QED BY <1>2, <1>7, <1>10, <1>11, <1>13, NewPool

(***************************************************************************)
(* A swap: the amount paid in was checked, and the quote leaves both       *)
(* reserves positive and their product no smaller.                         *)
(***************************************************************************)
LEMMA SwapSound ==
  ASSUME NEW l, Sound(l), NEW t \in Tx, CanSwap(l, t)
  PROVE  Sound(Swap(l, t)) /\ PoolStep(l, Swap(l, t))
<1> DEFINE p == l.pools[t.pool]
           s == t.assetA
           x == t.amount
           out == QuoteSwap(p, s, x)
           paid == DebitAsset(l.bal, s, t.from, x)
           B == CreditAsset(paid, t.assetB, t.from, out)
           q == ApplySwap(p, s, x, out)
           rIn == ReserveIn(p, s)
           rOut == ReserveOut(p, s)
           f == AmountInAfterFee(x)
<1>1. l.bal \in Covered BY DEF Sound, LedgerType, Solvent, Covered
<1>2. /\ t.from \in Account /\ x \in Nat /\ t.pool \in PoolId /\ s \in Asset /\ t.assetB \in Asset
  BY TxFields
<1>3. /\ p # None /\ p \in AMMPool /\ p.reserveA >= 0 /\ p.reserveB >= 0
      /\ p.assetA # p.assetB /\ t.pool = {p.assetA, p.assetB}
  BY <1>2 DEF CanSwap, Sound, Solvent, PoolsNamed, LedgerType
<1>4. p.reserveA \in Nat /\ p.reserveB \in Nat BY <1>3 DEF AMMPool
<1>5. l.bal[s][t.from] >= x BY DEF CanSwap, CanDebitAsset
<1>6. out >= 1 BY DEF CanSwap
<1>7. Swap(l, t) = WithPool(l, t, B, t.pool, q) BY DEF Swap, WithPool
<1> HIDE DEF p
<1>8. f \in Nat /\ f <= x BY <1>2, FeeBound
<1> HIDE DEF s, x
<1>9. /\ out = ProductQuote(rIn, rOut, f) /\ rIn > 0 /\ rOut > 0 /\ out > 0 /\ out < rOut
      /\ s = p.assetA \/ s = p.assetB
  BY <1>6 DEF QuoteSwap, ReserveIn, ReserveOut
<1>10. rIn \in Nat /\ rOut \in Nat BY <1>4 DEF ReserveIn, ReserveOut
<1> HIDE DEF f
<1>11. out \in Nat
  <2>1. rOut * f \in Nat /\ rIn + f \in Nat /\ rIn + f > 0 BY <1>8, <1>9, <1>10
  <2> QED BY <1>9, <2>1, DivisionFloor DEF ProductQuote
<1> HIDE DEF out
<1>12. (rIn + x) * (rOut - out) >= rIn * rOut BY <1>2, <1>8, <1>9, <1>10, <1>11, QuoteKeepsProduct
<1>13. paid \in Covered BY <1>1, <1>2, <1>5, DebitCovered
<1> HIDE DEF paid
<1>14. B \in Covered BY <1>2, <1>11, <1>13, CreditCovered
<1> HIDE DEF B
<1>15. CASE s = p.assetA
  <2>1. rIn = p.reserveA /\ rOut = p.reserveB BY <1>15 DEF ReserveIn, ReserveOut
  <2>2. q = SetReserves(p, rIn + x, rOut - out) BY <1>15, <2>1 DEF ApplySwap, SetReserves
  <2>3. /\ q \in AMMPool /\ q.assetA = p.assetA /\ q.assetB = p.assetB
        /\ q.reserveA = rIn + x /\ q.reserveB = rOut - out
    <3>1. rIn + x \in Int /\ rOut - out \in Int BY <1>2, <1>10, <1>11
    <3> HIDE DEF rIn, rOut, q
    <3> QED BY <1>3, <2>2, <3>1, PoolUpdate
  <2> HIDE DEF rIn, rOut, q
  <2>4. PoolKept(p, q) BY <1>2, <1>9, <1>10, <1>11, <1>12, <2>1, <2>3, NoneAssumption DEF PoolKept
  <2>5. q.reserveA >= 0 /\ q.reserveB >= 0 BY <1>2, <1>9, <1>10, <1>11, <2>3
  <2>6. q.assetA # q.assetB /\ t.pool = {q.assetA, q.assetB} /\ PoolKept(l.pools[t.pool], q)
    BY <1>3, <2>3, <2>4 DEF p
  <2> QED BY <1>2, <1>7, <1>14, <2>3, <2>5, <2>6, NewPool
<1>16. CASE s = p.assetB
  <2>1. rIn = p.reserveB /\ rOut = p.reserveA BY <1>3, <1>16 DEF ReserveIn, ReserveOut
  <2>2. q = SetReserves(p, rOut - out, rIn + x) BY <1>3, <1>16, <2>1 DEF ApplySwap, SetReserves, AMMPool
  <2>3. /\ q \in AMMPool /\ q.assetA = p.assetA /\ q.assetB = p.assetB
        /\ q.reserveB = rIn + x /\ q.reserveA = rOut - out
    <3>1. rIn + x \in Int /\ rOut - out \in Int BY <1>2, <1>10, <1>11
    <3> HIDE DEF rIn, rOut, q
    <3> QED BY <1>3, <2>2, <3>1, PoolUpdate
  <2> HIDE DEF rIn, rOut, q
  <2>4. (rOut - out) * (rIn + x) >= rOut * rIn
    <3>1. rOut - out \in Int /\ rIn + x \in Int BY <1>2, <1>10, <1>11
    <3> QED BY <1>10, <1>12, <3>1
  <2>5. PoolKept(p, q) BY <1>2, <1>9, <1>10, <1>11, <2>1, <2>3, <2>4, NoneAssumption DEF PoolKept
  <2>6. q.reserveA >= 0 /\ q.reserveB >= 0 BY <1>2, <1>9, <1>10, <1>11, <2>3
  <2>7. q.assetA # q.assetB /\ t.pool = {q.assetA, q.assetB} /\ PoolKept(l.pools[t.pool], q)
    BY <1>3, <2>3, <2>5 DEF p
  <2> QED BY <1>2, <1>7, <1>14, <2>3, <2>6, <2>7, NewPool
<1> QED BY <1>9, <1>15, <1>16

-----------------------------------------------------------------------------
(* Every call of Ledger.Transaction, accepted or not. *)

(***************************************************************************)
(* Whatever its kind, an accepted transaction leaves the ledger sound and  *)
(* every pool no poorer.                                                   *)
(***************************************************************************)
LEMMA ApplySound ==
  ASSUME NEW l, Sound(l), NEW t \in Tx, Accepts(l, t)
  PROVE  Sound(Apply(l, t)) /\ PoolStep(l, Apply(l, t))
<1>1. l \in LedgerType BY DEF Sound
<1>2. t.kind \in Kinds BY TxAssumption DEF TxRecord
<1>3. CASE t.kind = "transfer"
  <2>1. CanTransfer(l, t) /\ Apply(l, t) = Transfer(l, t) BY <1>3 DEF Accepts, Apply, ContractKinds
  <2> QED BY <1>1, <2>1, TransferSound, SamePools
<1>4. CASE t.kind = "mint"
  <2>1. CanMint(l, t) /\ Apply(l, t) = Mint(l, t) BY <1>4 DEF Accepts, Apply, ContractKinds
  <2> QED BY <1>1, <2>1, MintSound, SamePools
<1>5. CASE t.kind = "nft_mint"
  <2>1. Apply(l, t) = NFTMint(l, t) BY <1>5 DEF Apply, ContractKinds
  <2> QED BY <1>1, <2>1, NFTMintSound, SamePools
<1>6. CASE t.kind = "nft_transfer"
  <2>1. CanNFTTransfer(l, t) /\ Apply(l, t) = NFTTransfer(l, t) BY <1>6 DEF Accepts, Apply, ContractKinds
  <2> QED BY <1>1, <2>1, NFTTransferSound, SamePools
<1>7. CASE t.kind = "asset_credit"
  <2>1. Apply(l, t) = AssetCredit(l, t) BY <1>7 DEF Apply, ContractKinds
  <2> QED BY <1>1, <2>1, AssetSound, SamePools
<1>8. CASE t.kind = "asset_debit"
  <2>1. CanAssetDebit(l, t) /\ Apply(l, t) = AssetDebit(l, t) BY <1>8 DEF Accepts, Apply, ContractKinds
  <2> QED BY <1>1, <2>1, AssetSound, SamePools
<1>9. CASE t.kind = "amm_create_pool"
  <2>1. CanCreatePool(l, t) /\ Apply(l, t) = CreatePool(l, t) BY <1>9 DEF Accepts, Apply, ContractKinds
  <2> QED BY <2>1, CreatePoolSound
<1>10. CASE t.kind = "amm_add_liquidity"
  <2>1. CanAddLiquidity(l, t) /\ Apply(l, t) = AddLiquidity(l, t) BY <1>10 DEF Accepts, Apply, ContractKinds
  <2> QED BY <2>1, AddLiquiditySound
<1>11. CASE t.kind = "amm_swap"
  <2>1. CanSwap(l, t) /\ Apply(l, t) = Swap(l, t) BY <1>11 DEF Accepts, Apply, ContractKinds
  <2> QED BY <2>1, SwapSound
<1>12. CASE t.kind \in ContractKinds
  <2>1. Apply(l, t) = RunContract(l, t) BY <1>12 DEF Apply, ContractKinds
  <2> QED BY <1>1, <2>1, ContractSound, SamePools
<1> QED BY <1>2, <1>3, <1>4, <1>5, <1>6, <1>7, <1>8, <1>9, <1>10, <1>11, <1>12
       DEF Kinds, AMMKinds

(***************************************************************************)
(* A call of Ledger.Transaction, accepted or refused, leaves the ledger    *)
(* sound and every pool no poorer.                                         *)
(***************************************************************************)
LEMMA TransactionSound ==
  ASSUME NEW l, Sound(l), NEW t \in Tx
  PROVE  Sound(Transaction(l, t)) /\ PoolStep(l, Transaction(l, t))
<1>1. l \in LedgerType BY DEF Sound
<1>2. Sound(Rejected(l, t)) /\ Rejected(l, t).pools = l.pools
  BY ContractSound DEF Rejected, RejectedContract
<1>3. PoolStep(l, Rejected(l, t)) BY <1>1, <1>2, SamePools
<1> QED BY <1>2, <1>3, ApplySound DEF Transaction

-----------------------------------------------------------------------------
(* The registries. *)

(***************************************************************************)
(* NoncesConsumedOnce and NFTProvenance of a ledger that need not be the   *)
(* current one, in parts that a step can be checked against one at a time. *)
(***************************************************************************)
Sent(l, a) == {t \in l.history : t.evm /\ t.from = a}

NoncesTake(l, a) ==
  /\ \A t \in Sent(l, a) : t.nonce < l.nonces[a]
  /\ \A n \in 0 .. (l.nonces[a] - 1) : \E t \in Sent(l, a) : t.nonce = n
  /\ \A t, u \in Sent(l, a) : t.nonce = u.nonce => t = u

MintedBy(l, k, t) ==
  /\ t.kind = "nft_mint" /\ t.token = k
  /\ t.id = l.nfts[k].mintTx /\ t.from = l.nfts[k].minter

OwnedBy(l, k, t) ==
  /\ t.kind \in {"nft_mint", "nft_transfer"} /\ t.token = k
  /\ t.id = l.nfts[k].lastTx /\ t.to = l.nfts[k].owner

Traced(l, k) ==
  l.nfts[k] # None => /\ \E t \in l.history : MintedBy(l, k, t)
                      /\ \E t \in l.history : OwnedBy(l, k, t)

Registry(l) ==
  /\ \A a \in Account : NoncesTake(l, a)
  /\ \A k \in Token : Traced(l, k)

(***************************************************************************)
(* What a step may do to an entry of the token registry: nothing, write a  *)
(* fresh one, or hand it over by a recorded transfer that its owner signed.*)
(***************************************************************************)
TokenStep(l, m) ==
  \A k \in Token : l.nfts[k] # None =>
    /\ m.nfts[k] # None
    /\ m.nfts[k].mintTx = l.nfts[k].mintTx
    /\ m.nfts[k].owner # l.nfts[k].owner =>
         \E t \in m.history :
           t.id = m.nfts[k].lastTx /\ t.from = l.nfts[k].owner /\ t.signed

-----------------------------------------------------------------------------
(* Recording. *)

(***************************************************************************)
(* An identifier names one transaction, so storing a transaction under its *)
(* identifier never displaces another: the history only grows.             *)
(***************************************************************************)
LEMMA RecordedHistory ==
  ASSUME NEW l \in LedgerType, NEW t \in Tx
  PROVE  /\ Recorded(l, t).history = l.history \cup {t}
         /\ Recorded(l, t).nonces =
              IF t.evm THEN [l.nonces EXCEPT ![t.from] = t.nonce + 1] ELSE l.nonces
<1> DEFINE H == {h \in l.history : h.id # t.id} \cup {t}
           N == IF t.evm THEN [l.nonces EXCEPT ![t.from] = t.nonce + 1] ELSE l.nonces
<1>1. l.history \subseteq Tx BY DEF LedgerType
<1>2. H = l.history \cup {t} BY <1>1, TxAssumption
<1>3. Recorded(l, t) = [l EXCEPT !.history = H, !.nonces = N] BY DEF Recorded
<1> HIDE DEF H, N
<1>4. Recorded(l, t).history = H /\ Recorded(l, t).nonces = N BY <1>3 DEF LedgerType
<1> QED BY <1>2, <1>4 DEF N

(***************************************************************************)
(* Recording a wallet transaction whose nonce matches consumes exactly the *)
(* nonce it carries; any other transaction consumes none.                  *)
(***************************************************************************)
LEMMA RecordedNonces ==
  ASSUME NEW l \in LedgerType, NEW t \in Tx, NEW m, NonceMatches(l, t),
         m.history = Recorded(l, t).history, m.nonces = Recorded(l, t).nonces,
         \A a \in Account : NoncesTake(l, a),
         NEW a \in Account
  PROVE  NoncesTake(m, a)
<1>1. m.history = l.history \cup {t} BY RecordedHistory
<1>2. m.nonces = IF t.evm THEN [l.nonces EXCEPT ![t.from] = t.nonce + 1] ELSE l.nonces
  BY RecordedHistory
<1>3. l.nonces \in [Account -> Nat] /\ t.from \in Account /\ t.nonce \in Nat
  BY TxFields DEF LedgerType
<1>4. \A u \in Sent(l, a) : u.nonce \in Nat BY TxFields DEF Sent, LedgerType
<1>5. CASE t.evm /\ t.from = a
  <2>1. Sent(m, a) = Sent(l, a) \cup {t} BY <1>1, <1>5 DEF Sent
  <2>2. m.nonces[a] = l.nonces[a] + 1 /\ l.nonces[a] = t.nonce
    BY <1>2, <1>3, <1>5 DEF NonceMatches
  <2>3. NoncesTake(l, a) OBVIOUS
  <2> QED BY <1>3, <1>4, <2>1, <2>2, <2>3 DEF NoncesTake
<1>6. CASE ~(t.evm /\ t.from = a)
  <2>1. Sent(m, a) = Sent(l, a) BY <1>1, <1>6 DEF Sent
  <2>2. m.nonces[a] = l.nonces[a] BY <1>2, <1>3, <1>6
  <2> QED BY <2>1, <2>2 DEF NoncesTake
<1> QED BY <1>5, <1>6

-----------------------------------------------------------------------------
(* What each kind does to the history, the nonces and the tokens. *)

(***************************************************************************)
(* A ledger that differs from the recorded one in other fields only.       *)
(***************************************************************************)
RecordsOnly(l, t, m) ==
  /\ m.history = Recorded(l, t).history
  /\ m.nonces = Recorded(l, t).nonces
  /\ m.nfts = l.nfts

(***************************************************************************)
(* The kinds that move balances, pools or EVM nonces leave the tokens      *)
(* alone and record the transaction.                                       *)
(***************************************************************************)
LEMMA PaymentRecords ==
  ASSUME NEW l \in LedgerType, NEW t \in Tx
  PROVE  /\ RecordsOnly(l, t, Transfer(l, t))
         /\ RecordsOnly(l, t, Mint(l, t))
         /\ RecordsOnly(l, t, AssetCredit(l, t))
         /\ RecordsOnly(l, t, AssetDebit(l, t))
         /\ RecordsOnly(l, t, CreatePool(l, t))
         /\ RecordsOnly(l, t, AddLiquidity(l, t))
         /\ RecordsOnly(l, t, Swap(l, t))
         /\ RecordsOnly(l, t, RunContract(l, t))
<1> DEFINE r == Recorded(l, t)
<1>1. r \in LedgerType /\ r.nfts = l.nfts BY RecordedType
<1> HIDE DEF r
<1>2. ASSUME NEW B
      PROVE  RecordsOnly(l, t, [r EXCEPT !.bal = B])
  BY <1>1 DEF RecordsOnly, LedgerType, r
<1>3. ASSUME NEW B, NEW V
      PROVE  RecordsOnly(l, t, [r EXCEPT !.bal = B, !.validators = V])
  BY <1>1 DEF RecordsOnly, LedgerType, r
<1>4. ASSUME NEW i, NEW q
      PROVE  RecordsOnly(l, t, [r EXCEPT !.pools[i] = q])
  BY <1>1 DEF RecordsOnly, LedgerType, r
<1>5. ASSUME NEW B, NEW i, NEW q
      PROVE  RecordsOnly(l, t, [r EXCEPT !.bal = B, !.pools[i] = q])
  BY <1>1 DEF RecordsOnly, LedgerType, r
<1>6. RecordsOnly(l, t, BumpEVMNonce(r, t))
  BY <1>1 DEF BumpEVMNonce, RecordsOnly, LedgerType, r
<1>7. RecordsOnly(l, t, Transfer(l, t)) BY <1>2 DEF Transfer, r
<1>8. RecordsOnly(l, t, Mint(l, t)) BY <1>3 DEF Mint, r
<1>9. RecordsOnly(l, t, AssetCredit(l, t)) /\ RecordsOnly(l, t, AssetDebit(l, t))
  BY <1>2 DEF AssetCredit, AssetDebit, r
<1>10. RecordsOnly(l, t, CreatePool(l, t)) BY <1>4 DEF CreatePool, r
<1>11. RecordsOnly(l, t, AddLiquidity(l, t)) BY <1>5 DEF AddLiquidity, r
<1>12. RecordsOnly(l, t, Swap(l, t)) BY <1>5 DEF Swap, r
<1>13. RecordsOnly(l, t, RunContract(l, t)) BY <1>6 DEF RunContract, r
<1> QED BY <1>7, <1>8, <1>9, <1>10, <1>11, <1>12, <1>13

(***************************************************************************)
(* An accepted wallet transaction matched its sender's nonce: the three    *)
(* kinds a wallet can sign all ask for it.                                 *)
(***************************************************************************)
LEMMA AcceptedNonce ==
  ASSUME NEW l, NEW t \in Tx, Accepts(l, t)
  PROVE  NonceMatches(l, t)
<1>1. SUFFICES ASSUME t.evm PROVE NonceMatches(l, t) BY DEF NonceMatches
<1>2. t.kind \in ContractKinds \cup {"transfer", "amm_swap"} BY <1>1, TxAssumption
<1>3. CASE t.kind = "transfer" BY <1>3 DEF Accepts, CanTransfer, ContractKinds
<1>4. CASE t.kind = "amm_swap" BY <1>4 DEF Accepts, CanSwap, ContractKinds
<1>5. CASE t.kind \in ContractKinds BY <1>5 DEF Accepts, CanRunContract, ContractKinds
<1> QED BY <1>2, <1>3, <1>4, <1>5

(***************************************************************************)
(* A step that records a transaction and leaves the tokens alone keeps     *)
(* every token traced: the history still holds what the tokens name.       *)
(***************************************************************************)
LEMMA SameTokens ==
  ASSUME NEW l \in LedgerType, NEW m, NEW k \in Token, Traced(l, k),
         m.nfts[k] = l.nfts[k], l.history \subseteq m.history
  PROVE  Traced(m, k)
BY DEF Traced, MintedBy, OwnedBy

WithToken(l, t, v) == [Recorded(l, t) EXCEPT !.nfts[t.token] = v]

(***************************************************************************)
(* Minting and transferring write one entry of the registry, beside the    *)
(* recording of the transaction.                                           *)
(***************************************************************************)
LEMMA TokenWritten ==
  ASSUME NEW l \in LedgerType, NEW t \in Tx, NEW v \in NFTToken
  PROVE  /\ WithToken(l, t, v).history = Recorded(l, t).history
         /\ WithToken(l, t, v).nonces = Recorded(l, t).nonces
         /\ \A k \in Token : WithToken(l, t, v).nfts[k] = IF k = t.token THEN v ELSE l.nfts[k]
<1> DEFINE r == Recorded(l, t)
           m == WithToken(l, t, v)
<1>1. r \in LedgerType /\ r.nfts = l.nfts BY RecordedType
<1>2. m = [r EXCEPT !.nfts[t.token] = v] BY DEF WithToken
<1> HIDE DEF r, m
<1>3. t.token \in Token BY TxFields
<1>4. m.history = r.history /\ m.nonces = r.nonces BY <1>1, <1>2 DEF LedgerType
<1>5. m.nfts = [l.nfts EXCEPT ![t.token] = v] BY <1>1, <1>2 DEF LedgerType
<1>6. l.nfts \in [Token -> NFTToken \cup {None}] BY DEF LedgerType
<1>7. \A k \in Token : m.nfts[k] = IF k = t.token THEN v ELSE l.nfts[k] BY <1>3, <1>5, <1>6
<1> QED BY <1>4, <1>7 DEF r, m

(***************************************************************************)
(* Whatever its kind, an accepted transaction is recorded, and it changes  *)
(* the tokens as TokenStep allows.                                         *)
(***************************************************************************)
LEMMA ApplyRegistry ==
  ASSUME NEW l, l \in LedgerType, Registry(l), NEW t \in Tx, Accepts(l, t)
  PROVE  Registry(Apply(l, t)) /\ TokenStep(l, Apply(l, t))
<1> DEFINE m == Apply(l, t)
<1>1. t.kind \in Kinds /\ t.signed BY TxAssumption DEF TxRecord, Accepts
<1>2. t.token \in Token /\ t.from \in Account /\ t.to \in Account /\ t.id \in TxId BY TxFields
<1>3. ASSUME m.history = Recorded(l, t).history, m.nonces = Recorded(l, t).nonces
      PROVE  (\A a \in Account : NoncesTake(m, a)) /\ m.history = l.history \cup {t}
  <2> HIDE DEF m
  <2>1. \A a \in Account : NoncesTake(m, a)
    BY <1>3, AcceptedNonce, RecordedNonces DEF Registry
  <2> QED BY <1>3, <2>1, RecordedHistory
<1>4. CASE t.kind = "nft_mint"
  <2> DEFINE v == [owner |-> t.to, minter |-> t.from, mintTx |-> t.id, lastTx |-> t.id]
  <2>1. CanNFTMint(l, t) /\ m = NFTMint(l, t) BY <1>4 DEF Accepts, Apply, ContractKinds
  <2>2. m = WithToken(l, t, v) BY <2>1 DEF NFTMint, WithToken
  <2>3. /\ v \in NFTToken /\ v.owner = t.to /\ v.minter = t.from
        /\ v.mintTx = t.id /\ v.lastTx = t.id
    BY <1>2 DEF NFTToken
  <2> HIDE DEF m, v
  <2>4. /\ m.history = Recorded(l, t).history
        /\ m.nonces = Recorded(l, t).nonces
        /\ \A k \in Token : m.nfts[k] = IF k = t.token THEN v ELSE l.nfts[k]
    BY <2>2, <2>3, TokenWritten
  <2>5. m.history = l.history \cup {t} /\ \A a \in Account : NoncesTake(m, a) BY <1>3, <2>4
  <2>6. ASSUME NEW k \in Token PROVE Traced(m, k)
    <3>1. CASE k = t.token
      <4>1. m.nfts[k] = v /\ t \in m.history BY <2>4, <2>5, <3>1
      <4>2. MintedBy(m, k, t) /\ OwnedBy(m, k, t)
        BY <1>4, <2>3, <3>1, <4>1 DEF MintedBy, OwnedBy
      <4> QED BY <4>1, <4>2 DEF Traced
    <3>2. CASE k # t.token
      <4>1. m.nfts[k] = l.nfts[k] /\ l.history \subseteq m.history BY <2>4, <2>5, <3>2
      <4> QED BY <4>1, SameTokens DEF Registry
    <3> QED BY <3>1, <3>2
  <2>7. TokenStep(l, m) BY <2>1, <2>4 DEF TokenStep, CanNFTMint
  <2> QED BY <2>5, <2>6, <2>7 DEF Registry, m
<1>5. CASE t.kind = "nft_transfer"
  <2> DEFINE v == [l.nfts[t.token] EXCEPT !.owner = t.to, !.lastTx = t.id]
  <2>1. CanNFTTransfer(l, t) /\ m = NFTTransfer(l, t) BY <1>5 DEF Accepts, Apply, ContractKinds
  <2>2. l.nfts[t.token] # None /\ l.nfts[t.token].owner = t.from BY <2>1 DEF CanNFTTransfer
  <2>3. Recorded(l, t).nfts = l.nfts BY RecordedType
  <2>4. m = WithToken(l, t, v) BY <2>1, <2>3 DEF NFTTransfer, WithToken
  <2>5. l.nfts[t.token] \in NFTToken BY <1>2, <2>2 DEF LedgerType
  <2>6. /\ v \in NFTToken /\ v.owner = t.to /\ v.lastTx = t.id
        /\ v.minter = l.nfts[t.token].minter /\ v.mintTx = l.nfts[t.token].mintTx
    BY <1>2, <2>5 DEF NFTToken
  <2> HIDE DEF m, v
  <2>7. /\ m.history = Recorded(l, t).history
        /\ m.nonces = Recorded(l, t).nonces
        /\ \A k \in Token : m.nfts[k] = IF k = t.token THEN v ELSE l.nfts[k]
    BY <2>4, <2>6, TokenWritten
  <2>8. m.history = l.history \cup {t} /\ \A a \in Account : NoncesTake(m, a) BY <1>3, <2>7
  <2>9. ASSUME NEW k \in Token PROVE Traced(m, k)
    <3>1. CASE k = t.token
      <4>1. m.nfts[k] = v /\ t \in m.history BY <2>7, <2>8, <3>1
      <4>2. OwnedBy(m, k, t) BY <1>5, <2>6, <3>1, <4>1 DEF OwnedBy
      <4>3. PICK u \in l.history : MintedBy(l, k, u) BY <2>2, <3>1 DEF Registry, Traced
      <4>4. u \in m.history /\ MintedBy(m, k, u) BY <2>6, <2>8, <3>1, <4>1, <4>3 DEF MintedBy
      <4> QED BY <4>1, <4>2, <4>4 DEF Traced
    <3>2. CASE k # t.token
      <4>1. m.nfts[k] = l.nfts[k] /\ l.history \subseteq m.history BY <2>7, <2>8, <3>2
      <4> QED BY <4>1, SameTokens DEF Registry
    <3> QED BY <3>1, <3>2
  <2>10. TokenStep(l, m)
    <3>1. v # None BY <2>6, NoneAssumption
    <3>2. t \in m.history BY <2>8
    <3> QED BY <1>1, <2>2, <2>6, <2>7, <3>1, <3>2 DEF TokenStep
  <2> QED BY <2>8, <2>9, <2>10 DEF Registry, m
<1>6. CASE t.kind \in Kinds \ {"nft_mint", "nft_transfer"}
  <2>1. RecordsOnly(l, t, m)
    BY <1>6, PaymentRecords DEF Apply, Kinds, AMMKinds, ContractKinds
  <2> HIDE DEF m
  <2>2. m.history = l.history \cup {t} /\ \A a \in Account : NoncesTake(m, a)
    BY <1>3, <2>1 DEF RecordsOnly
  <2>3. m.nfts = l.nfts BY <2>1 DEF RecordsOnly
  <2>4. \A k \in Token : Traced(m, k) BY <2>2, <2>3, SameTokens DEF Registry
  <2>5. TokenStep(l, m) BY <2>3 DEF TokenStep
  <2> QED BY <2>2, <2>4, <2>5 DEF Registry, m
<1> QED BY <1>1, <1>4, <1>5, <1>6

(***************************************************************************)
(* A refused transaction, and the reward of a block, change neither the    *)
(* history nor the nonces nor the tokens.                                  *)
(***************************************************************************)
LEMMA RegistryKept ==
  ASSUME NEW l, NEW m, Registry(l),
         m.history = l.history, m.nonces = l.nonces, m.nfts = l.nfts
  PROVE  Registry(m) /\ TokenStep(l, m)
BY DEF Registry, NoncesTake, Sent, Traced, MintedBy, OwnedBy, TokenStep

(***************************************************************************)
(* A call of Ledger.Transaction, accepted or refused, keeps the registry   *)
(* consistent.                                                             *)
(***************************************************************************)
LEMMA TransactionRegistry ==
  ASSUME NEW l, l \in LedgerType, Registry(l), NEW t \in Tx
  PROVE  Registry(Transaction(l, t)) /\ TokenStep(l, Transaction(l, t))
<1> DEFINE m == Rejected(l, t)
<1>1. m.history = l.history /\ m.nonces = l.nonces /\ m.nfts = l.nfts
  BY DEF Rejected, RejectedContract, BumpEVMNonce, LedgerType
<1> HIDE DEF m
<1>2. Registry(m) /\ TokenStep(l, m) BY <1>1, RegistryKept
<1> QED BY <1>2, ApplyRegistry DEF Transaction, m

-----------------------------------------------------------------------------
(* Supply: what credits, debits and writes to a pool do to the sums. *)

Balances == [Asset -> [Account -> Int]]

Total(bal, u) == Sum(bal[u], Account)

Holdings(pools, u) == [i \in PoolId |-> PoolHolding(pools[i], u)]

Pooled(pools, u) == Sum(Holdings(pools, u), PoolId)

(***************************************************************************)
(* There are finitely many pools.                                          *)
(***************************************************************************)
LEMMA FinitePools == ASSUME IsFiniteSet(Asset) PROVE IsFiniteSet(PoolId)
<1>1. PoolId \subseteq SUBSET Asset BY DEF PoolId
<1>2. IsFiniteSet(SUBSET Asset) BY FS_SUBSET
<1> QED BY <1>1, <1>2, FS_Subset

(***************************************************************************)
(* The supply of an asset is the two sums.                                 *)
(***************************************************************************)
LEMMA SupplyIs ==
  ASSUME IsFiniteSet(Asset), NEW l, NEW u
  PROVE  /\ PoolSupply(l, u) = Pooled(l.pools, u)
         /\ SupplyOf(l, u) = Total(l.bal, u) + Pooled(l.pools, u)
<1> DEFINE h == Holdings(l.pools, u)
<1>1. IsFiniteSet(PoolId) BY FinitePools
<1>2. \A i \in PoolId : h[i] = PoolHolding(l.pools[i], u) BY DEF Holdings
<1> HIDE DEF h
<1>3. ASSUME NEW g
      PROVE  Adds(h, PoolId, g) <=>
               g = [d \in SUBSET PoolId |->
                      IF d = {} THEN 0
                      ELSE PoolHolding(l.pools[Some(d)], u) + g[d \ {Some(d)}]]
  <2>1. \A d \in SUBSET PoolId : d # {} => h[Some(d)] = PoolHolding(l.pools[Some(d)], u)
    BY <1>2 DEF Some
  <2> QED BY <2>1 DEF Adds
<1>4. \E g : Adds(h, PoolId, g) BY <1>1, AddsExists
<1>5. \E g : g = [d \in SUBSET PoolId |->
                    IF d = {} THEN 0
                    ELSE PoolHolding(l.pools[Some(d)], u) + g[d \ {Some(d)}]]
  BY <1>3, <1>4
<1>6. PICK g : /\ g = [d \in SUBSET PoolId |->
                         IF d = {} THEN 0
                         ELSE PoolHolding(l.pools[Some(d)], u) + g[d \ {Some(d)}]]
               /\ PoolSupply(l, u) = g[PoolId]
  BY <1>5 DEF PoolSupply, MapThenSumSet, MapThenFoldSet, Some
<1>7. PoolSupply(l, u) = Pooled(l.pools, u)
  <2>1. Adds(h, PoolId, g) BY <1>3, <1>6
  <2>2. Sum(h, PoolId) = g[PoolId] BY <1>1, <2>1, SumIs
  <2> QED BY <1>6, <2>2 DEF Pooled, h
<1> QED BY <1>7 DEF SupplyOf, Total, Sum

(***************************************************************************)
(* A credit adds its amount to the total of its asset and to no other.     *)
(***************************************************************************)
LEMMA CreditTotal ==
  ASSUME IsFiniteSet(Account), NEW bal \in Balances, NEW s \in Asset, NEW a \in Account,
         NEW x \in Int, NEW u \in Asset
  PROVE  /\ CreditAsset(bal, s, a, x) \in Balances
         /\ Total(bal, u) \in Int
         /\ Total(CreditAsset(bal, s, a, x), u) = Total(bal, u) + IF u = s THEN x ELSE 0
<1> DEFINE new == CreditAsset(bal, s, a, x)
<1>1. new \in Balances BY DEF CreditAsset, Balances
<1>2. \A b \in Account : new[u][b] = IF u = s /\ b = a THEN bal[u][b] + x ELSE bal[u][b]
  BY DEF CreditAsset, Balances
<1>3. \A b \in Account : bal[u][b] \in Int BY DEF Balances
<1> HIDE DEF new
<1>4. Total(bal, u) \in Int BY <1>3, SumInteger DEF Total
<1>5. CASE u = s
  <2>1. new[u][a] = bal[u][a] + x /\ \A b \in Account \ {a} : new[u][b] = bal[u][b] BY <1>2, <1>5
  <2>2. Sum(new[u], Account) = Sum(bal[u], Account) + x BY <1>3, <2>1, SumMoves
  <2> QED BY <1>1, <1>4, <1>5, <2>2 DEF Total, new
<1>6. CASE u # s
  <2>1. \A b \in Account : new[u][b] = bal[u][b] BY <1>2, <1>6
  <2>2. Sum(new[u], Account) = Sum(bal[u], Account) BY <2>1, SumSame
  <2> QED BY <1>1, <1>4, <1>6, <2>2 DEF Total, new
<1> QED BY <1>5, <1>6

(***************************************************************************)
(* A debit is a credit of the negated amount.                              *)
(***************************************************************************)
LEMMA DebitTotal ==
  ASSUME IsFiniteSet(Account), NEW bal \in Balances, NEW s \in Asset, NEW a \in Account,
         NEW x \in Int, NEW u \in Asset
  PROVE  /\ DebitAsset(bal, s, a, x) \in Balances
         /\ Total(bal, u) \in Int
         /\ Total(DebitAsset(bal, s, a, x), u) = Total(bal, u) - IF u = s THEN x ELSE 0
<1>1. 0 - x \in Int OBVIOUS
<1>2. \A b \in Int : b - x = b + (0 - x) OBVIOUS
<1>3. DebitAsset(bal, s, a, x) = CreditAsset(bal, s, a, 0 - x)
  <2>1. bal[s][a] \in Int BY DEF Balances
  <2>2. bal[s][a] - x = bal[s][a] + (0 - x) BY <1>2, <2>1
  <2> QED BY <2>2 DEF DebitAsset, CreditAsset
<1> DEFINE new == CreditAsset(bal, s, a, 0 - x)
           y == 0 - x
<1>4. /\ new \in Balances /\ Total(bal, u) \in Int
      /\ Total(new, u) = Total(bal, u) + IF u = s THEN y ELSE 0
  BY <1>1, CreditTotal
<1>5. Total(bal, u) + (IF u = s THEN y ELSE 0) = Total(bal, u) - (IF u = s THEN x ELSE 0) BY <1>4
<1> HIDE DEF new
<1> QED BY <1>3, <1>4, <1>5 DEF new

(***************************************************************************)
(* Writing one pool changes what the pools hold by what that pool gains.   *)
(***************************************************************************)
LEMMA PooledMoves ==
  ASSUME IsFiniteSet(Asset), NEW pools \in [PoolId -> AMMPool \cup {None}], NEW i \in PoolId,
         NEW q \in AMMPool, NEW u \in Asset
  PROVE  /\ Pooled(pools, u) \in Int
         /\ Pooled([pools EXCEPT ![i] = q], u)
              = Pooled(pools, u) + (PoolHolding(q, u) - PoolHolding(pools[i], u))
<1> DEFINE f == Holdings(pools, u)
           e == Holdings([pools EXCEPT ![i] = q], u)
           c == PoolHolding(q, u) - PoolHolding(pools[i], u)
<1>1. IsFiniteSet(PoolId) BY FinitePools
<1>2. \A p \in AMMPool \cup {None} : PoolHolding(p, u) \in Int BY DEF PoolHolding, AMMPool
<1>3. \A j \in PoolId : f[j] = PoolHolding(pools[j], u) BY DEF Holdings
<1>4. \A j \in PoolId : e[j] = IF j = i THEN PoolHolding(q, u) ELSE f[j] BY <1>3 DEF Holdings
<1>5. \A j \in PoolId : f[j] \in Int BY <1>2, <1>3
<1>6. c \in Int /\ e[i] = f[i] + c
  <2>1. PoolHolding(q, u) \in Int /\ PoolHolding(pools[i], u) \in Int BY <1>2
  <2>2. e[i] = PoolHolding(q, u) /\ f[i] = PoolHolding(pools[i], u) BY <1>3, <1>4
  <2> HIDE DEF e, f
  <2> QED BY <2>1, <2>2
<1>7. \A j \in PoolId \ {i} : e[j] = f[j] BY <1>4
<1> HIDE DEF e, f, c
<1>8. Sum(e, PoolId) = Sum(f, PoolId) + c BY <1>1, <1>5, <1>6, <1>7, SumMoves
<1>9. Sum(f, PoolId) \in Int BY <1>1, <1>5, SumInteger
<1> QED BY <1>8, <1>9 DEF Pooled, e, f, c

-----------------------------------------------------------------------------
(* Conservation. *)

Finite == IsFiniteSet(Account) /\ IsFiniteSet(Asset)

(***************************************************************************)
(* A transfer takes from one account what it gives to another.             *)
(***************************************************************************)
LEMMA TransferConserves ==
  ASSUME Finite, NEW l, Sound(l), NEW t \in Tx, NEW u \in Asset
  PROVE  SupplyOf(Transfer(l, t), u) = SupplyOf(l, u)
<1> DEFINE paid == DebitAsset(l.bal, PKN, t.from, t.amount)
           B == CreditAsset(paid, PKN, t.to, t.amount)
           r == Recorded(l, t)
           m == [r EXCEPT !.bal = B]
<1>1. IsFiniteSet(Account) /\ IsFiniteSet(Asset) BY DEF Finite
<1>2. l \in LedgerType /\ l.bal \in Balances BY DEF Sound, LedgerType, Balances
<1>3. t.from \in Account /\ t.to \in Account /\ t.amount \in Int /\ PKN \in Asset
  BY TxFields, AccountAssumption
<1>4. r \in LedgerType /\ r.pools = l.pools BY <1>2, RecordedType
<1>5. Transfer(l, t) = m BY DEF Transfer
<1>6. /\ paid \in Balances /\ Total(l.bal, u) \in Int
      /\ Total(paid, u) = Total(l.bal, u) - IF u = PKN THEN t.amount ELSE 0
  BY <1>1, <1>2, <1>3, DebitTotal
<1> HIDE DEF paid, r
<1>7. Total(B, u) = Total(paid, u) + IF u = PKN THEN t.amount ELSE 0 BY <1>1, <1>3, <1>6, CreditTotal
<1> HIDE DEF B
<1>8. m.bal = B /\ m.pools = l.pools BY <1>4 DEF LedgerType
<1> HIDE DEF m
<1>9. Total(B, u) = Total(l.bal, u) BY <1>3, <1>6, <1>7
<1>10. SupplyOf(m, u) = Total(m.bal, u) + Pooled(m.pools, u) BY <1>1, SupplyIs
<1>11. SupplyOf(l, u) = Total(l.bal, u) + Pooled(l.pools, u) BY <1>1, SupplyIs
<1> QED BY <1>5, <1>8, <1>9, <1>10, <1>11

(***************************************************************************)
(* What a step that writes the balances and one pool does to the supply.   *)
(***************************************************************************)
LEMMA SupplyWithPool ==
  ASSUME Finite, NEW l, l \in LedgerType, NEW t \in Tx, NEW B, NEW i \in PoolId,
         NEW q \in AMMPool, NEW u \in Asset, Total(B, u) \in Int, Total(l.bal, u) \in Int,
         Total(B, u) + PoolHolding(q, u) = Total(l.bal, u) + PoolHolding(l.pools[i], u)
  PROVE  SupplyOf(WithPool(l, t, B, i, q), u) = SupplyOf(l, u)
<1> DEFINE r == Recorded(l, t)
           m == WithPool(l, t, B, i, q)
           P == [l.pools EXCEPT ![i] = q]
<1>1. IsFiniteSet(Asset) BY DEF Finite
<1>2. r \in LedgerType /\ r.pools = l.pools BY RecordedType
<1>3. m = [r EXCEPT !.bal = B, !.pools[i] = q] BY DEF WithPool
<1> HIDE DEF r, m
<1>4. m.bal = B /\ m.pools = P BY <1>2, <1>3 DEF LedgerType
<1>5. l.pools \in [PoolId -> AMMPool \cup {None}] BY DEF LedgerType
<1>6. /\ Pooled(l.pools, u) \in Int
      /\ Pooled(P, u) = Pooled(l.pools, u) + (PoolHolding(q, u) - PoolHolding(l.pools[i], u))
  BY <1>1, <1>5, PooledMoves
<1>7. PoolHolding(q, u) \in Int /\ PoolHolding(l.pools[i], u) \in Int
  <2>1. \A p \in AMMPool \cup {None} : PoolHolding(p, u) \in Int BY DEF PoolHolding, AMMPool
  <2> QED BY <1>5, <2>1
<1> HIDE DEF P
<1>8. SupplyOf(m, u) = Total(m.bal, u) + Pooled(m.pools, u) BY <1>1, SupplyIs
<1>9. SupplyOf(l, u) = Total(l.bal, u) + Pooled(l.pools, u) BY <1>1, SupplyIs
<1>10. Total(B, u) + Pooled(P, u) = Total(l.bal, u) + Pooled(l.pools, u)
  <2>1. \A b, c, x, y, n, k \in Int : b + x = c + y /\ k = n + (x - y) => b + k = c + n OBVIOUS
  <2>2. Pooled(P, u) \in Int BY <1>6, <1>7
  <2> QED BY <1>6, <1>7, <2>1, <2>2
<1> QED BY <1>4, <1>8, <1>9, <1>10 DEF m

(***************************************************************************)
(* What a pool of two assets holds of each.                                *)
(***************************************************************************)
LEMMA HoldingOf ==
  ASSUME NEW p \in AMMPool, p.assetA # p.assetB, NEW u
  PROVE  /\ u = p.assetA => PoolHolding(p, u) = p.reserveA
         /\ u = p.assetB => PoolHolding(p, u) = p.reserveB
         /\ u \notin {p.assetA, p.assetB} => PoolHolding(p, u) = 0
<1>1. p # None BY NoneAssumption
<1>2. p.reserveA \in Int /\ p.reserveB \in Int BY DEF AMMPool
<1> QED BY <1>1, <1>2 DEF PoolHolding

(***************************************************************************)
(* A deposit moves both amounts from the operator to the pool.             *)
(***************************************************************************)
LEMMA DepositConserves ==
  ASSUME Finite, NEW l, Sound(l), NEW t \in Tx, CanAddLiquidity(l, t), NEW u \in Asset
  PROVE  SupplyOf(AddLiquidity(l, t), u) = SupplyOf(l, u)
<1> DEFINE p == l.pools[t.pool]
           paid == DebitAsset(l.bal, p.assetA, t.from, t.amount)
           B == DebitAsset(paid, p.assetB, t.from, t.amountB)
           q == [p EXCEPT !.reserveA = @ + t.amount, !.reserveB = @ + t.amountB]
<1>1. IsFiniteSet(Account) BY DEF Finite
<1>2. l \in LedgerType /\ l.bal \in Balances BY DEF Sound, LedgerType, Balances
<1>3. t.from \in Account /\ t.amount \in Int /\ t.amountB \in Int /\ t.pool \in PoolId BY TxFields
<1>4. p \in AMMPool /\ p.assetA # p.assetB
  BY <1>3 DEF CanAddLiquidity, Sound, PoolsNamed, LedgerType
<1>5. AddLiquidity(l, t) = WithPool(l, t, B, t.pool, q) BY DEF AddLiquidity, WithPool
<1>6. p = l.pools[t.pool] OBVIOUS
<1> HIDE DEF p
<1>7. /\ p.assetA \in Asset /\ p.assetB \in Asset
      /\ p.reserveA \in Int /\ p.reserveB \in Int BY <1>4 DEF AMMPool
<1>8. /\ paid \in Balances /\ Total(l.bal, u) \in Int
      /\ Total(paid, u) = Total(l.bal, u) - IF u = p.assetA THEN t.amount ELSE 0
  BY <1>1, <1>2, <1>3, <1>7, DebitTotal
<1> HIDE DEF paid
<1>9. /\ Total(paid, u) \in Int
      /\ Total(B, u) = Total(paid, u) - IF u = p.assetB THEN t.amountB ELSE 0
  BY <1>1, <1>3, <1>7, <1>8, DebitTotal
<1> HIDE DEF B
<1>10. /\ q \in AMMPool /\ q.assetA = p.assetA /\ q.assetB = p.assetB
       /\ q.reserveA = p.reserveA + t.amount /\ q.reserveB = p.reserveB + t.amountB
  <2>1. q = SetReserves(p, p.reserveA + t.amount, p.reserveB + t.amountB) BY DEF SetReserves
  <2>2. p.reserveA + t.amount \in Int /\ p.reserveB + t.amountB \in Int BY <1>3, <1>7
  <2> HIDE DEF q
  <2> QED BY <1>4, <2>1, <2>2, PoolUpdate
<1> HIDE DEF q
<1>11. /\ u = p.assetA => PoolHolding(p, u) = p.reserveA /\ PoolHolding(q, u) = q.reserveA
       /\ u = p.assetB => PoolHolding(p, u) = p.reserveB /\ PoolHolding(q, u) = q.reserveB
       /\ u \notin {p.assetA, p.assetB} => PoolHolding(p, u) = 0 /\ PoolHolding(q, u) = 0
  BY <1>4, <1>10, HoldingOf
<1>12. Total(B, u) \in Int /\ Total(B, u) + PoolHolding(q, u) = Total(l.bal, u) + PoolHolding(p, u)
  BY <1>3, <1>4, <1>7, <1>8, <1>9, <1>10, <1>11
<1> QED BY <1>2, <1>3, <1>5, <1>6, <1>8, <1>10, <1>12, SupplyWithPool

(***************************************************************************)
(* A swap between the two assets of its pool moves one in and one out.     *)
(***************************************************************************)
LEMMA SwapConserves ==
  ASSUME Finite, NEW l, Sound(l), NEW t \in Tx, CanSwap(l, t), t.kind = "amm_swap", Paired(t),
         NEW u \in Asset
  PROVE  SupplyOf(Swap(l, t), u) = SupplyOf(l, u)
<1> DEFINE p == l.pools[t.pool]
           out == QuoteSwap(p, t.assetA, t.amount)
           paid == DebitAsset(l.bal, t.assetA, t.from, t.amount)
           B == CreditAsset(paid, t.assetB, t.from, out)
           q == ApplySwap(p, t.assetA, t.amount, out)
<1>1. IsFiniteSet(Account) BY DEF Finite
<1>2. l \in LedgerType /\ l.bal \in Balances BY DEF Sound, LedgerType, Balances
<1>3. /\ t.from \in Account /\ t.amount \in Nat /\ t.pool \in PoolId
      /\ t.assetA \in Asset /\ t.assetB \in Asset
  BY TxFields
<1>4. /\ p \in AMMPool /\ p.assetA # p.assetB /\ t.pool = {p.assetA, p.assetB}
      /\ p.reserveA >= 0 /\ p.reserveB >= 0
  BY <1>3 DEF CanSwap, Sound, Solvent, PoolsNamed, LedgerType
<1>5. Swap(l, t) = WithPool(l, t, B, t.pool, q) BY DEF Swap, WithPool
<1>6. p = l.pools[t.pool] OBVIOUS
<1>7. t.assetA # t.assetB /\ out >= 1 BY DEF CanSwap
<1> HIDE DEF p
<1>8. p.reserveA \in Nat /\ p.reserveB \in Nat BY <1>4 DEF AMMPool
<1>9. out \in Int
  <2> DEFINE rIn == ReserveIn(p, t.assetA)
             rOut == ReserveOut(p, t.assetA)
             f == AmountInAfterFee(t.amount)
  <2>1. out = ProductQuote(rIn, rOut, f) /\ rIn > 0 BY <1>7 DEF QuoteSwap
  <2>2. rIn \in Nat /\ rOut \in Nat BY <1>8 DEF ReserveIn, ReserveOut
  <2>3. f \in Nat BY <1>3, FeeBound
  <2> HIDE DEF rIn, rOut, f
  <2>4. rOut * f \in Nat /\ rIn + f \in Nat /\ rIn + f > 0 BY <2>1, <2>2, <2>3
  <2> QED BY <2>1, <2>4, DivisionFloor DEF ProductQuote
<1>10. t.amount \in Int BY <1>3
<1>11. /\ paid \in Balances /\ Total(l.bal, u) \in Int
       /\ Total(paid, u) = Total(l.bal, u) - IF u = t.assetA THEN t.amount ELSE 0
  BY <1>1, <1>2, <1>3, <1>10, DebitTotal
<1> HIDE DEF paid, out
<1>12. /\ Total(paid, u) \in Int
       /\ Total(B, u) = Total(paid, u) + IF u = t.assetB THEN out ELSE 0
  BY <1>1, <1>3, <1>9, <1>11, CreditTotal
<1> HIDE DEF B
<1>13. CASE t.assetA = p.assetA
  <2>1. t.assetB = p.assetB BY <1>4, <1>7, <1>13 DEF Paired
  <2> DEFINE a == p.reserveA + t.amount
             b == p.reserveB - out
  <2>2. q = SetReserves(p, a, b) BY <1>13 DEF ApplySwap, SetReserves
  <2>3. a \in Int /\ b \in Int BY <1>8, <1>9, <1>10
  <2> HIDE DEF q, a, b
  <2>4. q \in AMMPool /\ q.assetA = p.assetA /\ q.assetB = p.assetB /\ q.reserveA = a /\ q.reserveB = b
    BY <1>4, <2>2, <2>3, PoolUpdate
  <2>5. /\ u = p.assetA => PoolHolding(p, u) = p.reserveA /\ PoolHolding(q, u) = a
        /\ u = p.assetB => PoolHolding(p, u) = p.reserveB /\ PoolHolding(q, u) = b
        /\ u \notin {p.assetA, p.assetB} => PoolHolding(p, u) = 0 /\ PoolHolding(q, u) = 0
    BY <1>4, <2>4, HoldingOf
  <2>6. Total(B, u) \in Int /\ Total(B, u) + PoolHolding(q, u) = Total(l.bal, u) + PoolHolding(p, u)
    BY <1>4, <1>8, <1>9, <1>10, <1>11, <1>12, <1>13, <2>1, <2>5 DEF a, b
  <2> QED BY <1>2, <1>3, <1>5, <1>6, <1>11, <2>4, <2>6, SupplyWithPool DEF q
<1>14. CASE t.assetA # p.assetA
  <2>1. t.assetA = p.assetB /\ t.assetB = p.assetA BY <1>4, <1>7, <1>14 DEF Paired
  <2> DEFINE a == p.reserveA - out
             b == p.reserveB + t.amount
  <2>2. q = SetReserves(p, a, b) BY <1>4, <1>14 DEF ApplySwap, SetReserves, AMMPool
  <2>3. a \in Int /\ b \in Int BY <1>8, <1>9, <1>10
  <2> HIDE DEF q, a, b
  <2>4. q \in AMMPool /\ q.assetA = p.assetA /\ q.assetB = p.assetB /\ q.reserveA = a /\ q.reserveB = b
    BY <1>4, <2>2, <2>3, PoolUpdate
  <2>5. /\ u = p.assetA => PoolHolding(p, u) = p.reserveA /\ PoolHolding(q, u) = a
        /\ u = p.assetB => PoolHolding(p, u) = p.reserveB /\ PoolHolding(q, u) = b
        /\ u \notin {p.assetA, p.assetB} => PoolHolding(p, u) = 0 /\ PoolHolding(q, u) = 0
    BY <1>4, <2>4, HoldingOf
  <2>6. Total(B, u) \in Int /\ Total(B, u) + PoolHolding(q, u) = Total(l.bal, u) + PoolHolding(p, u)
    BY <1>4, <1>8, <1>9, <1>10, <1>11, <1>12, <2>1, <2>5 DEF a, b
  <2> QED BY <1>2, <1>3, <1>5, <1>6, <1>11, <2>4, <2>6, SupplyWithPool DEF q
<1> QED BY <1>13, <1>14
-----------------------------------------------------------------------------
(* What a replayed ledger holds: the supply and the history. *)

(***************************************************************************)
(* The genesis ledger is sound.                                            *)
(***************************************************************************)
LEMMA GenesisSound == Sound(InitializeFromGenesis)
<1>1. InitializeFromGenesis \in LedgerType
  BY AccountAssumption, AmountAssumption DEF InitializeFromGenesis, LedgerType
<1>2. Solvent(InitializeFromGenesis) /\ PoolsNamed(InitializeFromGenesis)
  BY AccountAssumption, AmountAssumption DEF InitializeFromGenesis, Solvent, PoolsNamed
<1> QED BY <1>1, <1>2 DEF Sound

(***************************************************************************)
(* Entering the miner in the registry, and paying it.                      *)
(***************************************************************************)
LEMMA MinerSound ==
  ASSUME NEW l, Sound(l), NEW a \in Account
  PROVE  /\ Sound(MarkValidator(l, a))
         /\ MarkValidator(l, a).bal = l.bal /\ MarkValidator(l, a).pools = l.pools
         /\ MarkValidator(l, a).history = l.history
         /\ Sound(PayReward(l, a))
         /\ PayReward(l, a).bal = CreditAsset(l.bal, PKN, a, MinerReward)
         /\ PayReward(l, a).pools = l.pools /\ PayReward(l, a).history = l.history
<1>1. l \in LedgerType /\ l.bal \in Covered BY DEF Sound, LedgerType, Solvent, Covered
<1> DEFINE n == MarkValidator(l, a)
           B == CreditAsset(l.bal, PKN, a, MinerReward)
           m == [l EXCEPT !.bal = B]
<1>2. n \in LedgerType /\ n.bal = l.bal /\ n.pools = l.pools /\ n.history = l.history
  BY <1>1 DEF MarkValidator, LedgerType
<1>3. B \in Covered BY <1>1, CreditCovered, AccountAssumption, AmountAssumption
<1>4. PayReward(l, a) = m BY DEF PayReward
<1> HIDE DEF n, B
<1>5. m \in LedgerType /\ m.bal = B /\ m.pools = l.pools /\ m.history = l.history
  BY <1>1, <1>3 DEF LedgerType, Covered
<1> HIDE DEF m
<1>6. Sound(m) BY <1>3, <1>5 DEF Sound, Solvent, PoolsNamed, Covered
<1>7. Sound(n) BY <1>2 DEF Sound, Solvent, PoolsNamed
<1> QED BY <1>2, <1>4, <1>5, <1>6, <1>7 DEF n, B

(***************************************************************************)
(* The supply of a ledger is a number.                                     *)
(***************************************************************************)
LEMMA SupplyInteger ==
  ASSUME Finite, NEW l, Sound(l), NEW u \in Asset
  PROVE  SupplyOf(l, u) \in Int /\ Total(l.bal, u) \in Int /\ PoolSupply(l, u) \in Int
<1>1. IsFiniteSet(Account) /\ IsFiniteSet(Asset) BY DEF Finite
<1>2. l.bal \in Balances /\ l.pools \in [PoolId -> AMMPool \cup {None}]
  BY DEF Sound, LedgerType, Balances
<1>3. Total(l.bal, u) \in Int
  <2>1. \A a \in Account : l.bal[u][a] \in Int BY <1>2 DEF Balances
  <2> QED BY <1>1, <2>1, SumInteger DEF Total
<1>4. Pooled(l.pools, u) \in Int
  <2> DEFINE q == [assetA |-> u, assetB |-> u, reserveA |-> 0, reserveB |-> 0]
  <2>1. {u, u} \in PoolId /\ q \in AMMPool BY DEF PoolId, AMMPool
  <2> HIDE DEF q
  <2> QED BY <1>1, <1>2, <2>1, PooledMoves
<1> QED BY <1>1, <1>3, <1>4, SupplyIs

(***************************************************************************)
(* The supply depends on balances and pools only, and a credit adds its    *)
(* amount to it.                                                           *)
(***************************************************************************)
LEMMA SupplySame ==
  ASSUME Finite, NEW l, NEW m, m.bal = l.bal, m.pools = l.pools, NEW u
  PROVE  SupplyOf(m, u) = SupplyOf(l, u)
<1>1. SupplyOf(m, u) = Total(m.bal, u) + Pooled(m.pools, u) BY SupplyIs DEF Finite
<1>2. SupplyOf(l, u) = Total(l.bal, u) + Pooled(l.pools, u) BY SupplyIs DEF Finite
<1> QED BY <1>1, <1>2

(***************************************************************************)
(* A credit of PKN adds its amount to the supply, a credit or debit of     *)
(* another asset adds nothing.                                             *)
(***************************************************************************)
LEMMA SupplyCredited ==
  ASSUME Finite, NEW l, Sound(l), NEW m, m.pools = l.pools,
         NEW s \in Asset, NEW a \in Account, NEW x \in Int
  PROVE  /\ m.bal = CreditAsset(l.bal, s, a, x) =>
              SupplyOf(m, PKN) = SupplyOf(l, PKN) + IF s = PKN THEN x ELSE 0
         /\ m.bal = DebitAsset(l.bal, s, a, x) /\ s # PKN => SupplyOf(m, PKN) = SupplyOf(l, PKN)
<1>1. IsFiniteSet(Account) /\ IsFiniteSet(Asset) /\ PKN \in Asset BY AccountAssumption DEF Finite
<1>2. l.bal \in Balances BY DEF Sound, LedgerType, Balances
<1>3. /\ SupplyOf(l, PKN) \in Int /\ Total(l.bal, PKN) \in Int
  BY <1>1, SupplyInteger
<1>4. /\ SupplyOf(m, PKN) = Total(m.bal, PKN) + Pooled(l.pools, PKN)
      /\ SupplyOf(l, PKN) = Total(l.bal, PKN) + Pooled(l.pools, PKN)
      /\ PoolSupply(l, PKN) = Pooled(l.pools, PKN)
  BY <1>1, SupplyIs
<1>5. Pooled(l.pools, PKN) \in Int BY <1>1, <1>4, SupplyInteger
<1>6. ASSUME m.bal = CreditAsset(l.bal, s, a, x)
      PROVE  SupplyOf(m, PKN) = SupplyOf(l, PKN) + IF s = PKN THEN x ELSE 0
  <2>1. Total(m.bal, PKN) = Total(l.bal, PKN) + IF PKN = s THEN x ELSE 0
    BY <1>1, <1>2, <1>6, CreditTotal
  <2> QED BY <1>3, <1>4, <1>5, <2>1
<1>7. ASSUME m.bal = DebitAsset(l.bal, s, a, x), s # PKN
      PROVE  SupplyOf(m, PKN) = SupplyOf(l, PKN)
  <2>1. Total(m.bal, PKN) = Total(l.bal, PKN) - IF PKN = s THEN x ELSE 0
    BY <1>1, <1>2, <1>7, DebitTotal
  <2> QED BY <1>3, <1>4, <1>5, <1>7, <2>1
<1> QED BY <1>6, <1>7

(***************************************************************************)
(* A new pool holds nothing.                                               *)
(***************************************************************************)
LEMMA NewPoolEmpty ==
  ASSUME Finite, NEW l, Sound(l), NEW t \in Tx, CanCreatePool(l, t), NEW u \in Asset
  PROVE  SupplyOf(CreatePool(l, t), u) = SupplyOf(l, u)
<1> DEFINE i == {t.assetA, t.assetB}
           q == [assetA |-> t.assetA, assetB |-> t.assetB, reserveA |-> 0, reserveB |-> 0]
           r == Recorded(l, t)
<1>1. t.assetA \in Asset /\ t.assetB \in Asset BY TxFields
<1>2. i \in PoolId /\ q \in AMMPool BY <1>1 DEF PoolId, AMMPool
<1>3. PoolHolding(q, u) = 0 BY DEF PoolHolding
<1>4. l.pools[i] = None BY DEF CanCreatePool
<1>5. PoolHolding(l.pools[i], u) = 0 BY <1>4 DEF PoolHolding
<1>6. r \in LedgerType /\ r.bal = l.bal /\ l \in LedgerType BY RecordedType DEF Sound
<1>7. CreatePool(l, t) = [r EXCEPT !.pools[i] = q] BY DEF CreatePool
<1>8. Total(l.bal, u) \in Int BY SupplyInteger
<1> HIDE DEF i, q, r
<1>9. CreatePool(l, t) = WithPool(l, t, l.bal, i, q) BY <1>6, <1>7 DEF LedgerType, WithPool, r
<1>10. Total(l.bal, u) + PoolHolding(q, u) = Total(l.bal, u) + PoolHolding(l.pools[i], u) BY <1>3, <1>5
<1> QED BY <1>2, <1>6, <1>8, <1>9, <1>10, SupplyWithPool

(***************************************************************************)
(* The PKN that a transaction creates.                                     *)
(***************************************************************************)
Created(t) == IF t.kind = "mint" THEN t.amount ELSE 0

(***************************************************************************)
(* Which balances the other kinds write.                                   *)
(***************************************************************************)
LEMMA PaymentBalances ==
  ASSUME NEW l, Sound(l), NEW t \in Tx
  PROVE  /\ Mint(l, t).bal = CreditAsset(l.bal, PKN, t.to, t.amount) /\ Mint(l, t).pools = l.pools
         /\ AssetCredit(l, t).bal = CreditAsset(l.bal, t.assetA, t.to, t.amount)
         /\ AssetCredit(l, t).pools = l.pools
         /\ AssetDebit(l, t).bal = DebitAsset(l.bal, t.assetA, t.to, t.amount)
         /\ AssetDebit(l, t).pools = l.pools
         /\ NFTMint(l, t).bal = l.bal /\ NFTMint(l, t).pools = l.pools
         /\ NFTTransfer(l, t).bal = l.bal /\ NFTTransfer(l, t).pools = l.pools
         /\ RunContract(l, t).bal = l.bal /\ RunContract(l, t).pools = l.pools
<1> DEFINE r == Recorded(l, t)
<1>1. r \in LedgerType /\ r.bal = l.bal /\ r.pools = l.pools BY RecordedType DEF Sound
<1>2. /\ Mint(l, t) = [r EXCEPT !.bal = CreditAsset(l.bal, PKN, t.to, t.amount),
                                !.validators = IF t.to \in Native THEN @ \cup {t.to} ELSE @]
      /\ AssetCredit(l, t) = [r EXCEPT !.bal = CreditAsset(l.bal, t.assetA, t.to, t.amount)]
      /\ AssetDebit(l, t) = [r EXCEPT !.bal = DebitAsset(l.bal, t.assetA, t.to, t.amount)]
      /\ RunContract(l, t) = BumpEVMNonce(r, t)
  BY DEF Mint, AssetCredit, AssetDebit, RunContract
<1>3. /\ NFTMint(l, t) = [r EXCEPT !.nfts[t.token] =
              [owner |-> t.to, minter |-> t.from, mintTx |-> t.id, lastTx |-> t.id]]
      /\ NFTTransfer(l, t) = [r EXCEPT !.nfts[t.token] = [@ EXCEPT !.owner = t.to, !.lastTx = t.id]]
  BY DEF NFTMint, NFTTransfer
<1> HIDE DEF r
<1>4. Mint(l, t).bal = CreditAsset(l.bal, PKN, t.to, t.amount) /\ Mint(l, t).pools = l.pools
  BY <1>1, <1>2 DEF LedgerType
<1>5. /\ AssetCredit(l, t).bal = CreditAsset(l.bal, t.assetA, t.to, t.amount)
      /\ AssetCredit(l, t).pools = l.pools
      /\ AssetDebit(l, t).bal = DebitAsset(l.bal, t.assetA, t.to, t.amount)
      /\ AssetDebit(l, t).pools = l.pools
  BY <1>1, <1>2 DEF LedgerType
<1>6. /\ NFTMint(l, t).bal = l.bal /\ NFTMint(l, t).pools = l.pools
      /\ NFTTransfer(l, t).bal = l.bal /\ NFTTransfer(l, t).pools = l.pools
  BY <1>1, <1>3 DEF LedgerType
<1>7. RunContract(l, t).bal = l.bal /\ RunContract(l, t).pools = l.pools
  BY <1>1, <1>2 DEF BumpEVMNonce, LedgerType
<1> QED BY <1>4, <1>5, <1>6, <1>7

(***************************************************************************)
(* An accepted transaction changes the supply of PKN by what it mints.     *)
(***************************************************************************)
LEMMA SupplyStep ==
  ASSUME Finite, NEW l, Sound(l), NEW t \in Tx, Accepts(l, t), Paired(t)
  PROVE  SupplyOf(Apply(l, t), PKN) = SupplyOf(l, PKN) + Created(t)
<1>1. PKN \in Asset BY AccountAssumption
<1>2. t.kind \in Kinds BY TxAssumption DEF TxRecord
<1>3. /\ t.to \in Account /\ t.amount \in Int /\ t.assetA \in Asset BY TxFields
<1>4. SupplyOf(l, PKN) \in Int BY <1>1, SupplyInteger
<1>5. ASSUME t.kind # "mint", SupplyOf(Apply(l, t), PKN) = SupplyOf(l, PKN)
      PROVE  SupplyOf(Apply(l, t), PKN) = SupplyOf(l, PKN) + Created(t)
  BY <1>4, <1>5 DEF Created
<1>6. CASE t.kind = "transfer"
  <2>1. Apply(l, t) = Transfer(l, t) BY <1>6 DEF Apply, ContractKinds
  <2> QED BY <1>1, <1>5, <1>6, <2>1, TransferConserves
<1>7. CASE t.kind = "mint"
  <2>1. Apply(l, t) = Mint(l, t) BY <1>7 DEF Apply, ContractKinds
  <2>2. SupplyOf(Mint(l, t), PKN) = SupplyOf(l, PKN) + IF PKN = PKN THEN t.amount ELSE 0
    BY <1>1, <1>3, PaymentBalances, SupplyCredited
  <2> QED BY <1>7, <2>1, <2>2 DEF Created
<1>8. CASE t.kind \in {"nft_mint", "nft_transfer"}
  <2>1. Apply(l, t) \in {NFTMint(l, t), NFTTransfer(l, t)} BY <1>8 DEF Apply, ContractKinds
  <2>2. Apply(l, t).bal = l.bal /\ Apply(l, t).pools = l.pools BY <2>1, PaymentBalances
  <2> QED BY <1>5, <1>8, <2>2, SupplySame
<1>9. CASE t.kind = "asset_credit"
  <2>1. t.assetA # PKN /\ Apply(l, t) = AssetCredit(l, t)
    BY <1>9 DEF Accepts, Apply, ContractKinds, CanAssetCredit
  <2>2. SupplyOf(Apply(l, t), PKN) = SupplyOf(l, PKN) + IF t.assetA = PKN THEN t.amount ELSE 0
    BY <1>3, <2>1, PaymentBalances, SupplyCredited
  <2> QED BY <1>4, <1>5, <1>9, <2>1, <2>2
<1>10. CASE t.kind = "asset_debit"
  <2>1. t.assetA # PKN /\ Apply(l, t) = AssetDebit(l, t)
    BY <1>10 DEF Accepts, Apply, ContractKinds, CanAssetDebit
  <2>2. SupplyOf(Apply(l, t), PKN) = SupplyOf(l, PKN)
    BY <1>3, <2>1, PaymentBalances, SupplyCredited
  <2> QED BY <1>5, <1>10, <2>2
<1>11. CASE t.kind = "amm_create_pool"
  <2>1. CanCreatePool(l, t) /\ Apply(l, t) = CreatePool(l, t) BY <1>11 DEF Accepts, Apply, ContractKinds
  <2> QED BY <1>1, <1>5, <1>11, <2>1, NewPoolEmpty
<1>12. CASE t.kind = "amm_add_liquidity"
  <2>1. CanAddLiquidity(l, t) /\ Apply(l, t) = AddLiquidity(l, t) BY <1>12 DEF Accepts, Apply, ContractKinds
  <2> QED BY <1>1, <1>5, <1>12, <2>1, DepositConserves
<1>13. CASE t.kind = "amm_swap"
  <2>1. CanSwap(l, t) /\ Apply(l, t) = Swap(l, t) BY <1>13 DEF Accepts, Apply, ContractKinds
  <2> QED BY <1>1, <1>5, <1>13, <2>1, SwapConserves
<1>14. CASE t.kind \in ContractKinds
  <2>1. Apply(l, t) = RunContract(l, t) /\ t.kind # "mint" BY <1>14 DEF Apply, ContractKinds
  <2>2. Apply(l, t).bal = l.bal /\ Apply(l, t).pools = l.pools BY <2>1, PaymentBalances
  <2> QED BY <1>5, <2>1, <2>2, SupplySame
<1> QED BY <1>2, <1>6, <1>7, <1>8, <1>9, <1>10, <1>11, <1>12, <1>13, <1>14 DEF Kinds, AMMKinds

(***************************************************************************)
(* Every accepted transaction is recorded, and nothing else is.            *)
(***************************************************************************)
LEMMA HistoryStep ==
  ASSUME NEW l, Sound(l), NEW t \in Tx, Accepts(l, t)
  PROVE  Apply(l, t).history = l.history \cup {t}
<1>1. l \in LedgerType BY DEF Sound
<1>2. t.kind \in Kinds BY TxAssumption DEF TxRecord
<1>3. Recorded(l, t).history = l.history \cup {t} BY <1>1, RecordedHistory
<1>4. Recorded(l, t) \in LedgerType BY <1>1, RecordedType
<1>5. CASE t.kind \in {"nft_mint", "nft_transfer"}
  <2>1. Apply(l, t) \in {NFTMint(l, t), NFTTransfer(l, t)} BY <1>5 DEF Apply, ContractKinds
  <2>2. /\ NFTMint(l, t).history = Recorded(l, t).history
        /\ NFTTransfer(l, t).history = Recorded(l, t).history
    <3> DEFINE r == Recorded(l, t)
    <3>1. /\ NFTMint(l, t) = [r EXCEPT !.nfts[t.token] =
                [owner |-> t.to, minter |-> t.from, mintTx |-> t.id, lastTx |-> t.id]]
          /\ NFTTransfer(l, t) = [r EXCEPT !.nfts[t.token] = [@ EXCEPT !.owner = t.to, !.lastTx = t.id]]
      BY DEF NFTMint, NFTTransfer
    <3>2. r \in LedgerType BY <1>4
    <3> HIDE DEF r
    <3> QED BY <3>1, <3>2 DEF LedgerType, r
  <2> QED BY <1>3, <2>1, <2>2
<1>6. CASE t.kind \in Kinds \ {"nft_mint", "nft_transfer"}
  <2>1. RecordsOnly(l, t, Apply(l, t))
    BY <1>1, <1>6, PaymentRecords DEF Apply, Kinds, AMMKinds, ContractKinds
  <2> QED BY <1>3, <2>1 DEF RecordsOnly
<1> QED BY <1>2, <1>5, <1>6
=============================================================================
