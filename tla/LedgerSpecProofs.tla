--------------------------- MODULE LedgerSpecProofs ---------------------------
(***************************************************************************)
(* Proofs about the ledger as a state machine: what holds of it in every   *)
(* order of transactions and rewards, with the inductive invariants Sound  *)
(* and Registry, and how the lottery's tickets follow the stake.           *)
(***************************************************************************)
EXTENDS LotterySpec, LedgerProofs

-----------------------------------------------------------------------------
(* Balances and pools. *)

(***************************************************************************)
(* One step of the specification.                                          *)
(***************************************************************************)
LEMMA StepSound ==
  ASSUME Sound(ledger), Next
  PROVE  Sound(ledger') /\ PoolStep(ledger, ledger')
<1>1. ASSUME NEW ks, Submit(ks) PROVE Sound(ledger') /\ PoolStep(ledger, ledger')
  <2>1. PICK t \in Tx : ledger' = Transaction(ledger, t) BY <1>1 DEF Submit
  <2> QED BY <2>1, TransactionSound
<1>2. ASSUME Reward PROVE Sound(ledger') /\ PoolStep(ledger, ledger')
  <2>1. PICK m \in Native : ledger' = PayReward(MarkValidator(ledger, m), m) BY <1>2 DEF Reward
  <2>2. m \in Account /\ ledger \in LedgerType BY AccountAssumption DEF Sound
  <2> QED BY <2>1, <2>2, RewardSound, SamePools
<1> QED BY <1>1, <1>2 DEF Next, SubmitTransfer, SubmitMint, SubmitNFT, SubmitAsset,
                          SubmitLiquidity, SubmitSwap, SubmitContract

(***************************************************************************)
(* The genesis ledger is sound.                                            *)
(***************************************************************************)
LEMMA InitSound ==
  ASSUME Init PROVE Sound(ledger)
<1>1. ledger \in LedgerType
  BY AccountAssumption, AmountAssumption DEF Init, InitializeFromGenesis, LedgerType
<1>2. Solvent(ledger) /\ PoolsNamed(ledger)
  BY AccountAssumption, AmountAssumption DEF Init, InitializeFromGenesis, Solvent, PoolsNamed
<1> QED BY <1>1, <1>2 DEF Sound

(***************************************************************************)
(* The inductive invariant holds in every reachable state.                 *)
(***************************************************************************)
LEMMA AlwaysSound == Spec => []Sound(ledger)
<1>1. Init => Sound(ledger) BY InitSound
<1>2. Sound(ledger) /\ [Next]_ledger => Sound(ledger)'
  BY StepSound DEF Sound, Solvent, PoolsNamed
<1> QED BY <1>1, <1>2, PTL DEF Spec

(***************************************************************************)
(* The ledger is well-typed and no order of transactions, blocks rewards   *)
(* and rejected submissions overdraws an account or a pool.                *)
(***************************************************************************)
THEOREM LedgerNeverOverdrawn == Spec => [](TypeOK /\ NoOverdraft)
<1>1. Sound(ledger) => TypeOK /\ NoOverdraft BY DEF Sound, TypeOK, NoOverdraft
<1> QED BY <1>1, AlwaysSound, PTL

(***************************************************************************)
(* A pool with liquidity keeps some of both assets forever, whatever the   *)
(* fee, the amounts and the order of the swaps.                            *)
(***************************************************************************)
THEOREM PoolsNeverDrained == Spec => NeverDrained
<1>1. Sound(ledger) /\ [Next]_ledger => [PoolStepKeepsReserves]_ledger
  BY StepSound DEF PoolStepKeepsReserves, PoolStep, PoolKept
<1> QED BY <1>1, AlwaysSound, PTL DEF Spec, NeverDrained

(***************************************************************************)
(* No swap or deposit decreases a pool's constant product: rounding of the *)
(* fee and of the quote is always in favour of the pool.                   *)
(***************************************************************************)
THEOREM ProductNeverDecreases == Spec => ConstantProduct
<1>1. Sound(ledger) /\ [Next]_ledger => [PoolStepKeepsProduct]_ledger
  BY StepSound DEF PoolStepKeepsProduct, PoolStep, PoolKept
<1> QED BY <1>1, AlwaysSound, PTL DEF Spec, ConstantProduct

-----------------------------------------------------------------------------
(* The registries. *)

(***************************************************************************)
(* One step of the specification.                                          *)
(***************************************************************************)
LEMMA StepRegistry ==
  ASSUME Sound(ledger), Registry(ledger), Next
  PROVE  Registry(ledger') /\ TokenStep(ledger, ledger')
<1>1. ledger \in LedgerType BY DEF Sound
<1>2. ASSUME NEW ks, Submit(ks) PROVE Registry(ledger') /\ TokenStep(ledger, ledger')
  <2>1. PICK t \in Tx : ledger' = Transaction(ledger, t) BY <1>2 DEF Submit
  <2> QED BY <1>1, <2>1, TransactionRegistry
<1>3. ASSUME Reward PROVE Registry(ledger') /\ TokenStep(ledger, ledger')
  <2>1. PICK m \in Native : ledger' = PayReward(MarkValidator(ledger, m), m) BY <1>3 DEF Reward
  <2>2. /\ ledger'.history = ledger.history /\ ledger'.nonces = ledger.nonces
        /\ ledger'.nfts = ledger.nfts
    BY <1>1, <2>1 DEF PayReward, MarkValidator, LedgerType
  <2> QED BY <2>2, RegistryKept
<1> QED BY <1>2, <1>3 DEF Next, SubmitTransfer, SubmitMint, SubmitNFT, SubmitAsset,
                          SubmitLiquidity, SubmitSwap, SubmitContract

(***************************************************************************)
(* The registry is empty at genesis and stays consistent in every          *)
(* reachable state.                                                        *)
(***************************************************************************)
LEMMA AlwaysRegistry == Spec => [](Sound(ledger) /\ Registry(ledger))
<1>1. Init => Registry(ledger)
  BY DEF Init, InitializeFromGenesis, Registry, NoncesTake, Sent, Traced
<1>2. Sound(ledger) /\ Registry(ledger) /\ [Next]_ledger => Registry(ledger)'
  <2>1. CASE Next BY <2>1, StepRegistry
  <2>2. CASE UNCHANGED ledger
    BY <2>2 DEF Registry, NoncesTake, Sent, Traced, MintedBy, OwnedBy
  <2> QED BY <2>1, <2>2
<1> QED BY <1>1, <1>2, AlwaysSound, PTL DEF Spec

-----------------------------------------------------------------------------
(***************************************************************************)
(* Every field of the ledger keeps its type, whatever is submitted.        *)
(***************************************************************************)
THEOREM LedgerWellTyped == Spec => []TypeOK
<1>1. Sound(ledger) => TypeOK BY DEF Sound, TypeOK
<1> QED BY <1>1, AlwaysSound, PTL

(***************************************************************************)
(* Replay protection: for every number of wallets, nonces and              *)
(* resubmissions, the recorded wallet transactions of a sender are exactly *)
(* one for each nonce below its current one.                               *)
(***************************************************************************)
THEOREM NoncesConsumed == Spec => []NoncesConsumedOnce
<1>1. Registry(ledger) => NoncesConsumedOnce
  BY DEF Registry, NoncesTake, Sent, NoncesConsumedOnce
<1> QED BY <1>1, AlwaysRegistry, PTL

(***************************************************************************)
(* The token registry agrees with the recorded history: the mint and the   *)
(* last transaction a token names are recorded, and the last one named its *)
(* owner.                                                                  *)
(***************************************************************************)
THEOREM TokensTraced == Spec => []NFTProvenance
<1>1. Registry(ledger) => NFTProvenance
  BY DEF Registry, Traced, MintedBy, OwnedBy, NFTProvenance
<1> QED BY <1>1, AlwaysRegistry, PTL

(***************************************************************************)
(* No step mints a token again or forgets it, and only a transfer signed   *)
(* by its owner hands it over.                                             *)
(***************************************************************************)
THEOREM TokensHandedOver == Spec => NFTHandover
<1>1. Sound(ledger) /\ Registry(ledger) /\ [Next]_ledger => [NFTStepOK]_ledger
  BY StepRegistry DEF NFTStepOK, TokenStep
<1> QED BY <1>1, AlwaysRegistry, PTL DEF Spec, NFTHandover

(***************************************************************************)
(* For finitely many accounts and assets, transfers, deposits and swaps    *)
(* between the two assets of a pool leave the supply of every asset as it  *)
(* was, whatever the amounts, the fee and the rounding.                    *)
(***************************************************************************)
THEOREM TradesConserveSupply ==
  ASSUME IsFiniteSet(Account), IsFiniteSet(Asset)
  PROVE  Spec => SupplyConserved
<1>1. Finite BY DEF Finite
<1>2. Sound(ledger) => StepConservesSupply
  <2> SUFFICES ASSUME Sound(ledger), NEW t \in Tx, MovesOnly(t), Accepts(ledger, t),
                      ledger' = Apply(ledger, t), NEW s \in Asset
               PROVE  SupplyOf(ledger', s) = SupplyOf(ledger, s)
    BY DEF StepConservesSupply
  <2>1. CASE t.kind = "transfer"
    <3>1. ledger' = Transfer(ledger, t) BY <2>1 DEF Apply, ContractKinds
    <3> QED BY <1>1, <3>1, TransferConserves
  <2>2. CASE t.kind = "amm_add_liquidity"
    <3>1. CanAddLiquidity(ledger, t) /\ ledger' = AddLiquidity(ledger, t)
      BY <2>2 DEF Accepts, Apply, ContractKinds
    <3> QED BY <1>1, <3>1, DepositConserves
  <2>3. CASE t.kind = "amm_swap"
    <3>1. CanSwap(ledger, t) /\ ledger' = Swap(ledger, t) BY <2>3 DEF Accepts, Apply, ContractKinds
    <3>2. Paired(t) BY DEF MovesOnly
    <3> QED BY <1>1, <2>3, <3>1, <3>2, SwapConserves
  <2> QED BY <2>1, <2>2, <2>3 DEF MovesOnly
<1> QED BY <1>2, AlwaysSound, PTL DEF SupplyConserved

-----------------------------------------------------------------------------
(* Tickets. *)

Stake(l) == [a \in l.validators |-> IF l.bal[PKN][a] > 0 THEN l.bal[PKN][a] ELSE 0]

(***************************************************************************)
(* A larger dividend does not give a smaller quotient, and the quotient of *)
(* integers is an integer.                                                 *)
(***************************************************************************)
LEMMA DivisionMonotone ==
  ASSUME NEW d \in Nat, d > 0, NEW m \in Nat, NEW n \in Nat, m <= n
  PROVE  m \div d <= n \div d
<1> DEFINE x == m \div d
           y == n \div d
<1>1. x \in Int /\ m = d * x + (m % d) /\ 0 <= m % d /\ m % d \in Int OBVIOUS
<1>2. y \in Int /\ n = d * y + (n % d) /\ n % d < d /\ n % d \in Int OBVIOUS
<1> HIDE DEF x, y
<1>3. d * x < d * y + d
  <2>1. d * x \in Int /\ d * y \in Int BY <1>1, <1>2
  <2> QED BY <1>1, <1>2, <2>1
<1>4. x < y + 1
  <2> SUFFICES ASSUME ~(x < y + 1) PROVE FALSE OBVIOUS
  <2>1. x - (y + 1) \in Nat BY <1>1, <1>2
  <2>2. d * (x - (y + 1)) >= 0 BY <2>1
  <2>3. d * (x - (y + 1)) = d * x - (d * y + d) BY <1>1, <1>2
  <2>4. d * x \in Int /\ d * y \in Int BY <1>1, <1>2
  <2> QED BY <1>3, <2>2, <2>3, <2>4
<1> QED BY <1>1, <1>2, <1>4 DEF x, y

(***************************************************************************)
(* The stake that the lottery divides by.                                  *)
(***************************************************************************)
LEMMA TotalIs ==
  ASSUME IsFiniteSet(Account), NEW l, l \in LedgerType
  PROVE  /\ IsFiniteSet(l.validators)
         /\ TotalPositive(l) = Sum(Stake(l), l.validators)
         /\ \A a \in l.validators : Stake(l)[a] \in Nat
<1> DEFINE V == l.validators
           h == Stake(l)
           w(a) == IF l.bal[PKN][a] > 0 THEN l.bal[PKN][a] ELSE 0
<1>1. V \subseteq Account /\ \A a \in V : l.bal[PKN][a] \in Int
  BY AccountAssumption DEF LedgerType
<1>2. IsFiniteSet(V) BY <1>1, FS_Subset
<1>3. \A a \in V : h[a] = w(a) BY DEF Stake
<1>4. \A a \in V : h[a] \in Nat BY <1>1, <1>3
<1> HIDE DEF h
<1>5. ASSUME NEW g
      PROVE  Adds(h, V, g) <=>
               g = [d \in SUBSET V |-> IF d = {} THEN 0 ELSE w(Some(d)) + g[d \ {Some(d)}]]
  <2>1. \A d \in SUBSET V : d # {} => h[Some(d)] = w(Some(d)) BY <1>3 DEF Some
  <2> HIDE DEF w, V
  <2> QED BY <2>1 DEF Adds
<1>6. \E g : Adds(h, V, g) BY <1>2, AddsExists
<1>7. \E g : g = [d \in SUBSET V |-> IF d = {} THEN 0 ELSE w(Some(d)) + g[d \ {Some(d)}]]
  <2> HIDE DEF w
  <2> QED BY <1>5, <1>6
<1>8. PICK g : /\ g = [d \in SUBSET V |-> IF d = {} THEN 0 ELSE w(Some(d)) + g[d \ {Some(d)}]]
               /\ TotalPositive(l) = g[V]
  BY <1>7 DEF TotalPositive, MapThenSumSet, MapThenFoldSet, Some
<1>9. Adds(h, V, g)
  <2> HIDE DEF w
  <2> QED BY <1>5, <1>8
<1>10. Sum(h, V) = g[V] BY <1>2, <1>9, SumIs
<1> QED BY <1>2, <1>4, <1>8, <1>10 DEF h

(***************************************************************************)
(* A validator with a balance makes the stake positive.                    *)
(***************************************************************************)
LEMMA StakePositive ==
  ASSUME IsFiniteSet(Account), NEW l, l \in LedgerType
  PROVE  /\ TotalPositive(l) \in Nat
         /\ \A a \in l.validators : l.bal[PKN][a] > 0 => TotalPositive(l) > 0
<1> DEFINE V == l.validators
           h == Stake(l)
<1>1. /\ IsFiniteSet(V) /\ TotalPositive(l) = Sum(h, V) /\ \A a \in V : h[a] \in Nat
  BY TotalIs
<1>2. \A a \in V : l.bal[PKN][a] > 0 => h[a] = l.bal[PKN][a] BY DEF Stake
<1> HIDE DEF h
<1>3. V \in SUBSET V OBVIOUS
<1>4. Sum(h, V) \in Int /\ 0 <= Sum(h, V) BY <1>1, <1>3, SumOfPart
<1>5. ASSUME NEW a \in V, l.bal[PKN][a] > 0 PROVE Sum(h, V) > 0
  <2>1. \A b \in V : h[b] \in Int BY <1>1
  <2>2. Sum(h, V) = h[a] + Sum(h, V \ {a}) BY <1>1, <2>1, SumTake
  <2>3. V \ {a} \in SUBSET V OBVIOUS
  <2>4. Sum(h, V \ {a}) \in Int /\ 0 <= Sum(h, V \ {a}) BY <1>1, <2>3, SumOfPart
  <2>5. h[a] > 0 /\ h[a] \in Nat BY <1>1, <1>2, <1>5
  <2> QED BY <2>2, <2>4, <2>5
<1> QED BY <1>1, <1>4, <1>5

(***************************************************************************)
(* The registered validators that hold nothing.                            *)
(***************************************************************************)
Broke(l) == {b \in l.validators : l.bal[PKN][b] <= 0}

Share(n, d) == n \div d

(***************************************************************************)
(* What LotteryTickets answers for a registered native account.            *)
(***************************************************************************)
LEMMA TicketsAre ==
  ASSUME IsFiniteSet(Account), NEW l, l \in LedgerType, NEW a \in l.validators \cap Native
  PROVE  /\ l.bal[PKN][a] \in Int
         /\ IsFiniteSet(Broke(l)) /\ Cardinality(Broke(l)) \in Nat
         /\ l.bal[PKN][a] > 0 =>
              /\ TotalPositive(l) \in Nat /\ TotalPositive(l) > 0
              /\ LotteryTickets(l, a)
                   = AtLeastOne(Share(l.bal[PKN][a] * 97 * TicketScale, 100 * TotalPositive(l)))
         /\ l.bal[PKN][a] <= 0 =>
              /\ Cardinality(Broke(l)) > 0
              /\ LotteryTickets(l, a) = AtLeastOne(Share(3 * TicketScale, 100 * Cardinality(Broke(l))))
<1>1. l.validators \subseteq Account /\ l.bal[PKN][a] \in Int
  BY AccountAssumption DEF LedgerType
<1>2. Broke(l) \subseteq Account BY <1>1 DEF Broke
<1>3. IsFiniteSet(Broke(l)) /\ Cardinality(Broke(l)) \in Nat BY <1>2, FS_Subset, FS_CardinalityType
<1>4. CASE l.bal[PKN][a] > 0
  <2>1. TotalPositive(l) \in Nat /\ TotalPositive(l) > 0 BY <1>4, StakePositive
  <2> QED BY <1>1, <1>3, <1>4, <2>1 DEF LotteryTickets, Share
<1>5. CASE l.bal[PKN][a] <= 0
  <2>1. a \in Broke(l) BY <1>5 DEF Broke
  <2>2. Cardinality(Broke(l)) # 0 BY <1>3, <2>1, FS_EmptySet
  <2>3. Cardinality(Broke(l)) > 0 BY <1>3, <2>2
  <2>4. ZeroValidators(l, a) = Cardinality(Broke(l)) BY <1>3 DEF ZeroValidators, Broke
  <2>5. ~(l.bal[PKN][a] > 0) BY <1>1, <1>5
  <2> QED BY <1>1, <1>3, <2>3, <2>4, <2>5 DEF LotteryTickets, Share
<1> QED BY <1>1, <1>3, <1>4, <1>5

(***************************************************************************)
(* Rounded up to one ticket, a share exceeds what it divides by one at     *)
(* most.                                                                   *)
(***************************************************************************)
LEMMA ShareRounded ==
  ASSUME NEW n \in Nat, NEW d \in Nat, d > 0
  PROVE  /\ AtLeastOne(Share(n, d)) \in Nat /\ AtLeastOne(Share(n, d)) >= 1
         /\ d * (AtLeastOne(Share(n, d)) - 1) <= n
<1> DEFINE x == Share(n, d)
           y == AtLeastOne(x)
<1>1. x \in Nat /\ x * d <= n BY DivisionFloor DEF Share
<1> HIDE DEF x
<1>2. y \in Nat /\ y >= 1 /\ y - 1 <= x /\ y - 1 \in Nat BY <1>1 DEF AtLeastOne
<1> HIDE DEF y
<1>3. d * (y - 1) <= d * x
  <2>1. x - (y - 1) \in Nat BY <1>1, <1>2
  <2>2. d * (x - (y - 1)) >= 0 BY <2>1
  <2>3. d * (x - (y - 1)) = d * x - d * (y - 1) BY <1>1, <1>2
  <2>4. d * x \in Int /\ d * (y - 1) \in Int BY <1>1, <1>2
  <2> QED BY <2>2, <2>3, <2>4
<1>4. d * x = x * d /\ d * x \in Int /\ d * (y - 1) \in Int BY <1>1, <1>2
<1>5. d * (y - 1) <= n BY <1>1, <1>3, <1>4
<1> QED BY <1>2, <1>5 DEF x, y

(***************************************************************************)
(* For finitely many accounts, a registered validator keeps a ticket       *)
(* whatever it spends, and a larger balance never has fewer tickets.       *)
(***************************************************************************)
THEOREM ValidatorsStayEligible ==
  ASSUME IsFiniteSet(Account)
  PROVE  Spec => []ValidatorsKeepTickets
<1>1. ASSUME Sound(ledger) PROVE ValidatorsKeepTickets
  <2> DEFINE l == ledger
             total == TotalPositive(l)
             zeros == Cardinality(Broke(l))
             bal(a) == l.bal[PKN][a]
             K == 97 * TicketScale
  <2>1. l \in LedgerType BY <1>1 DEF Sound
  <2>2. K \in Nat /\ 3 * TicketScale \in Nat /\ TicketScale \in Nat BY SMT DEF TicketScale
  <2>3. ASSUME NEW a \in l.validators \cap Native PROVE LotteryTickets(l, a) >= 1
    <3>1. bal(a) \in Int BY <2>1, TicketsAre
    <3>2. CASE bal(a) > 0
      <4> DEFINE n == bal(a) * 97 * TicketScale
                 d == 100 * total
      <4>1. total \in Nat /\ total > 0 /\ LotteryTickets(l, a) = AtLeastOne(Share(n, d))
        BY <2>1, <3>2, TicketsAre
      <4>2. n \in Nat /\ d \in Nat /\ d > 0 BY <2>2, <3>1, <3>2, <4>1
      <4> HIDE DEF n, d
      <4> QED BY <4>1, <4>2, ShareRounded
    <3>3. CASE bal(a) <= 0
      <4> DEFINE n == 3 * TicketScale
                 d == 100 * zeros
      <4>1. zeros \in Nat /\ zeros > 0 /\ LotteryTickets(l, a) = AtLeastOne(Share(n, d))
        BY <2>1, <3>3, TicketsAre
      <4>2. n \in Nat /\ d \in Nat /\ d > 0 BY <2>2, <4>1
      <4> HIDE DEF n, d
      <4> QED BY <4>1, <4>2, ShareRounded
    <3> QED BY <3>1, <3>2, <3>3
  <2>4. ASSUME NEW a \in l.validators \cap Native, NEW b \in l.validators \cap Native,
               bal(a) >= bal(b), bal(b) > 0
        PROVE  LotteryTickets(l, a) >= LotteryTickets(l, b)
    <3> DEFINE d == 100 * total
               m == bal(b) * 97 * TicketScale
               n == bal(a) * 97 * TicketScale
    <3>1. bal(a) \in Int /\ bal(b) \in Int BY <2>1, TicketsAre
    <3>2. bal(a) > 0 BY <2>4, <3>1
    <3>3. /\ total \in Nat /\ total > 0
          /\ LotteryTickets(l, a) = AtLeastOne(Share(n, d))
          /\ LotteryTickets(l, b) = AtLeastOne(Share(m, d))
      BY <2>1, <2>4, <3>2, TicketsAre
    <3>4. m \in Nat /\ n \in Nat /\ m <= n BY <2>4, <3>1, <3>2, SMT DEF TicketScale
    <3>5. d \in Nat /\ d > 0 BY <3>3
    <3> HIDE DEF d, m, n
    <3>6. Share(m, d) <= Share(n, d) BY <3>4, <3>5, DivisionMonotone DEF Share
    <3>7. Share(m, d) \in Nat /\ Share(n, d) \in Nat BY <3>4, <3>5, DivisionFloor DEF Share
    <3> QED BY <3>3, <3>6, <3>7 DEF AtLeastOne
  <2> QED BY <2>3, <2>4 DEF ValidatorsKeepTickets, Tickets
<1> QED BY <1>1, AlwaysSound, PTL

(***************************************************************************)
(* The sum of tickets is one over a function.                              *)
(***************************************************************************)
LEMMA TicketSum ==
  ASSUME NEW S, IsFiniteSet(S), NEW h, \A a \in S : h[a] = Tickets(a)
  PROVE  MapThenSumSet(Tickets, S) = Sum(h, S)
<1>1. ASSUME NEW g
      PROVE  Adds(h, S, g) <=>
               g = [d \in SUBSET S |-> IF d = {} THEN 0 ELSE Tickets(Some(d)) + g[d \ {Some(d)}]]
  <2>1. \A d \in SUBSET S : d # {} => h[Some(d)] = Tickets(Some(d)) BY DEF Some
  <2> QED BY <2>1 DEF Adds
<1>2. \E g : Adds(h, S, g) BY AddsExists
<1>3. \E g : g = [d \in SUBSET S |-> IF d = {} THEN 0 ELSE Tickets(Some(d)) + g[d \ {Some(d)}]]
  BY <1>1, <1>2
<1>4. PICK g : /\ g = [d \in SUBSET S |-> IF d = {} THEN 0 ELSE Tickets(Some(d)) + g[d \ {Some(d)}]]
               /\ MapThenSumSet(Tickets, S) = g[S]
  BY <1>3 DEF MapThenSumSet, MapThenFoldSet, Some
<1>5. Adds(h, S, g) BY <1>1, <1>4
<1>6. Sum(h, S) = g[S] BY <1>5, SumIs
<1> QED BY <1>4, <1>6

(***************************************************************************)
(* A positive factor may be cancelled.                                     *)
(***************************************************************************)
LEMMA Cancel ==
  ASSUME NEW d \in Nat, d > 0, NEW x \in Int, NEW q \in Nat, d * x <= d * q
  PROVE  x <= q
<1> SUFFICES ASSUME ~(x <= q) PROVE FALSE OBVIOUS
<1>1. x - q - 1 \in Nat OBVIOUS
<1>2. d * (x - q - 1) >= 0 BY <1>1
<1>3. d * (x - q - 1) = d * x - d * q - d OBVIOUS
<1>4. d * x \in Int /\ d * q \in Int OBVIOUS
<1> QED BY <1>2, <1>3, <1>4

(***************************************************************************)
(* For finitely many accounts, up to the ticket of rounding each validator *)
(* is owed, the funded ones stay within 97% of the scale and the others    *)
(* within 3%, however the stake moves.                                     *)
(***************************************************************************)
THEOREM TicketsWithinBudget ==
  ASSUME IsFiniteSet(Account)
  PROVE  Spec => []TicketBudget
<1>1. ASSUME Sound(ledger) PROVE TicketBudget
  <2>1. ledger \in LedgerType BY <1>1 DEF Sound
  <2> DEFINE V == ledger.validators
             stake == Stake(ledger)
             total == TotalPositive(ledger)
             broke == Broke(ledger)
             zeros == Cardinality(broke)
  <2>2. IsFiniteSet(V) /\ total = Sum(stake, V) /\ \A a \in V : stake[a] \in Nat BY <2>1, TotalIs
  <2>3. total \in Nat BY <2>1, StakePositive
  <2>6. TicketScale \in Nat BY SMT DEF TicketScale
  <2>4. MapThenSumSet(Tickets, Funded) <= (97 * TicketScale) \div 100 + Cardinality(Funded)
    <3>5. PICK Q \in Nat : (97 * TicketScale) \div 100 = Q /\ 97 * TicketScale = 100 * Q
      BY SMT DEF TicketScale
    <3> DEFINE S == Funded
               f == [a \in S |-> Tickets(a)]
               K == 100 * Q
               h == [a \in S |-> K * stake[a]]
               d == 100 * total
    <3>1. S \in SUBSET V /\ S \in SUBSET (V \cap Native) BY DEF Funded
    <3>2. IsFiniteSet(S) /\ Cardinality(S) \in Nat BY <2>2, <3>1, FS_Subset, FS_CardinalityType
    <3>3. \A a \in S : f[a] = Tickets(a) OBVIOUS
    <3>4. MapThenSumSet(Tickets, S) = Sum(f, S)
      <4> HIDE DEF S, f
      <4> QED BY <3>2, <3>3, TicketSum
    <3>6. CASE S = {}
      <4>1. Sum(f, {}) = 0 BY SumEmpty
      <4>2. MapThenSumSet(Tickets, S) = 0 BY <3>4, <3>6, <4>1
      <4> QED BY <3>2, <3>5, <4>2
    <3>7. CASE S # {}
      <4>1. ASSUME NEW a \in S
            PROVE  /\ f[a] \in Int /\ h[a] \in Int /\ d * (f[a] - 1) <= h[a] /\ total > 0
                   /\ stake[a] \in Int /\ h[a] = K * stake[a]
        <5> DEFINE n == ledger.bal[PKN][a] * 97 * TicketScale
        <5>1. a \in V \cap Native /\ a \in V BY <3>1
        <5>2. ledger.bal[PKN][a] > 0 BY DEF Funded
        <5>3. ledger.bal[PKN][a] \in Int /\ total > 0 /\ LotteryTickets(ledger, a) = AtLeastOne(Share(n, d))
          BY <2>1, <5>1, <5>2, TicketsAre
        <5>4. stake[a] = ledger.bal[PKN][a] /\ stake[a] \in Nat BY <2>2, <5>1, <5>2 DEF Stake
        <5>5. h[a] = K * stake[a] OBVIOUS
        <5>6. n = K * stake[a] /\ n \in Nat
          <6>1. \A b, t \in Nat : b * 97 * t = (97 * t) * b OBVIOUS
          <6>2. n = (97 * TicketScale) * stake[a] BY <2>6, <5>4, <6>1
          <6> QED BY <3>5, <5>4, <6>2
        <5>7. d \in Nat /\ d > 0 BY <2>3, <5>3
        <5>8. f[a] = AtLeastOne(Share(n, d)) BY <3>3, <5>3 DEF Tickets
        <5> HIDE DEF n, d, f, h, K, stake
        <5>9. f[a] \in Nat /\ d * (f[a] - 1) <= n BY <5>6, <5>7, <5>8, ShareRounded
        <5>10. h[a] = n /\ h[a] \in Int BY <5>5, <5>6
        <5> QED BY <5>3, <5>4, <5>5, <5>9, <5>10
      <4>2. total > 0 BY <3>7, <4>1
      <4>3. d \in Nat /\ d > 0 BY <2>3, <4>2
      <4> HIDE DEF S, f, h, d, stake, V
      <4>4. d * (Sum(f, S) - Cardinality(S)) <= Sum(h, S)
        <5>1. \A x \in S : f[x] \in Int /\ h[x] \in Int /\ d * (f[x] - 1) <= h[x] BY <4>1
        <5> QED BY <3>2, <4>3, <5>1, SumRounded
      <4>5. Sum(h, S) = K * Sum(stake, S)
        <5>1. \A x \in S : stake[x] \in Int /\ h[x] = K * stake[x] BY <4>1
        <5> QED BY <3>2, <5>1, SumScaled
      <4>6. Sum(stake, S) \in Int /\ Sum(stake, S) <= total BY <2>2, <3>1, SumOfPart
      <4>7. Sum(f, S) \in Int BY <3>2, <4>1, SumInteger
      <4>8. d * (Sum(f, S) - Cardinality(S)) <= d * Q
        <5>1. K * Sum(stake, S) <= d * Q BY <2>3, <4>6 DEF d
        <5>2. d * (Sum(f, S) - Cardinality(S)) \in Int BY <3>2, <4>3, <4>7
        <5>3. K * Sum(stake, S) \in Int /\ d * Q \in Int BY <4>3, <4>6
        <5> QED BY <4>4, <4>5, <5>1, <5>2, <5>3
      <4>9. Sum(f, S) - Cardinality(S) \in Int BY <3>2, <4>7
      <4>10. Sum(f, S) - Cardinality(S) <= Q BY <4>3, <4>8, <4>9, Cancel
      <4> QED BY <3>2, <3>4, <3>5, <4>7, <4>10 DEF S
    <3> QED BY <3>6, <3>7
  <2>5. MapThenSumSet(Tickets, Unfunded) <= (3 * TicketScale) \div 100 + Cardinality(Unfunded)
    <3>6. PICK Q \in Nat : (3 * TicketScale) \div 100 = Q /\ 3 * TicketScale = 100 * Q
      BY SMT DEF TicketScale
    <3> DEFINE S == Unfunded
               f == [a \in S |-> Tickets(a)]
               K == 100 * Q
               h == [a \in S |-> K]
               d == 100 * zeros
    <3>1. S \in SUBSET broke /\ S \in SUBSET (V \cap Native) BY DEF Unfunded, Broke
    <3>2. IsFiniteSet(broke) BY <2>2, FS_Subset DEF Broke
    <3>3. /\ IsFiniteSet(S) /\ Cardinality(S) \in Nat /\ zeros \in Nat /\ Cardinality(S) <= zeros
      BY <3>1, <3>2, FS_Subset, FS_CardinalityType
    <3>4. \A a \in S : f[a] = Tickets(a) OBVIOUS
    <3>5. MapThenSumSet(Tickets, S) = Sum(f, S)
      <4> HIDE DEF S, f
      <4> QED BY <3>3, <3>4, TicketSum
    <3>7. CASE S = {}
      <4>1. Sum(f, {}) = 0 BY SumEmpty
      <4>2. MapThenSumSet(Tickets, S) = 0 BY <3>5, <3>7, <4>1
      <4> QED BY <3>3, <3>6, <4>2
    <3>8. CASE S # {}
      <4>1. ASSUME NEW a \in S
            PROVE  f[a] \in Int /\ h[a] = K /\ d * (f[a] - 1) <= K /\ zeros > 0
        <5> DEFINE n == 3 * TicketScale
        <5>1. a \in V \cap Native BY <3>1
        <5>2. ledger.bal[PKN][a] <= 0 BY DEF Unfunded
        <5>3. zeros > 0 /\ LotteryTickets(ledger, a) = AtLeastOne(Share(n, d))
          BY <2>1, <5>1, <5>2, TicketsAre
        <5>4. n = K /\ n \in Nat BY <3>6
        <5>5. d \in Nat /\ d > 0 BY <3>3, <5>3
        <5>6. f[a] = AtLeastOne(Share(n, d)) BY <3>4, <5>3 DEF Tickets
        <5>7. h[a] = K OBVIOUS
        <5> HIDE DEF n, d, f, h, K, zeros
        <5>8. f[a] \in Nat /\ d * (f[a] - 1) <= n BY <5>4, <5>5, <5>6, ShareRounded
        <5> QED BY <5>3, <5>4, <5>7, <5>8
      <4>2. zeros > 0 BY <3>8, <4>1
      <4>3. d \in Nat /\ d > 0 BY <3>3, <4>2
      <4> HIDE DEF S, f, h, d, zeros
      <4>4. d * (Sum(f, S) - Cardinality(S)) <= Sum(h, S)
        <5>1. \A x \in S : f[x] \in Int /\ h[x] \in Int /\ d * (f[x] - 1) <= h[x] BY <4>1
        <5> QED BY <3>3, <4>3, <5>1, SumRounded
      <4>5. Sum(h, S) = K * Cardinality(S) BY <3>3, <4>1, SumConstant
      <4>6. Sum(f, S) \in Int BY <3>3, <4>1, SumInteger
      <4>7. d * (Sum(f, S) - Cardinality(S)) <= d * Q
        <5>1. K * Cardinality(S) <= d * Q BY <3>3 DEF d
        <5>2. d * (Sum(f, S) - Cardinality(S)) \in Int BY <3>3, <4>3, <4>6
        <5>3. K * Cardinality(S) \in Int /\ d * Q \in Int BY <3>3, <4>3
        <5> QED BY <4>4, <4>5, <5>1, <5>2, <5>3
      <4>8. Sum(f, S) - Cardinality(S) \in Int BY <3>3, <4>6
      <4>9. Sum(f, S) - Cardinality(S) <= Q BY <4>3, <4>7, <4>8, Cancel
      <4> QED BY <3>3, <3>5, <3>6, <4>6, <4>9 DEF S
    <3> QED BY <3>7, <3>8
  <2> QED BY <2>4, <2>5 DEF TicketBudget
<1> QED BY <1>1, AlwaysSound, PTL
=============================================================================
