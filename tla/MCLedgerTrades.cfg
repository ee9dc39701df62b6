CONSTANTS
  v = v
  u = u
  w = w
  PKN = PKN
  WPKN = WPKN
  USDT = USDT
  card = card
  None = None
  Account = {v, w}
  Native = {v}
  Asset = {PKN, WPKN}
  Token = {card}
  TxId <- MCTxId
  Tx <- AllTradeTx
  Genesis <- MCGenesis
  GenesisConfig <- MCConfig
  MinerReward = 2
  FeeBps = 30
  MaxBalance = 8
SPECIFICATION Spec
INVARIANTS
  NoOverdraft
PROPERTIES
  NeverDrained
  ConstantProduct
  SupplyConserved
