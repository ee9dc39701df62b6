CONSTANTS
  v = v
  u = u
  w = w
  PKN = PKN
  WPKN = WPKN
  USDT = USDT
  card = card
  None = None
  Account = {v, w}
  Native = {v}
  Asset = {PKN, WPKN, USDT}
  Token = {card}
  TxId <- MCTxId
  Tx <- AllStrayTx
  Genesis <- MCGenesis
  GenesisConfig <- MCConfig
  MinerReward = 2
  FeeBps = 30
  MaxBalance = 8
SPECIFICATION Spec
PROPERTY
  OnlyOperatorsIssue
