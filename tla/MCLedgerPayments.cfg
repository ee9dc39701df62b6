CONSTANTS
  v = v
  u = u
  w = w
  PKN = PKN
  WPKN = WPKN
  USDT = USDT
  card = card
  None = None
  Account = {v, u, w}
  Native = {v, u}
  Asset = {PKN, WPKN}
  Token = {card}
  TxId <- MCTxId
  Tx <- AllPaymentTx
  Genesis <- MCGenesis
  GenesisConfig <- MCConfig
  MinerReward = 2
  FeeBps = 30
  MaxBalance = 8
SPECIFICATION Spec
INVARIANTS
  TypeOK
  NoOverdraft
  NoncesConsumedOnce
  NFTProvenance
  TicketBudget
  ValidatorsKeepTickets
PROPERTY
  NFTHandover
