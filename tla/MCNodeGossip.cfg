CONSTANTS
  n1 = n1
  n2 = n2
  w = w
  PKN = PKN
  card = card
  None = None
  Account = {n1, n2, w}
  Native = {n1, n2}
  Asset = {PKN}
  Token = {card}
  TxId <- MCTxId
  Tx <- NativeTx
  Genesis <- Staked
  MinerReward = 2
  FeeBps = 30
  GenesisConfig <- MCConfig
  Slot = {1, 2}
  Draw <- MCDraw
  BlockSize = 2
  HashBefore <- MCHashBefore
  Node = {n1, n2}
  FinalityDepth = 1
  IdleSlotInterval = 0
  BaseAttempts = 1
  MaxAttempts = 2
  AttemptsPerTx = 2
  CrashNodes = {}
  MaxCrashes = 0
  MaxCuts = 0
SPECIFICATION FairSpec
INVARIANTS
  TypeOK
  OneBlockPerHash
PROPERTIES
  Converges
