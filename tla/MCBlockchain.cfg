CONSTANTS
  v = v
  u = u
  w = w
  PKN = PKN
  card = card
  gold = gold
  None = None
  Account = {v, u, w}
  Native = {v, u}
  Asset = {PKN, gold}
  Token = {card}
  TxId <- MCTxId
  Tx <- MCTx
  Genesis <- MCGenesis
  MinerReward = 2
  FeeBps = 30
  GenesisConfig <- MCConfig
  Slot = {1, 2}
  Draw <- MCDraw
  BlockSize = 4
  HashBefore <- MCHashBefore
  TxLists <- MCTxLists
  MaxBlocks = 4
  FinalityDepth = 1
  Reserved = {w}
  Limits = {1, 2, 5}
SPECIFICATION Spec
INVARIANTS
  ReplayDropsNothing
  SupplyFromBlocks
  OrderIndependent
  PagesCoverChain
  AddressAddsUp
  FinalizedIsCommitted
PROPERTIES
  TipOnlyImproves
