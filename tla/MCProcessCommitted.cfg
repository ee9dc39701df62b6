CONSTANTS
  n1 = n1
  n2 = n2
  w = w
  r1 = r1
  r2 = r2
  q = q
  PKN = PKN
  card = card
  None = None
  Account = {n1, n2, w}
  Native = {n1, n2}
  Asset = {PKN}
  Token = {card}
  TxId <- MCTxId
  Tx <- FirstTx
  Genesis <- Staked
  MinerReward = 2
  FeeBps = 30
  GenesisConfig <- MCConfig
  Slot = {1, 2, 3, 4}
  Draw <- MCDraw
  BlockSize = 2
  HashBefore <- MCHashBefore
  Self = n1
  Reader = {r1, r2}
  Request = {q}
  SlotLoop = SlotLoop
  FinalityDepth = 1
  PeerBlocks <- MCPeerBlocks
  PeerReplies <- MCPeerReplies
  AdminSlots = {3}
  MaxJobs = 2
SYMMETRY Readers
SPECIFICATION Spec
CHECK_DEADLOCK FALSE
INVARIANTS
  CommittedIsReconstructed
