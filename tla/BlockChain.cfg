SPECIFICATION FairSpec
CONSTANTS
  G = G
  A1 = A1
  A2 = A2
  B1 = B1
  B2 = B2
  D2 = D2
  D3 = D3
  B3 = B3
  s1 = s1
  s2 = s2
  s3 = s3
  coin = coin
  stake = stake
  k1 = k1
  t1 = t1
  t2 = t2
  x1 = x1
  x2 = x2
  y1 = y1
  NoStake = NoStake
  Root = G
  Block <- Blocks
  Parent <- ParentOf
  Chain <- ChainOf
  Height <- HeightOf
  Trust <- TrustOf
  Stake <- StakeOf
  Kernel <- KernelOf
  Refused <- NoneRefused
  Flawed <- NoneFlawed
  Tx <- Transactions
  TxSeq <- TxsIn
  Spends <- Inputs
  Minted <- MintedTxs
  Irregular <- IrregularTxs
  Checkpoint = 0
  Rooms <- TwoRooms
  MaxRestarts = 2
INVARIANTS MemoryFollowsDisk HeaviestKept PoolConsistent OrphansWait
PROPERTIES NoTxLost ImplementsBestChain Converges
CHECK_DEADLOCK FALSE
