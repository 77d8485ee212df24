SPECIFICATION FairSpec
CONSTANTS
  g = g  f = f  e = e  a1 = a1  a2 = a2  b1 = b1  b2 = b2  b3 = b3  c2 = c2
  cb = cb  ca = ca  c1 = c1  k1 = k1  k2 = k2  p = p  t1 = t1  t2 = t2  t3 = t3  t4 = t4  t5 = t5  t6 = t6  t7 = t7
  None = None
  Blocks <- MCBlocks
  Genesis = g
  Prev <- MCPrev
  Height <- MCHeight
  Trust <- MCTrust
  Txs <- MCTxs
  OutPoints <- MCOutPoints
  OutTx <- MCOutTx
  Vin <- MCVin
  Vtx <- MCVtx
  Generated <- MCGenerated
  Maturity = 2
  Proofs = {p}
  Proof <- MCProof
  KernelTx <- MCKernelTx
  Modifiers <- MCModifiers
  KernelMet <- MCKernelMet
  BadContext = {}
  BadValue = {}
  MaxRestarts = 1
CHECK_DEADLOCK FALSE
INVARIANTS
  ChainStateConsistent
  DiskIsReplayOfBest
  BestValidChainChosen
  NoStrandedOrphans
PROPERTIES
  BestTrustIncreases
  NoTxLost
  CallReturns
  LedgerRefined
