SPECIFICATION DeliverySpec
CONSTANTS
  g = g  f = f  m = m  n = n  s1 = s1  s2 = s2  s3 = s3  s4 = s4  r1 = r1  r3 = r3
  cb = cb  k1 = k1  k2 = k2  k3 = k3  k4 = k4  p = p  q = q
  None = None
  Blocks <- MCBlocks
  Genesis = g
  Prev <- MCPrev
  Height <- MCHeight
  Trust <- MCTrust
  Txs <- MCTxs
  OutPoints <- MCOutPoints
  OutTx <- MCOutTx
  Vin <- MCVin
  Vtx <- MCVtx
  Generated <- MCTxs
  Maturity = 1
  Proofs = {p, q}
  Proof <- MCProof
  KernelTx <- MCKernelTx
  Modifiers <- MCModifiers
  KernelMet <- MCKernelMet
  BadContext = {r1}
  BadValue = {}
  MaxRestarts = 0
CHECK_DEADLOCK FALSE
INVARIANT
  NoLeakedOrphanStake
PROPERTY
  HeaviestChainWins
