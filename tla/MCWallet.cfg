SPECIFICATION MCSpec
CONSTANTS
  Blocks <- MCBlocks
  Genesis = "G"
  None = "none"
  Prev <- MCPrev
  Height <- MCHeight
  Txs <- MCTxs
  Inputs <- MCInputs
  Mine <- MCMine
  CoinStakes <- MCCoinStakes
  TxsOf <- MCTxsOf
  Invalid = {"D2", "E2"}
  Maturity = 2
  MayRepair = FALSE
  MayCrash = FALSE
  c1 = c1  c2 = c2  c3 = c3  c4 = c4
INVARIANTS
  WalletFollowsChain
  WalletKeepsItsTxs
  PaymentsAreGood
  StakesAreShared
PROPERTY
  RestartMendsFlags
