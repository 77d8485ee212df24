SPECIFICATION MCSpec
CONSTANTS
    Coins = {c1}
    CoinTime <- MCCoinTime
    Modifiers = {1, 2}
    BlockTime <- MCBlockTime
    Hashes <- OneOrTwoHits
    Targets = {1, 2}
    Growth <- MCGrowth
    nHashDrift = 2
    nHashInterval = 2
    nStakeMinAge = 1
    nStakeMaxAge = 6
    ClockDrift = 2
    MaxTime = 4
    MaxTips = 2
    None = None
    Txs = {a, b, d, e, f, g}
    vin <- MCvin
    ChainTxs = {c}
    Size <- MCSize
    nBlockMaxSize = 1006
    Interval = 2
    Rounds = 3
    Ratio = 3
    Gaps <- MCGaps
    Hash <- MCHash
    MaxBlocks = 4
    a = a  b = b  c = c  d = d  e = e  f = f  g = g
CHECK_DEADLOCK FALSE
INVARIANTS StakedBlocksAreGood CollectionIsComplete SelectionIsReference
PROPERTY KernelModifierKept
