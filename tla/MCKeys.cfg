SPECIFICATION MCSpec
CONSTANTS
  Holders = {miner}
  KeyPoolSize = 1
  MaxKeys = 6
  MayEncrypt = TRUE
  t1 = t1  t2 = t2  t3 = t3
  Threads = {t1, t2, t3}
  Timeouts = {0, 1, 3}
  None = None
INVARIANTS
  KeysAreSafe
  UnlockedIsWatched
  CosignersComplete
PROPERTY
  WalletIsRelocked
