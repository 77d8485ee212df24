SPECIFICATION MCSpec
CONSTANTS
    Users = {t1, t2}
    Uncounted = {t2}
    WaitedFor = {t1}
    Files = {wallet, chain}
    WalletFile = wallet
    ChainFiles = {chain}
    Rewritten = {wallet}
    fDetachDB = FALSE
    MaxWrites = 1
    MaxOpens = 3
CHECK_DEADLOCK FALSE
INVARIANTS HandlesProtected FilesAreWhole
PROPERTY WalletIsFlushed
