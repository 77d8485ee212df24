SPECIFICATION MCSpec
CONSTANTS
    a = a  b = b  x = x
    None = None
    p = p  c = c  d = d  bad = bad
    Honest = {a}
    Strangers = {x}
    Link <- MCLink
    Tx = {p, c, d, bad}
    Parents <- MCParents
    Invalid = {bad}
    Large = {}
    Minable = {p}
    Owner <- MCOwner
    MAX_ORPHAN_TRANSACTIONS = 2
    MaxBreaks = 1
    MaxForgets = 0
    MaxSendings = 3
INVARIANTS OrphansConsistent DownloadsGoOn AlertsAgree
PROPERTY WalletPaymentsArrive
CHECK_DEADLOCK FALSE
