SPECIFICATION MCSpec
CONSTANTS
    n1 = n1  n2 = n2  a1 = a1  a2 = a2  a3 = a3  a4 = a4
    s1 = s1  s2 = s2  t1 = t1  t2 = t2  NoSource = NoSource
    Nodes = {n1, n2}
    Addrs = {a1, a2}
    Openers = {t1}
    Targets <- One
    OneTries = {}
    Incoming = {a2}
    MaxOutbound = 2
    MaxInbound = 1
    FloodSize = 1
    Addr = {a1, a2, a3, a4}
    Source = {s1, s2}
    NewBucket = {1, 2, 3}
    TriedBucket = {1}
    GetNewBucket <- MCNewBucket
    GetTriedBucket <- MCTriedBucket
    ADDRMAN_NEW_BUCKET_SIZE = 1
    ADDRMAN_TRIED_BUCKET_SIZE = 2
    ADDRMAN_NEW_BUCKETS_PER_ADDRESS = 2
    ADDRMAN_TRIED_ENTRIES_INSPECT_ON_EVICT = 4
    MaxTime = 1
    None = None
INVARIANTS NoNodeUsedAfterDelete SlotsConserved AddressBookConsistent
PROPERTIES FlaggedPeersAreDeleted TriedNeverDeleted
