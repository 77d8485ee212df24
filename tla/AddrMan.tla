------------------------------ MODULE AddrMan ------------------------------
(***************************************************************************)
(* The address manager (addrman.cpp, addrman.h): addresses heard of are    *)
(* kept in buckets of "new" ones, up to ADDRMAN_NEW_BUCKETS_PER_ADDRESS    *)
(* buckets each, addresses that answered in buckets of "tried" ones, one   *)
(* bucket each, and all of them in a random order, vRandom.  The counters  *)
(* nNew and nTried, the reference counts and the positions in vRandom are  *)
(* kept by hand in every operation.                                        *)
(*                                                                         *)
(* An entry is named by its address: nId, which only indexes mapInfo, and  *)
(* the order of ids are left out, so where the code takes the first entry  *)
(* by id the model takes any.  The bucket of an address is a hash under a  *)
(* secret key: a constant function here.  Of an entry's statistics only    *)
(* nLastSuccess is kept; what the others decide (IsTerrible, whether an    *)
(* announcement is news) is a free choice.  Sequences start at 1.          *)
(***************************************************************************)
EXTENDS Naturals, Sequences, FiniteSets, SequencesExt

CONSTANTS
    Addr,                       \* network addresses
    Source, NoSource,           \* who told of an address, or nobody
    NewBucket, TriedBucket,     \* names of the buckets
    GetNewBucket,               \* [Addr \X Source -> NewBucket]
    GetTriedBucket,             \* [Addr -> TriedBucket]
    ADDRMAN_NEW_BUCKET_SIZE,
    ADDRMAN_TRIED_BUCKET_SIZE,
    ADDRMAN_NEW_BUCKETS_PER_ADDRESS,
    ADDRMAN_TRIED_ENTRIES_INSPECT_ON_EVICT,
    MaxTime                     \* bound: times of a successful connection

VARIABLE am     \* the CAddrMan object

\* What the constants are assumed to satisfy.
ASSUME AddrManAssumption ==
    /\ IsFiniteSet(Addr) /\ IsFiniteSet(NewBucket) /\ NoSource \notin Source
    /\ GetNewBucket \in [Addr \X Source -> NewBucket]
    /\ GetTriedBucket \in [Addr -> TriedBucket]
    /\ ADDRMAN_NEW_BUCKET_SIZE \in Nat \ {0}
    /\ ADDRMAN_TRIED_BUCKET_SIZE \in Nat \ {0}
    /\ ADDRMAN_NEW_BUCKETS_PER_ADDRESS \in Nat \ {0}
    /\ ADDRMAN_TRIED_ENTRIES_INSPECT_ON_EVICT \in Nat \ {0}
    /\ MaxTime \in Nat \ {0}

\* CAddrInfo: the fields of an entry; those of an address without an entry
\* have the values that the constructor gives.
\* CAddrMan: mapAddr holds the addresses that have an entry.
CAddrMan == [mapAddr      : SUBSET Addr,
             source       : [Addr -> Source \cup {NoSource}],
             nRefCount    : [Addr -> Nat],
             fInTried     : [Addr -> BOOLEAN],
             nRandomPos   : [Addr -> Nat],
             nLastSuccess : [Addr -> 0..MaxTime],
             vRandom      : Seq(Addr),
             vvNew        : [NewBucket -> SUBSET Addr],
             vvTried      : [TriedBucket -> Seq(Addr)],
             nNew         : Nat,
             nTried       : Nat]

AddrManInit ==
    am = [mapAddr      |-> {},
          source       |-> [a \in Addr |-> NoSource],
          nRefCount    |-> [a \in Addr |-> 0],
          fInTried     |-> [a \in Addr |-> FALSE],
          nRandomPos   |-> [a \in Addr |-> 0],
          nLastSuccess |-> [a \in Addr |-> 0],
          vRandom      |-> << >>,
          vvNew        |-> [b \in NewBucket |-> {}],
          vvTried      |-> [k \in TriedBucket |-> << >>],
          nNew         |-> 0,
          nTried       |-> 0]

-----------------------------------------------------------------------------
(* Operations on the object, as functions of it                            *)

\* Mutant: the entry that takes the hole keeps its old position.
SwapRandomUntold(m, i, j) ==
    IF i = j THEN m
    ELSE [m EXCEPT !.vRandom = [@ EXCEPT ![i] = m.vRandom[j], ![j] = m.vRandom[i]]]

\* Two entries of vRandom change places, and each is told its new position.
SwapRandom(m, i, j) ==
    LET x == m.vRandom[i]
        y == m.vRandom[j]
    IN IF i = j THEN m
       ELSE [m EXCEPT !.nRandomPos = [@ EXCEPT ![x] = j, ![y] = i],
                      !.vRandom    = [@ EXCEPT ![i] = y, ![j] = x]]

Create(m, a, s) ==
    [m EXCEPT !.mapAddr       = @ \cup {a},
              !.source[a]     = s,
              !.nRandomPos[a] = Len(m.vRandom) + 1,
              !.vRandom       = Append(@, a),
              !.nNew          = @ + 1]

\* The entry of a is destroyed: out of vRandom, mapAddr and mapInfo.
Delete(m, a) ==
    LET swapped == SwapRandom(m, m.nRandomPos[a], Len(m.vRandom))
    IN [swapped EXCEPT !.vRandom         = SubSeq(@, 1, Len(@) - 1),
                       !.mapAddr         = @ \ {a},
                       !.source[a]       = NoSource,
                       !.nRandomPos[a]   = 0,
                       !.nLastSuccess[a] = 0,
                       !.nNew            = @ - 1]

\* ShrinkNew drops v from bucket b: an entry that IsTerrible or the oldest of
\* four drawn at random, so v may be any of them.
ShrinkNew(m, b, v) ==
    LET dropped == [m EXCEPT !.nRefCount[v] = @ - 1, !.vvNew[b] = @ \ {v}]
    IN IF dropped.nRefCount[v] = 0 THEN Delete(dropped, v) ELSE dropped

\* SelectTried: the draw c[i] is the position swapped with the i-th.  The
\* result is the shuffled bucket and the position to evict from.
Draws(vTried) ==
    LET n == Len(vTried)
        k == IF n < ADDRMAN_TRIED_ENTRIES_INSPECT_ON_EVICT
             THEN n ELSE ADDRMAN_TRIED_ENTRIES_INSPECT_ON_EVICT
    IN {c \in [1..k -> 1..n] : \A i \in 1..k : c[i] >= i}

SelectTried(m, vTried, c) ==
    LET inspect[i \in 0..Len(c)] ==
            IF i = 0 THEN [list |-> vTried, oldest |-> 0, success |-> 0]
            ELSE LET was     == inspect[i - 1]
                     nTemp   == was.list[c[i]]
                     swapped == [was.list EXCEPT ![c[i]] = was.list[i], ![i] = nTemp]
                 IN IF was.oldest = 0 \/ m.nLastSuccess[nTemp] < was.success
                    THEN [list |-> swapped, oldest |-> c[i], success |-> m.nLastSuccess[nTemp]]
                    ELSE [list |-> swapped, oldest |-> was.oldest, success |-> was.success]
    IN inspect[Len(c)]

\* MakeTried: a leaves every new bucket; when its tried bucket is full, the
\* entry that SelectTried points at goes back to a new bucket in exchange.
LeaveNew(m, a) ==
    [m EXCEPT !.vvNew        = [b \in NewBucket |-> m.vvNew[b] \ {a}],
              !.nRefCount[a] = @ - Cardinality({b \in NewBucket : a \in m.vvNew[b]}),
              !.nNew         = @ - 1]

PushTried(m, a) ==
    [m EXCEPT !.vvTried[GetTriedBucket[a]] = Append(@, a),
              !.nTried                     = @ + 1,
              !.fInTried[a]                = TRUE]

\* The bucket the evicted entry goes to: its own, or the one a came from.
BucketForEvicted(m, old, nOrigin) ==
    LET nUBucket == GetNewBucket[<<old, m.source[old]>>]
    IN IF Cardinality(m.vvNew[nUBucket]) < ADDRMAN_NEW_BUCKET_SIZE THEN nUBucket ELSE nOrigin

\* Mutant: the evicted entry is destroyed.
ReplaceTriedDeletes(m, a, list, nPos, nOrigin) ==
    Delete([m EXCEPT !.vvTried[GetTriedBucket[a]] = [list EXCEPT ![nPos] = a],
                     !.fInTried                   = [@ EXCEPT ![a] = TRUE, ![list[nPos]] = FALSE],
                     !.nNew                       = @ + 1], list[nPos])

ReplaceTried(m, a, list, nPos, nOrigin) ==
    LET old == list[nPos]
        b   == BucketForEvicted(m, old, nOrigin)
    IN [m EXCEPT !.vvTried[GetTriedBucket[a]] = [list EXCEPT ![nPos] = a],
                 !.fInTried                   = [@ EXCEPT ![a] = TRUE, ![old] = FALSE],
                 !.nRefCount[old]             = 1,
                 !.vvNew[b]                   = @ \cup {old},
                 !.nNew                       = @ + 1]

-----------------------------------------------------------------------------
(* The public operations                                                   *)

\* The tests that let Add_ go on with an address: unknown, or news (a free
\* choice, with the coin toss), not tried and not yet in too many buckets.
MayAdd(m, a) ==
    a \in m.mapAddr => /\ ~m.fInTried[a]
                       /\ m.nRefCount[a] # ADDRMAN_NEW_BUCKETS_PER_ADDRESS

Add(a, s) ==
    LET b       == GetNewBucket[<<a, s>>]
        found   == IF a \in am.mapAddr THEN am ELSE Create(am, a, s)
        counted == [found EXCEPT !.nRefCount[a] = @ + 1]
        Insert(m) == [m EXCEPT !.vvNew[b] = @ \cup {a}]
    IN /\ MayAdd(am, a) /\ a \notin am.vvNew[b]
       /\ IF Cardinality(am.vvNew[b]) = ADDRMAN_NEW_BUCKET_SIZE
          THEN \E v \in am.vvNew[b] : am' = Insert(ShrinkNew(counted, b, v))
          ELSE am' = Insert(counted)

\* Good_ of a known address at nTime: only its statistics change when it was
\* tried already, else MakeTried moves it.
Succeeded(a, nTime) == [am EXCEPT !.nLastSuccess[a] = nTime]

GoodAgain(a, nTime) ==
    /\ a \in am.mapAddr /\ am.fInTried[a]
    /\ am' = Succeeded(a, nTime)

MakeTried(a, nTime) ==
    LET left   == LeaveNew(Succeeded(a, nTime), a)
        vTried == am.vvTried[GetTriedBucket[a]]
    IN /\ a \in am.mapAddr /\ ~am.fInTried[a]
       /\ \E nOrigin \in {b \in NewBucket : a \in am.vvNew[b]} :
             IF Len(vTried) < ADDRMAN_TRIED_BUCKET_SIZE
             THEN am' = PushTried(left, a)
             ELSE \E c \in Draws(vTried) :
                     LET chosen == SelectTried(left, vTried, c)
                     IN am' = ReplaceTried(left, a, chosen.list, chosen.oldest, nOrigin)

\* GetAddr_ shuffles the front of vRandom: any number of SwapRandom steps.
GetAddr(i, j) ==
    /\ i \in 1..Len(am.vRandom) /\ j \in i..Len(am.vRandom)
    /\ am' = SwapRandom(am, i, j)

\* peers.dat written and read back: the new entries and then the tried ones,
\* each in the order of their ids, take their place in vRandom; the counters
\* come from the file, the reference counts from the buckets.
NewEntries(m) == {a \in m.mapAddr : m.nRefCount[a] # 0}
TriedEntries(m) == {a \in m.mapAddr : m.fInTried[a]}

\* The loop over the tried entries: one whose bucket is full is lost.
ReadTried(m, vNew, vTried) ==
    LET read[n \in 0..Len(vTried)] ==
            IF n = 0 THEN [vRandom |-> vNew, nTried |-> m.nTried,
                           vvTried |-> [k \in TriedBucket |-> << >>]]
            ELSE LET was == read[n - 1]
                     a   == vTried[n]
                     k   == GetTriedBucket[a]
                 IN IF Len(was.vvTried[k]) < ADDRMAN_TRIED_BUCKET_SIZE
                    THEN [vRandom |-> Append(was.vRandom, a), nTried |-> was.nTried,
                          vvTried |-> [was.vvTried EXCEPT ![k] = Append(@, a)]]
                    ELSE [vRandom |-> was.vRandom, nTried |-> was.nTried - 1,
                          vvTried |-> was.vvTried]
    IN read[Len(vTried)]

Load(m, vNew, vTried) ==
    LET read  == ReadTried(m, vNew, vTried)
        order == read.vRandom
        kept  == ToSet(order)
    IN [m EXCEPT !.mapAddr    = kept,
                 !.nRandomPos = [a \in Addr |-> IF a \in kept
                                    THEN CHOOSE i \in DOMAIN order : order[i] = a ELSE 0],
                 !.vRandom    = order,
                 !.fInTried   = [a \in Addr |-> \E k \in TriedBucket : a \in ToSet(read.vvTried[k])],
                 !.nRefCount  = [a \in Addr |-> Cardinality({b \in NewBucket : a \in m.vvNew[b]})],
                 !.vvTried    = read.vvTried,
                 !.nTried     = read.nTried]

Reload ==
    \E vNew \in SetToSeqs(NewEntries(am)), vTried \in SetToSeqs(TriedEntries(am)) :
        am' = Load(am, vNew, vTried)

AddrManNext ==
    \/ \E a \in Addr, s \in Source : Add(a, s)
    \/ \E a \in Addr, nTime \in 1..MaxTime : GoodAgain(a, nTime)
    \/ \E a \in Addr, nTime \in 1..MaxTime : MakeTried(a, nTime)
    \/ \E i, j \in 1..Cardinality(Addr) : GetAddr(i, j)
    \/ Reload

AddrManSpec == AddrManInit /\ [][AddrManNext]_am

-----------------------------------------------------------------------------
(* Properties                                                              *)

AddrManTypeOK == am \in CAddrMan /\ \A a \in am.mapAddr : am.source[a] \in Source

Buckets(a) == {b \in NewBucket : a \in am.vvNew[b]}

\* The parts of Check_, the consistency check that DEBUG_ADDRMAN compiles in.
\* vRandom lists every entry once, at the position the entry knows (-5, -14).
RandomOrderConsistent ==
    /\ \A i \in DOMAIN am.vRandom : /\ am.vRandom[i] \in am.mapAddr
                                    /\ am.nRandomPos[am.vRandom[i]] = i
    /\ \A a \in am.mapAddr : /\ am.nRandomPos[a] \in DOMAIN am.vRandom
                             /\ am.vRandom[am.nRandomPos[a]] = a

\* The reference count of an entry is the number of new buckets that hold it:
\* none for a tried one, at least one and at most the limit for the others
\* (-2, -3, -4, -12, -15), through evictions in both directions.
RefCountsExact ==
    \A a \in Addr :
        /\ am.nRefCount[a] = Cardinality(Buckets(a))
        /\ am.nRefCount[a] <= ADDRMAN_NEW_BUCKETS_PER_ADDRESS
        /\ a \notin am.mapAddr => am.nRefCount[a] = 0 /\ ~am.fInTried[a]
        /\ a \in am.mapAddr => (am.fInTried[a] <=> am.nRefCount[a] = 0)

\* A tried entry stands exactly once, in its own bucket, and nothing else
\* stands in a tried bucket (-11, -13).
TriedTableExact ==
    \A k \in TriedBucket :
        /\ \A i, j \in DOMAIN am.vvTried[k] : am.vvTried[k][i] = am.vvTried[k][j] => i = j
        /\ ToSet(am.vvTried[k]) = {a \in Addr : am.fInTried[a] /\ GetTriedBucket[a] = k}

\* The counters that Select_ trusts are those of the tables (-7, -9, -10):
\* with a counter too high it would search an empty table for ever.
CountsExact ==
    /\ am.nNew = Cardinality(NewEntries(am))
    /\ am.nTried = Cardinality(TriedEntries(am))
    /\ Len(am.vRandom) = am.nNew + am.nTried

\* "Only keep a limited number of addresses around": no bucket ever exceeds
\* its size, also not when an entry evicted from a full tried bucket comes
\* back to the new table ("there is certainly place there").
BucketsBounded ==
    /\ \A b \in NewBucket : Cardinality(am.vvNew[b]) <= ADDRMAN_NEW_BUCKET_SIZE
    /\ \A k \in TriedBucket : Len(am.vvTried[k]) <= ADDRMAN_TRIED_BUCKET_SIZE

\* What Check_ checks: every address of the tables is found, counted and drawn
\* exactly as often as it stands there, after any sequence of operations.
AddressBookConsistent ==
    AddrManTypeOK /\ RandomOrderConsistent /\ RefCountsExact
                  /\ TriedTableExact /\ CountsExact /\ BucketsBounded

\* "They are never deleted while in the tried table, only possibly evicted
\* back to the new table" (addrman.h, ShrinkNew).
TriedNeverDeleted ==
    [][\A a \in Addr : am.fInTried[a] => a \in am'.mapAddr]_am

=============================================================================
