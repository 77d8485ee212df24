----------------------------- MODULE BlockSync ------------------------------
(***************************************************************************)
(* How a node obtains the blocks it lacks (main.cpp, main.h, net.cpp,      *)
(* net.h): the version handshake, getblocks with its locator, the          *)
(* inventories it is answered with, hashContinue, which makes the next     *)
(* batch follow, getdata, and the blocks, which may arrive before their    *)
(* parents.  All blocks are valid here; what a node does with a block      *)
(* beyond its place in the tree is in ChainState.  Each link is a pair of  *)
(* FIFO streams and takes the CNode objects of its ends with it when it    *)
(* breaks, be it for the limits of -strictincoming.  Times are relative to *)
(* now, in the two minutes of AskFor, as in Relay: -1 is long ago, or no   *)
(* entry.                                                                  *)
(***************************************************************************)
EXTENDS Integers, Sequences, FiniteSets, SequencesExt

CONSTANTS
    Node,
    Link,           \* <<n, m>>: n opens a connection to m
    Blocks, Genesis, None, Prev, Height,
    Branch,         \* [Blocks -> SUBSET Blocks] of BlockTree
    Trust,          \* [Blocks -> Nat] bnChainTrust
    FirstBest,      \* [Node -> Blocks] the best block each node starts with
    Limit,          \* blocks announced per getblocks (1000)
    Dense,          \* blocks of a locator without gaps (10)
    StartSpan,      \* how far behind a peer may be and still be asked (144)
    RelaySpan,      \* how far ahead of us a peer may have been and still be told (2000)
    NBlocksEstimate,\* Checkpoints::GetTotalBlocksEstimate()
    OldBlocks,      \* blocks made more than a day ago
    MaxBreaks,      \* bound: how often a link breaks
    MaxRefusals     \* bound: how often a duplicate stake makes ProcessBlock refuse a block

VARIABLES
    mapBlockIndex,      \* [Node -> SUBSET Blocks]
    pindexBest,         \* [Node -> Blocks]
    mapOrphanBlocks,    \* [Node -> SUBSET Blocks]
    mapAlreadyAskedFor, \* [Node -> [Blocks -> Int]]
    nAskedForBlocks,    \* [Node -> BOOLEAN] more than zero
    fLate,              \* [Node -> BOOLEAN] MAX_TIME_SINCE_BEST_BLOCK has passed
    nStartingHeight,    \* [End -> Int] -1 before the peer's version
    hashContinue,       \* [End -> Blocks \cup {None}]
    lastGetBlocks,      \* [End -> pairs] pindexLastGetBlocksBegin, hashLastGetBlocksEnd
    setInventoryKnown,  \* [End -> SUBSET Blocks]
    vInventoryToSend,   \* [End -> Seq(Blocks)]
    mapAskFor,          \* [End -> Seq(Nat \X Blocks)] ordered by time
    pipe,               \* [End -> Seq(Message)]
    up,                 \* the links that stand
    refused,            \* [Node -> SUBSET Blocks] ghost: refused although valid
    nBreaks, nRefusals

chainVars == <<mapBlockIndex, pindexBest, mapOrphanBlocks, fLate>>
peerVars == <<nStartingHeight, hashContinue, lastGetBlocks, setInventoryKnown,
              vInventoryToSend, mapAskFor>>
bounds == <<refused, nBreaks, nRefusals>>
vars == <<chainVars, mapAlreadyAskedFor, nAskedForBlocks, peerVars, pipe, up, bounds>>

End == Link \cup {<<l[2], l[1]>> : l \in Link}
Stands(e) == e \in up \/ <<e[2], e[1]>> \in up
Peers(n) == {m \in Node : <<n, m>> \in End /\ Stands(<<n, m>>)}
fInbound(e) == e \notin Link

Message ==
    [cmd : {"version"}, height : Nat]
        \cup [cmd : {"getblocks"}, have : SUBSET Blocks, stop : Blocks \cup {None}]
        \cup [cmd : {"inv", "getdata"}, blocks : Seq(Blocks)]
        \cup [cmd : {"block"}, block : Blocks]

Never == -1

SyncAssumption ==
    /\ Link \subseteq {l \in Node \X Node : l[1] # l[2]}
    /\ \A l \in Link : <<l[2], l[1]>> \notin Link
    /\ Trust \in [Blocks -> Nat]
    /\ FirstBest \in [Node -> Blocks]
    /\ Limit \in Nat \ {0} /\ Dense \in Nat \ {0}
    /\ StartSpan \in Nat /\ RelaySpan \in Nat /\ NBlocksEstimate \in Nat
    /\ MaxBreaks \in Nat /\ MaxRefusals \in Nat

-----------------------------------------------------------------------------
(* The tree                                                                *)

MainChain(n) == Branch[pindexBest[n]]

ByHeight(S) == SetToSortSeq(S, LAMBDA x, y : Height[x] < Height[y])

Highest(S) == CHOOSE x \in S : \A y \in S : Height[y] <= Height[x]

\* CBlockLocator::Set: the last blocks up to b, then ever fewer: the distances
\* after Dense grow by 2, 4, 8, ...
Locator(b) ==
    LET far == {Dense - 1 + 2^k : k \in 1 .. Height[b]}
    IN {x \in Branch[b] : \/ Height[b] - Height[x] \in 0 .. Dense
                          \/ Height[b] - Height[x] \in far}
         \cup {Genesis}

AlreadyHave(n, b) == b \in mapBlockIndex[n] \cup mapOrphanBlocks[n]

\* GetOrphanRoot, with the orphans S: the walk from o down the orphans stops at
\* the first whose parent is not one of them.
OrphanRoot(S, o) == Highest({r \in S \cap Branch[o] : Prev[r] \notin S})

\* Mutant: the first orphan itself is asked for.
WantedByOrphanRoot(S, o) == OrphanRoot(S, o)

WantedByOrphan(S, o) == Prev[OrphanRoot(S, o)]

\* IsInitialBlockDownload: certain below the checkpoints; with an old best
\* block it depends on whether that was found less than ten seconds ago.
IsInitialBlockDownload(n) ==
    CASE Height[pindexBest[n]] < NBlocksEstimate -> {TRUE}
      [] pindexBest[n] \in OldBlocks             -> BOOLEAN
      [] OTHER                                   -> {FALSE}

-----------------------------------------------------------------------------
(* CNode: requests and announcements                                       *)

\* PushGetBlocks for every pair of s in turn: the new requests after the last
\* one sent, which comes first; a request equal to the one before is dropped.
Requests(e, s) ==
    FoldLeft(LAMBDA sent, r : IF r = Last(sent) THEN sent ELSE Append(sent, r),
             <<lastGetBlocks[e]>>, s)

GetBlocksMessages(requests) ==
    [i \in 1 .. Len(requests) - 1 |->
        [cmd |-> "getblocks", have |-> Locator(requests[i + 1][1]), stop |-> requests[i + 1][2]]]

PushGetBlocks(e, s) ==
    lastGetBlocks' = [lastGetBlocks EXCEPT ![e] = Last(Requests(e, s))]

RequestTime(n, b) ==
    IF mapAlreadyAskedFor[n][b] = Never THEN 0 ELSE mapAlreadyAskedFor[n][b] + 1

Enqueue(q, r) ==
    LET NotAfter(x) == x[1] <= r[1]
        After(x)    == x[1] > r[1]
    IN Append(SelectSeq(q, NotAfter), r) \o SelectSeq(q, After)

\* AskFor, for the blocks of s; done is what mapAlreadyAskedFor forgets.
AskFor(n, m, s, done) ==
    /\ mapAskFor' = [mapAskFor EXCEPT ![<<n, m>>] =
          FoldLeft(LAMBDA q, b : Enqueue(q, <<RequestTime(n, b), b>>), @, s)]
    /\ mapAlreadyAskedFor' = [mapAlreadyAskedFor EXCEPT ![n] =
          [b \in Blocks |-> CASE b \in ToSet(s) -> RequestTime(n, b)
                              [] b \in done     -> Never
                              [] OTHER          -> @[b]]]

KnowsInventory(e, S) ==
    setInventoryKnown' = [setInventoryKnown EXCEPT ![e] = @ \cup S]

\* PushInventory: what the peer is not known to have.
Announced(e, s, known) ==
    LET Unknown(b) == b \notin known[e] IN vInventoryToSend[e] \o SelectSeq(s, Unknown)

-----------------------------------------------------------------------------
(* Handlers: n processes a message of m                                    *)

Takes(n, m, cmd) == pipe[<<m, n>>] # << >> /\ Head(pipe[<<m, n>>]).cmd = cmd
Message1(n, m) == Head(pipe[<<m, n>>])

\* The message is consumed and s is sent back.
Replies(n, m, s) ==
    pipe' = [pipe EXCEPT ![<<m, n>>] = Tail(@), ![<<n, m>>] = @ \o s]

VersionMessage(n) == [cmd |-> "version", height |-> Height[pindexBest[n]]]

\* The blocks are asked of the first peer that is not far behind, of every
\* later one only if it is the only one or the best block has been the same
\* for ten seconds.
ReceiveVersion(n, m) ==
    /\ Takes(n, m, "version")
    /\ LET h     == Message1(n, m).height
           first == /\ h > Height[pindexBest[n]] - StartSpan
                    /\ ~nAskedForBlocks[n] \/ Cardinality(Peers(n)) <= 1
           s     == IF first \/ fLate[n] THEN <<<<pindexBest[n], None>>>> ELSE << >>
       IN /\ nStartingHeight' = [nStartingHeight EXCEPT ![<<n, m>>] = h]
          /\ nAskedForBlocks' = [nAskedForBlocks EXCEPT ![n] = @ \/ first]
          /\ PushGetBlocks(<<n, m>>, s)
          /\ Replies(n, m, (IF fInbound(<<n, m>>) THEN <<VersionMessage(n)>> ELSE << >>)
                              \o GetBlocksMessages(Requests(<<n, m>>, s)))
    /\ UNCHANGED <<chainVars, mapAlreadyAskedFor, hashContinue, setInventoryKnown,
                   vInventoryToSend, mapAskFor, up, bounds>>

\* getblocks: what follows the locator on the main chain, without the block
\* the caller wants to stop at, at most Limit.
BlocksAfter(n, have, stop) ==
    LET start == Height[Highest(have \cap MainChain(n))]
        ahead == {x \in MainChain(n) : Height[x] > start}
    IN ByHeight({x \in ahead : stop \in ahead => Height[x] < Height[stop]})

ReceiveGetBlocks(n, m) ==
    /\ Takes(n, m, "getblocks")
    /\ LET all == BlocksAfter(n, Message1(n, m).have, Message1(n, m).stop)
           s   == SubSeq(all, 1, IF Len(all) < Limit THEN Len(all) ELSE Limit)
       IN /\ vInventoryToSend' = [vInventoryToSend EXCEPT ![<<n, m>>] =
                Announced(<<n, m>>, s, setInventoryKnown)]
          /\ hashContinue' = [hashContinue EXCEPT ![<<n, m>>] =
                IF Len(s) = Limit THEN Last(s) ELSE @]
    /\ Replies(n, m, << >>)
    /\ UNCHANGED <<chainVars, mapAlreadyAskedFor, nAskedForBlocks, nStartingHeight,
                   lastGetBlocks, setInventoryKnown, mapAskFor, up, bounds>>

\* inv: what is missing is asked for, an orphan makes the node ask for what
\* lies before it, and a known block that ends the list for what follows it.
Followed(n, s) ==
    LET Request(i) ==
            CASE s[i] \in mapOrphanBlocks[n] ->
                    <<<<pindexBest[n], OrphanRoot(mapOrphanBlocks[n], s[i])>>>>
              [] s[i] \in mapBlockIndex[n] /\ i = Len(s) -> <<<<s[i], None>>>>
              [] OTHER -> << >>
    IN FlattenSeq([i \in DOMAIN s |-> Request(i)])

ReceiveInv(n, m) ==
    /\ Takes(n, m, "inv")
    /\ LET s      == Message1(n, m).blocks
           New(b) == ~AlreadyHave(n, b)
       IN /\ KnowsInventory(<<n, m>>, ToSet(s))
          /\ AskFor(n, m, SelectSeq(s, New), {})
          /\ PushGetBlocks(<<n, m>>, Followed(n, s))
          /\ Replies(n, m, GetBlocksMessages(Requests(<<n, m>>, Followed(n, s))))
    /\ UNCHANGED <<chainVars, nAskedForBlocks, nStartingHeight, hashContinue,
                   vInventoryToSend, up, bounds>>

\* getdata: the blocks, and after the last of a batch the best block, which
\* makes the caller ask for more.
ReceiveGetData(n, m) ==
    /\ Takes(n, m, "getdata")
    /\ LET s        == SelectSeq(Message1(n, m).blocks, LAMBDA b : b \in mapBlockIndex[n])
           last(i)  == s[i] = hashContinue[<<n, m>>] /\ \A j \in 1 .. i - 1 : s[j] # s[i]
           Reply(i) == <<[cmd |-> "block", block |-> s[i]]>>
                         \o IF last(i) THEN <<[cmd |-> "inv", blocks |-> <<pindexBest[n]>>]>>
                                       ELSE << >>
       IN /\ Replies(n, m, FlattenSeq([i \in DOMAIN s |-> Reply(i)]))
          /\ hashContinue' = [hashContinue EXCEPT ![<<n, m>>] =
                IF @ \in ToSet(s) THEN None ELSE @]
    /\ UNCHANGED <<chainVars, mapAlreadyAskedFor, nAskedForBlocks, nStartingHeight,
                   lastGetBlocks, setInventoryKnown, vInventoryToSend, mapAskFor, up, bounds>>

\* AcceptBlock for b and, in turn, for the orphans that rest on it: b and they
\* enter the index, each becomes the best block if it has more trust, and is
\* then announced to the peers that were not far ahead when they connected.
Unlocked(n, b) ==
    {o \in mapOrphanBlocks[n] : b \in Branch[o]
                                  /\ Branch[o] \ Branch[b] \subseteq mapOrphanBlocks[n]}

NewBests(n, done) ==
    FoldLeft(LAMBDA bests, x : IF Trust[x] > Trust[Last(bests)] THEN Append(bests, x) ELSE bests,
             <<pindexBest[n]>>, ByHeight(done))

Tells(e, b) ==
    Height[b] > IF nStartingHeight[e] # -1 THEN nStartingHeight[e] - RelaySpan
                                           ELSE NBlocksEstimate

AcceptBlock(n, b, known) ==
    LET done  == {b} \cup Unlocked(n, b)
        bests == NewBests(n, done)
    IN /\ mapBlockIndex' = [mapBlockIndex EXCEPT ![n] = @ \cup done]
       /\ mapOrphanBlocks' = [mapOrphanBlocks EXCEPT ![n] = @ \ done]
       /\ pindexBest' = [pindexBest EXCEPT ![n] = Last(bests)]
       /\ fLate' = [fLate EXCEPT ![n] = @ /\ Len(bests) = 1]
       /\ vInventoryToSend' = [e \in End |->
             IF e[1] = n /\ Stands(e)
             THEN Announced(e, SelectSeq(Tail(bests), LAMBDA x : Tells(e, x)), known)
             ELSE vInventoryToSend[e]]

\* block: accepted, kept as an orphan, or refused.
ProcessBlockAccepted(n, m, b) ==
    /\ ~AlreadyHave(n, b) /\ Prev[b] \in mapBlockIndex[n]
    /\ AcceptBlock(n, b, setInventoryKnown')
    /\ AskFor(n, m, << >>, {b})
    /\ Replies(n, m, << >>)
    /\ UNCHANGED <<lastGetBlocks, refused, nRefusals>>

ProcessBlockOrphan(n, m, b) ==
    LET orphans == mapOrphanBlocks[n] \cup {b}
        s       == <<<<pindexBest[n], OrphanRoot(orphans, b)>>>>
    IN /\ ~AlreadyHave(n, b) /\ Prev[b] \notin mapBlockIndex[n]
       /\ mapOrphanBlocks' = [mapOrphanBlocks EXCEPT ![n] = orphans]
       /\ PushGetBlocks(<<n, m>>, s)
       /\ Replies(n, m, GetBlocksMessages(Requests(<<n, m>>, s)))
       /\ \E fInitial \in IsInitialBlockDownload(n) :
             AskFor(n, m, IF fInitial THEN << >> ELSE <<WantedByOrphan(orphans, b)>>, {b})
       /\ UNCHANGED <<mapBlockIndex, pindexBest, fLate, vInventoryToSend, refused, nRefusals>>

\* Known already, or a stake seen before in the chain or, with the parent
\* missing, among the orphans, and no orphan child that vouches for the block.
ProcessBlockRefused(n, m, b) ==
    LET s == IF fLate[n] THEN <<<<pindexBest[n], None>>>> ELSE << >>
    IN /\ \/ AlreadyHave(n, b) /\ UNCHANGED <<refused, nRefusals>>
          \/ /\ ~AlreadyHave(n, b)
             /\ mapOrphanBlocks[n] \cap {o \in Blocks : Prev[o] = b} = {}
             /\ nRefusals < MaxRefusals /\ nRefusals' = nRefusals + 1
             /\ refused' = [refused EXCEPT ![n] = @ \cup {b}]
       /\ PushGetBlocks(<<n, m>>, s)
       /\ Replies(n, m, GetBlocksMessages(Requests(<<n, m>>, s)))
       /\ UNCHANGED <<chainVars, mapAlreadyAskedFor, mapAskFor, vInventoryToSend>>

ReceiveBlock(n, m) ==
    /\ Takes(n, m, "block")
    /\ LET block == Message1(n, m).block
       IN /\ KnowsInventory(<<n, m>>, {block})
          /\ \/ ProcessBlockAccepted(n, m, block)
             \/ ProcessBlockOrphan(n, m, block)
             \/ ProcessBlockRefused(n, m, block)
    /\ UNCHANGED <<nAskedForBlocks, nStartingHeight, hashContinue, up, nBreaks>>

ProcessMessages(n, m) ==
    ReceiveVersion(n, m) \/ ReceiveGetBlocks(n, m) \/ ReceiveInv(n, m)
        \/ ReceiveGetData(n, m) \/ ReceiveBlock(n, m)

-----------------------------------------------------------------------------
(* SendMessages: n fills the stream to m, once it has m's version          *)

Batch(cmd, s) == IF s = << >> THEN << >> ELSE <<[cmd |-> cmd, blocks |-> s]>>

SendMessages(n, m) ==
    LET e         == <<n, m>>
        Wanted(r) == r[1] = 0 /\ ~AlreadyHave(n, r[2])
        Ahead(r)  == r[1] > 0
        due       == SelectSeq(mapAskFor[e], Wanted)
        get       == [i \in DOMAIN due |-> due[i][2]]
        \* the first occurrence of each block m is not known to have
        New(i)    == /\ vInventoryToSend[e][i] \notin setInventoryKnown[e]
                     /\ \A j \in 1 .. i - 1 : vInventoryToSend[e][j] # vInventoryToSend[e][i]
        places    == SelectSeq([i \in DOMAIN vInventoryToSend[e] |-> i], New)
        inv       == [i \in DOMAIN places |-> vInventoryToSend[e][places[i]]]
    IN /\ Stands(e) /\ nStartingHeight[e] # -1
       /\ vInventoryToSend[e] # << >> \/ \E r \in ToSet(mapAskFor[e]) : r[1] = 0
       /\ KnowsInventory(e, ToSet(inv))
       /\ vInventoryToSend' = [vInventoryToSend EXCEPT ![e] = << >>]
       /\ mapAskFor' = [mapAskFor EXCEPT ![e] = SelectSeq(@, Ahead)]
       /\ mapAlreadyAskedFor' = [mapAlreadyAskedFor EXCEPT ![n] =
             [b \in Blocks |-> IF b \in ToSet(get) THEN 0 ELSE @[b]]]
       /\ pipe' = [pipe EXCEPT ![e] = @ \o Batch("inv", inv) \o Batch("getdata", get)]
       /\ UNCHANGED <<chainVars, nAskedForBlocks, nStartingHeight, hashContinue,
                      lastGetBlocks, up, bounds>>

-----------------------------------------------------------------------------
(* New blocks, time and the network                                        *)

\* n makes a block that nobody has: ProcessBlock(NULL, ...).
Mine(n, b) ==
    /\ Prev[b] = pindexBest[n] /\ \A m \in Node : b \notin mapBlockIndex[m]
    /\ AcceptBlock(n, b, setInventoryKnown)
    /\ UNCHANGED <<mapAlreadyAskedFor, nAskedForBlocks, nStartingHeight, hashContinue,
                   lastGetBlocks, setInventoryKnown, mapAskFor, pipe, up, bounds>>

\* Two minutes pass.
Tick ==
    /\ mapAlreadyAskedFor' = [n \in Node |-> [b \in Blocks |->
          IF mapAlreadyAskedFor[n][b] = Never THEN Never ELSE mapAlreadyAskedFor[n][b] - 1]]
    /\ mapAskFor' = [e \in End |-> [i \in DOMAIN mapAskFor[e] |->
          <<IF mapAskFor[e][i][1] = 0 THEN 0 ELSE mapAskFor[e][i][1] - 1, mapAskFor[e][i][2]>>]]
    /\ fLate' = [n \in Node |-> TRUE]
    /\ UNCHANGED <<mapBlockIndex, pindexBest, mapOrphanBlocks, nAskedForBlocks,
                   nStartingHeight, hashContinue, lastGetBlocks, setInventoryKnown,
                   vInventoryToSend, pipe, up, bounds>>

\* More than MAX_TIME_SINCE_BEST_BLOCK passes.
TenSeconds(n) ==
    /\ ~fLate[n] /\ fLate' = [fLate EXCEPT ![n] = TRUE]
    /\ UNCHANGED <<mapBlockIndex, pindexBest, mapOrphanBlocks, mapAlreadyAskedFor,
                   nAskedForBlocks, peerVars, pipe, up, bounds>>

Connect(l) ==
    /\ l \in Link \ up
    /\ up' = up \cup {l}
    /\ pipe' = [pipe EXCEPT ![l] = <<VersionMessage(l[1])>>]
    /\ UNCHANGED <<chainVars, mapAlreadyAskedFor, nAskedForBlocks, peerVars, bounds>>

Disconnect(l) ==
    LET Reset(f, v) == [e \in End |-> IF e \in {l, <<l[2], l[1]>>} THEN v ELSE f[e]]
    IN /\ l \in up /\ nBreaks < MaxBreaks
       /\ up' = up \ {l} /\ nBreaks' = nBreaks + 1
       /\ nStartingHeight' = Reset(nStartingHeight, -1)
       /\ hashContinue' = Reset(hashContinue, None)
       /\ lastGetBlocks' = Reset(lastGetBlocks, <<None, None>>)
       /\ setInventoryKnown' = Reset(setInventoryKnown, {})
       /\ vInventoryToSend' = Reset(vInventoryToSend, << >>)
       /\ mapAskFor' = Reset(mapAskFor, << >>)
       /\ pipe' = Reset(pipe, << >>)
       /\ UNCHANGED <<chainVars, mapAlreadyAskedFor, nAskedForBlocks, refused, nRefusals>>

-----------------------------------------------------------------------------
Init ==
    /\ pindexBest = FirstBest
    /\ mapBlockIndex = [n \in Node |-> Branch[FirstBest[n]]]
    /\ mapOrphanBlocks = [n \in Node |-> {}]
    /\ mapAlreadyAskedFor = [n \in Node |-> [b \in Blocks |-> Never]]
    /\ nAskedForBlocks = [n \in Node |-> FALSE]
    /\ fLate = [n \in Node |-> FALSE]
    /\ nStartingHeight = [e \in End |-> -1]
    /\ hashContinue = [e \in End |-> None]
    /\ lastGetBlocks = [e \in End |-> <<None, None>>]
    /\ setInventoryKnown = [e \in End |-> {}]
    /\ vInventoryToSend = [e \in End |-> << >>]
    /\ mapAskFor = [e \in End |-> << >>]
    /\ pipe = [e \in End |-> << >>]
    /\ up = {}
    /\ refused = [n \in Node |-> {}]
    /\ nBreaks = 0 /\ nRefusals = 0

Next ==
    \/ \E e \in End : ProcessMessages(e[1], e[2])
    \/ \E e \in End : SendMessages(e[1], e[2])
    \/ \E n \in Node, b \in Blocks : Mine(n, b)
    \/ Tick
    \/ \E n \in Node : TenSeconds(n)
    \/ \E l \in Link : Connect(l)
    \/ \E l \in Link : Disconnect(l)

Spec == Init /\ [][Next]_vars

-----------------------------------------------------------------------------
(* Properties                                                              *)

TypeOK ==
    /\ mapBlockIndex \in [Node -> SUBSET Blocks]
    /\ pindexBest \in [Node -> Blocks]
    /\ mapOrphanBlocks \in [Node -> SUBSET Blocks]
    /\ mapAlreadyAskedFor \in [Node -> [Blocks -> Nat \cup {Never}]]
    /\ nAskedForBlocks \in [Node -> BOOLEAN] /\ fLate \in [Node -> BOOLEAN]
    /\ nStartingHeight \in [End -> Nat \cup {-1}]
    /\ hashContinue \in [End -> Blocks \cup {None}]
    /\ setInventoryKnown \in [End -> SUBSET Blocks]
    /\ vInventoryToSend \in [End -> Seq(Blocks)]
    /\ mapAskFor \in [End -> Seq(Nat \X Blocks)]
    /\ pipe \in [End -> Seq(Message)]
    /\ up \subseteq Link

\* Nothing is on the way, queued or to be asked for later on a link on which
\* both ends know each other's version.
Quiet(l) ==
    /\ l \in up
    /\ \A e \in {l, <<l[2], l[1]>>} :
          /\ pipe[e] = << >> /\ vInventoryToSend[e] = << >> /\ mapAskFor[e] = << >>
          /\ nStartingHeight[e] # -1

\* n's download from m has stopped: a block of m's chain was refused and has
\* not come again, or m waits for the request of a block that n has by now,
\* before it names the next batch.
Stopped(n, m) ==
    \/ (refused[n] \cap MainChain(m)) \ mapBlockIndex[n] # {}
    \/ hashContinue[<<m, n>>] \in mapBlockIndex[n]

\* A download stops short for two reasons only: when a link falls quiet, its
\* ends have chains of the same trust, through batches of getblocks that
\* hashContinue strings together, blocks that arrive before their parents, a
\* link that breaks with requests on the way and new blocks in between; unless
\* a block was refused for its stake and no orphan child makes the node ask for
\* it again, or the last block of a batch was an orphan that need not be
\* requested, so that hashContinue is never met.
NoSilentStall ==
    \A l \in Link : \A e \in {l, <<l[2], l[1]>>} :
        Quiet(l) /\ Trust[pindexBest[e[1]]] < Trust[pindexBest[e[2]]]
            => Stopped(e[1], e[2])

\* As long as no link breaks, a refused block is asked for again once a child
\* has come as an orphan: only a best block stays missing for good.
OnlyRefusedTipsMissing ==
    \A l \in Link : \A e \in {l, <<l[2], l[1]>>} :
        Quiet(l) /\ Trust[pindexBest[e[1]]] < Trust[pindexBest[e[2]]]
            => pindexBest[e[2]] \in refused[e[1]]
=============================================================================
