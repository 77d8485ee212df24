------------------------------- MODULE Relay -------------------------------
(***************************************************************************)
(* Transaction relay between nodes (main.cpp, net.h, wallet.cpp):          *)
(* announcements (inv), requests (getdata) with their retry times, the     *)
(* transactions themselves (tx), and the orphan transactions waiting for a *)
(* parent.  Every node of Honest runs the code; the nodes of Strangers are *)
(* peers that send what they like.  Each link is a pair of TCP streams     *)
(* (FIFO); a link may break, and then the CNode objects of both ends are   *)
(* gone with everything that was in flight.                                *)
(*                                                                         *)
(* Time is kept relative to now, in units of the two minutes of AskFor: a  *)
(* value k > 0 lies k units ahead, 0 is now, and -1 stands for everything  *)
(* so long ago that the next request may be sent at once (and for "no      *)
(* entry", whose value is 0, the year 1970).                               *)
(***************************************************************************)
EXTENDS Integers, Sequences, FiniteSets, SequencesExt

CONSTANTS
    Honest,         \* nodes that run this code
    Strangers,      \* peers that may send anything
    Link,           \* the connections that are made, two-element sets of nodes
    Tx,             \* transactions
    Parents,        \* [Tx -> SUBSET Tx] the transactions each one spends
    Invalid,        \* transactions that fail once their inputs are known
    Large,          \* transactions over 5000 bytes
    Minable,        \* transactions a block may confirm
    Owner,          \* [Tx -> Honest \cup Strangers] who makes the transaction
    MAX_ORPHAN_TRANSACTIONS,
    MaxBreaks,      \* bound: how often a link breaks or a node restarts
    MaxForgets,     \* bound: how often an mruset drops an old entry
    MaxSendings     \* bound: messages sent by strangers

VARIABLES
    mapTx,          \* [Honest -> SUBSET Tx] mempool.mapTx
    txdb,           \* [Honest -> SUBSET Tx] transactions in the best chain
    mapWallet,      \* [Honest -> SUBSET Tx] transactions the node's wallet made
    mapRelay,       \* [Honest -> SUBSET Tx] recently relayed messages
    mapOrphanTransactions,       \* [Honest -> SUBSET Tx]
    mapOrphanTransactionsByPrev, \* [Honest -> [Tx -> SUBSET Tx]]
    mapAlreadyAskedFor,          \* [Honest -> [Tx -> Int]] relative times
    setInventoryKnown,  \* [End -> SUBSET Tx] per CNode
    vInventoryToSend,   \* [End -> Seq(Tx)] per CNode, without repetitions
    mapAskFor,          \* [End -> Seq(Nat \X Tx)] per CNode, ordered by time
    pipe,               \* [End -> Seq(Message)] bytes on the way
    up,                 \* the links that stand
    nBreaks, nForgets, nSendings

nodeVars == <<mapTx, txdb, mapWallet, mapRelay, mapOrphanTransactions,
              mapOrphanTransactionsByPrev, mapAlreadyAskedFor>>
orphanVars == <<mapOrphanTransactions, mapOrphanTransactionsByPrev>>
peerVars == <<setInventoryKnown, vInventoryToSend, mapAskFor>>
bounds == <<nBreaks, nForgets, nSendings>>
relayVars == <<nodeVars, peerVars, pipe, up, bounds>>

Node == Honest \cup Strangers

\* <<n, m>> is n's end of the link to m: the CNode that n keeps for m.
End == {e \in Node \X Node : {e[1], e[2]} \in Link /\ e[1] # e[2]}

Message == [cmd : {"inv", "getdata"}, txs : Seq(Tx)] \cup [cmd : {"tx"}, tx : Tx]

Never == -1

ASSUME RelayAssumption ==
    /\ Honest \cap Strangers = {}
    /\ Link \subseteq SUBSET Node
    /\ Parents \in [Tx -> SUBSET Tx]
    /\ Owner \in [Tx -> Node]
    /\ Invalid \subseteq Tx /\ Large \subseteq Tx /\ Minable \subseteq Tx \ Invalid
    /\ MAX_ORPHAN_TRANSACTIONS \in Nat
    /\ MaxBreaks \in Nat /\ MaxForgets \in Nat /\ MaxSendings \in Nat

-----------------------------------------------------------------------------
(* Inventory: what a node has, announces and asks for                      *)

\* Mutant: a transaction once asked for is never asked for again.
AlreadyHaveAsked(n, t) ==
    \/ t \in mapTx[n] \cup mapOrphanTransactions[n] \cup txdb[n]
    \/ mapAlreadyAskedFor[n][t] # Never

AlreadyHave(n, t) ==
    t \in mapTx[n] \cup mapOrphanTransactions[n] \cup txdb[n]

\* The orders in which transactions are relayed: a child after its parents.
Orders(S) == {s \in SetToSeqs(S) :
                \A i, j \in DOMAIN s : s[i] \in Parents[s[j]] => i < j}

\* CNode::PushInventory, for all of s and for every standing peer of n.
PushInventory(n, s, known) ==
    vInventoryToSend' = [e \in End |->
        LET New(t) == t \notin known[e] \cup ToSet(vInventoryToSend[e])
        IN IF e[1] = n /\ {e[1], e[2]} \in up
           THEN vInventoryToSend[e] \o SelectSeq(s, New)
           ELSE vInventoryToSend[e]]

\* RelayMessage for every member of S.  Some of what mapRelay held has passed
\* its fifteen minutes and is dropped before S is added.
RelayMessage(n, S, known) ==
    /\ \E kept \in SUBSET mapRelay[n] :
           mapRelay' = [mapRelay EXCEPT ![n] = kept \cup S]
    /\ \E s \in Orders(S) : PushInventory(n, s, known)

\* The time AskFor writes into mapAlreadyAskedFor and under which it queues
\* the request: one unit after the last one, or now.
RequestTime(n, t) ==
    IF mapAlreadyAskedFor[n][t] = Never THEN 0 ELSE mapAlreadyAskedFor[n][t] + 1

\* A multimap insert: behind the entries with the same time.
InsertRequest(q, r) ==
    LET Before(u) == u[1] <= r[1]
        After(u)  == u[1] > r[1]
    IN SelectSeq(q, Before) \o <<r>> \o SelectSeq(q, After)

-----------------------------------------------------------------------------
(* Orphan transactions                                                     *)

\* The members of S are no longer in either map.
WithoutOrphans(byPrev, S) == [p \in Tx |-> byPrev[p] \ S]

\* AddOrphanTx followed by LimitOrphanTxSize, which evicts at random.
AddOrphanTx(n, t) ==
    LET has    == mapOrphanTransactions[n]
        fresh  == t \notin has \cup Large
        full   == IF fresh THEN has \cup {t} ELSE has
        linked == [p \in Tx |-> IF fresh /\ p \in Parents[t]
                                THEN mapOrphanTransactionsByPrev[n][p] \cup {t}
                                ELSE mapOrphanTransactionsByPrev[n][p]]
    IN \E evicted \in SUBSET full :
          /\ Cardinality(evicted) =
                IF Cardinality(full) > MAX_ORPHAN_TRANSACTIONS
                THEN Cardinality(full) - MAX_ORPHAN_TRANSACTIONS ELSE 0
          /\ mapOrphanTransactions' =
                [mapOrphanTransactions EXCEPT ![n] = full \ evicted]
          /\ mapOrphanTransactionsByPrev' =
                [mapOrphanTransactionsByPrev EXCEPT ![n] = WithoutOrphans(linked, evicted)]

\* CTxMemPool::accept: a transaction the node does not have, whose inputs it
\* has and which passes their checks.
HasInputs(n, t, S) == Parents[t] \subseteq mapTx[n] \cup txdb[n] \cup S
Accepts(n, t) ==
    /\ t \notin mapTx[n] \cup txdb[n]
    /\ HasInputs(n, t, {})
    /\ t \notin Invalid
MissingInputs(n, t) ==
    /\ t \notin mapTx[n] \cup txdb[n]
    /\ ~HasInputs(n, t, {})

\* The work queue of the tx handler: t, and every orphan found under a member
\* of the queue that the pool accepts now that its parents are there.
Dependents(n, S) == UNION {mapOrphanTransactionsByPrev[n][p] : p \in S}
QueueClosed(n, t, S) ==
    /\ t \in S
    /\ \A o \in Dependents(n, S) :
          (HasInputs(n, o, S) /\ o \notin Invalid) => o \in S

\* Mutant: accepted orphans are not queued in their turn.
WorkQueueShallow(n, t) ==
    {t} \cup {o \in mapOrphanTransactionsByPrev[n][t] : HasInputs(n, o, {t}) /\ o \notin Invalid}
WorkQueue(n, t) ==
    {x \in Tx : \A S \in SUBSET Tx : QueueClosed(n, t, S) => x \in S}

\* What was accepted, and every orphan retried on the way that turned out
\* invalid now that its inputs are known.
EraseQueue(n, t) ==
    LET done == WorkQueue(n, t)
    IN done \cup {o \in Dependents(n, done) : HasInputs(n, o, done) /\ o \in Invalid}

-----------------------------------------------------------------------------
(* Handlers: n processes a message of m                                    *)

KnowsInventory(e, S) ==
    setInventoryKnown' = [setInventoryKnown EXCEPT ![e] = @ \cup S]

ProcessInv(n, m, txs) ==
    LET New(t) == ~AlreadyHave(n, t)
        wanted == SelectSeq(txs, New)
    IN /\ KnowsInventory(<<n, m>>, ToSet(txs))
       /\ mapAskFor' = [mapAskFor EXCEPT ![<<n, m>>] =
             FoldLeft(InsertRequest, @, [i \in DOMAIN wanted |->
                                          <<RequestTime(n, wanted[i]), wanted[i]>>])]
       /\ mapAlreadyAskedFor' = [mapAlreadyAskedFor EXCEPT ![n] =
             [t \in Tx |-> IF t \in ToSet(wanted) THEN RequestTime(n, t) ELSE @[t]]]
       /\ UNCHANGED <<mapTx, txdb, mapWallet, mapRelay, orphanVars, vInventoryToSend>>

ProcessTxAccepted(n, m, t) ==
    LET done == WorkQueue(n, t)
    IN /\ Accepts(n, t)
       /\ KnowsInventory(<<n, m>>, {t})
       /\ mapTx' = [mapTx EXCEPT ![n] = @ \cup done]
       \* m, known to have t by now, is not offered it
       /\ RelayMessage(n, done, setInventoryKnown')
       /\ mapAlreadyAskedFor' = [mapAlreadyAskedFor EXCEPT ![n] =
             [x \in Tx |-> IF x \in done THEN Never ELSE @[x]]]
       /\ mapOrphanTransactions' =
             [mapOrphanTransactions EXCEPT ![n] = @ \ EraseQueue(n, t)]
       /\ mapOrphanTransactionsByPrev' =
             [mapOrphanTransactionsByPrev EXCEPT ![n] =
                 WithoutOrphans(@, EraseQueue(n, t))]
       /\ UNCHANGED <<txdb, mapWallet, mapAskFor>>

ProcessTxOrphan(n, m, t) ==
    /\ MissingInputs(n, t)
    /\ KnowsInventory(<<n, m>>, {t})
    /\ AddOrphanTx(n, t)
    /\ UNCHANGED <<mapTx, txdb, mapWallet, mapRelay, mapAlreadyAskedFor,
                   vInventoryToSend, mapAskFor>>

ProcessTxRejected(n, m, t) ==
    /\ ~Accepts(n, t) /\ ~MissingInputs(n, t)
    /\ KnowsInventory(<<n, m>>, {t})
    /\ UNCHANGED <<nodeVars, vInventoryToSend, mapAskFor>>

\* getdata: answered from mapRelay or from the pool, in the order of the
\* request; what the node has nowhere is passed over in silence.
Answer(n, txs) ==
    LET Held(t) == t \in mapRelay[n] \cup mapTx[n]
        s == SelectSeq(txs, Held)
    IN [i \in DOMAIN s |-> [cmd |-> "tx", tx |-> s[i]]]

ProcessGetData(n, m, txs) ==
    /\ pipe' = [pipe EXCEPT ![<<m, n>>] = Tail(@), ![<<n, m>>] = @ \o Answer(n, txs)]
    /\ UNCHANGED <<nodeVars, peerVars>>

Consume(n, m) == pipe' = [pipe EXCEPT ![<<m, n>>] = Tail(@)]

\* n takes the first message that m sent.
ReceiveInv(n, m) ==
    /\ pipe[<<m, n>>] # << >> /\ Head(pipe[<<m, n>>]).cmd = "inv"
    /\ ProcessInv(n, m, Head(pipe[<<m, n>>]).txs)
    /\ Consume(n, m)
    /\ UNCHANGED <<up, bounds>>

ReceiveGetData(n, m) ==
    /\ pipe[<<m, n>>] # << >> /\ Head(pipe[<<m, n>>]).cmd = "getdata"
    /\ ProcessGetData(n, m, Head(pipe[<<m, n>>]).txs)
    /\ UNCHANGED <<up, bounds>>

ReceiveTx(n, m) ==
    /\ pipe[<<m, n>>] # << >> /\ Head(pipe[<<m, n>>]).cmd = "tx"
    /\ \E t \in Tx :
          /\ Head(pipe[<<m, n>>]).tx = t
          /\ \/ ProcessTxAccepted(n, m, t)
             \/ ProcessTxOrphan(n, m, t)
             \/ ProcessTxRejected(n, m, t)
    /\ Consume(n, m)
    /\ UNCHANGED <<up, bounds>>

ProcessMessages(n, m) == ReceiveInv(n, m) \/ ReceiveGetData(n, m) \/ ReceiveTx(n, m)

-----------------------------------------------------------------------------
(* SendMessages: n fills the stream to m                                   *)

IsDue(r) == r[1] = 0
IsAhead(r) == r[1] > 0

\* The requests that are due, for what the node still lacks.
Requested(n, m) ==
    LET Wanted(r) == r[1] = 0 /\ ~AlreadyHave(n, r[2])
        due == SelectSeq(mapAskFor[<<n, m>>], Wanted)
    IN [i \in DOMAIN due |-> due[i][2]]

Batch(cmd, s) == IF s = << >> THEN << >> ELSE <<[cmd |-> cmd, txs |-> s]>>

\* With fSendTrickle all of the inventory goes out; without it only the part
\* that the salted hash of each transaction lets through.
SendMessages(n, m, fSendTrickle) ==
    /\ {n, m} \in up
    /\ vInventoryToSend[<<n, m>>] # << >> \/ \E r \in ToSet(mapAskFor[<<n, m>>]) : IsDue(r)
    /\ \E wait \in IF fSendTrickle THEN {{}} ELSE SUBSET ToSet(vInventoryToSend[<<n, m>>]) :
          LET Unknown(t) == t \notin setInventoryKnown[<<n, m>>]
              Goes(t)    == Unknown(t) /\ t \notin wait
              Waits(t)   == Unknown(t) /\ t \in wait
              vInv       == SelectSeq(vInventoryToSend[<<n, m>>], Goes)
          IN /\ KnowsInventory(<<n, m>>, ToSet(vInv))
             /\ vInventoryToSend' = [vInventoryToSend EXCEPT ![<<n, m>>] = SelectSeq(@, Waits)]
             /\ pipe' = [pipe EXCEPT ![<<n, m>>] =
                   @ \o Batch("inv", vInv) \o Batch("getdata", Requested(n, m))]
    /\ mapAskFor' = [mapAskFor EXCEPT ![<<n, m>>] = SelectSeq(@, IsAhead)]
    /\ mapAlreadyAskedFor' = [mapAlreadyAskedFor EXCEPT ![n] =
          [t \in Tx |-> IF t \in ToSet(Requested(n, m)) THEN 0 ELSE @[t]]]
    /\ UNCHANGED <<mapTx, txdb, mapWallet, mapRelay, orphanVars, up, bounds>>

-----------------------------------------------------------------------------
(* The wallet, the chain and the clock                                     *)

\* vtxPrev: the unconfirmed transactions that t rests on, which the wallet
\* keeps with it and relays with it.
Supporting(n, t) ==
    {x \in Tx \ txdb[n] : \A S \in SUBSET Tx :
        (Parents[t] \subseteq S /\ \A y \in S : Parents[y] \subseteq S) => x \in S}
WalletRelays(n, S) == (S \cup UNION {Supporting(n, t) : t \in S}) \ txdb[n]

\* CWallet::CommitTransaction: recorded, accepted and relayed.
CommitTransaction(n, t) ==
    /\ Owner[t] = n /\ t \notin mapWallet[n] /\ Accepts(n, t)
    /\ mapWallet' = [mapWallet EXCEPT ![n] = @ \cup {t}]
    /\ mapTx' = [mapTx EXCEPT ![n] = @ \cup {t}]
    /\ RelayMessage(n, WalletRelays(n, {t}), setInventoryKnown)
    /\ UNCHANGED <<txdb, orphanVars, mapAlreadyAskedFor, setInventoryKnown,
                   mapAskFor, pipe, up, bounds>>

\* What the wallet made and no block holds yet.
ResendWalletTransactions(n) ==
    /\ RelayMessage(n, WalletRelays(n, mapWallet[n]), setInventoryKnown)
    /\ UNCHANGED <<mapTx, txdb, mapWallet, orphanVars, mapAlreadyAskedFor,
                   setInventoryKnown, mapAskFor, pipe, up, bounds>>

\* A block with t joins n's best chain: t enters the database and leaves the
\* pool; the orphan maps are not looked at.
ConnectBlock(n, t) ==
    /\ t \in Minable \ txdb[n]
    /\ \E a \in Honest : t \in mapTx[a] \cup txdb[a]
    /\ Parents[t] \subseteq txdb[n]
    /\ txdb' = [txdb EXCEPT ![n] = @ \cup {t}]
    /\ mapTx' = [mapTx EXCEPT ![n] = @ \ {t}]
    /\ UNCHANGED <<mapWallet, mapRelay, orphanVars, mapAlreadyAskedFor, peerVars,
                   pipe, up, bounds>>

\* Two minutes pass.
Tick ==
    /\ mapAlreadyAskedFor' = [n \in Honest |-> [t \in Tx |->
          IF mapAlreadyAskedFor[n][t] = Never THEN Never
                                              ELSE mapAlreadyAskedFor[n][t] - 1]]
    /\ mapAskFor' = [e \in End |->
          [i \in DOMAIN mapAskFor[e] |->
              <<IF IsDue(mapAskFor[e][i]) THEN 0 ELSE mapAskFor[e][i][1] - 1,
                mapAskFor[e][i][2]>>]]
    /\ UNCHANGED <<mapTx, txdb, mapWallet, mapRelay, orphanVars, setInventoryKnown,
                   vInventoryToSend, pipe, up, bounds>>

-----------------------------------------------------------------------------
(* The network                                                             *)

\* The links of L are down: their CNode objects are deleted at both ends, and
\* what was on the way is lost.
DropLinks(L) ==
    LET gone == {e \in End : {e[1], e[2]} \in L}
    IN /\ up' = up \ L
       /\ setInventoryKnown' = [e \in End |-> IF e \in gone THEN {} ELSE setInventoryKnown[e]]
       /\ vInventoryToSend' = [e \in End |-> IF e \in gone THEN << >> ELSE vInventoryToSend[e]]
       /\ mapAskFor' = [e \in End |-> IF e \in gone THEN << >> ELSE mapAskFor[e]]
       /\ pipe' = [e \in End |-> IF e \in gone THEN << >> ELSE pipe[e]]

LoseLink(l) ==
    /\ l \in up /\ nBreaks < MaxBreaks
    /\ DropLinks({l})
    /\ nBreaks' = nBreaks + 1
    /\ UNCHANGED <<nodeVars, nForgets, nSendings>>

\* n stops and starts again: the chain and the wallet are on disk, and
\* ReacceptWalletTransactions puts the wallet's open transactions, with
\* what they rest on, back into the pool before any peer is connected.
Restart(n) ==
    /\ nBreaks < MaxBreaks
    /\ DropLinks({l \in Link : n \in l})
    /\ mapTx' = [mapTx EXCEPT ![n] = WalletRelays(n, mapWallet[n])]
    /\ mapRelay' = [mapRelay EXCEPT ![n] = {}]
    /\ mapOrphanTransactions' = [mapOrphanTransactions EXCEPT ![n] = {}]
    /\ mapOrphanTransactionsByPrev' =
          [mapOrphanTransactionsByPrev EXCEPT ![n] = [t \in Tx |-> {}]]
    /\ mapAlreadyAskedFor' = [mapAlreadyAskedFor EXCEPT ![n] = [t \in Tx |-> Never]]
    /\ nBreaks' = nBreaks + 1
    /\ UNCHANGED <<txdb, mapWallet, nForgets, nSendings>>

\* A link is made again, with new CNode objects; nothing is announced on it.
Connect(l) ==
    /\ l \in Link \ up
    /\ up' = up \cup {l}
    /\ UNCHANGED <<nodeVars, peerVars, pipe, bounds>>

\* mruset: other inventory has pushed t out of setInventoryKnown.
ForgetInventory(e, t) ==
    /\ t \in setInventoryKnown[e] /\ nForgets < MaxForgets
    /\ setInventoryKnown' = [setInventoryKnown EXCEPT ![e] = @ \ {t}]
    /\ nForgets' = nForgets + 1
    /\ UNCHANGED <<nodeVars, vInventoryToSend, mapAskFor, pipe, up, nBreaks, nSendings>>

\* Nobody can name a transaction before it, and all it spends, was signed.
Signed(t) == Owner[t] \in Strangers \/ t \in mapWallet[Owner[t]]

\* A stranger x sends n an announcement, a request or a transaction, asked
\* for or not, and reads what it is sent.
StrangerSends(x, n) ==
    /\ {x, n} \in up /\ nSendings < MaxSendings
    /\ \E t \in {u \in Tx : \A v \in {u} \cup Parents[u] : Signed(v)} :
       \E msg \in {[cmd |-> "inv", txs |-> <<t>>], [cmd |-> "getdata", txs |-> <<t>>],
                   [cmd |-> "tx", tx |-> t]} :
          pipe' = [pipe EXCEPT ![<<x, n>>] = Append(@, msg)]
    /\ nSendings' = nSendings + 1
    /\ UNCHANGED <<nodeVars, peerVars, up, nBreaks, nForgets>>

StrangerReads(x, n) ==
    /\ pipe[<<n, x>>] # << >>
    /\ pipe' = [pipe EXCEPT ![<<n, x>>] = Tail(@)]
    /\ UNCHANGED <<nodeVars, peerVars, up, bounds>>

-----------------------------------------------------------------------------
RelayInit ==
    /\ mapTx = [n \in Honest |-> {}]
    /\ txdb = [n \in Honest |-> {}]
    /\ mapWallet = [n \in Honest |-> {}]
    /\ mapRelay = [n \in Honest |-> {}]
    /\ mapOrphanTransactions = [n \in Honest |-> {}]
    /\ mapOrphanTransactionsByPrev = [n \in Honest |-> [t \in Tx |-> {}]]
    /\ mapAlreadyAskedFor = [n \in Honest |-> [t \in Tx |-> Never]]
    /\ setInventoryKnown = [e \in End |-> {}]
    /\ vInventoryToSend = [e \in End |-> << >>]
    /\ mapAskFor = [e \in End |-> << >>]
    /\ pipe = [e \in End |-> << >>]
    /\ up = Link
    /\ nBreaks = 0 /\ nForgets = 0 /\ nSendings = 0

HonestEnd == {e \in End : e[1] \in Honest}
StrangerEnd == {e \in End : e[1] \in Strangers /\ e[2] \in Honest}

RelayNext ==
    \/ \E e \in HonestEnd : ProcessMessages(e[1], e[2])
    \/ \E e \in HonestEnd, fSendTrickle \in BOOLEAN : SendMessages(e[1], e[2], fSendTrickle)
    \/ \E n \in Honest, t \in Tx : CommitTransaction(n, t)
    \/ \E n \in Honest : ResendWalletTransactions(n)
    \/ \E n \in Honest, t \in Tx : ConnectBlock(n, t)
    \/ Tick
    \/ \E l \in Link : LoseLink(l)
    \/ \E n \in Honest : Restart(n)
    \/ \E l \in Link : Connect(l)
    \/ \E e \in HonestEnd, t \in Tx : ForgetInventory(e, t)
    \/ \E e \in StrangerEnd : StrangerSends(e[1], e[2])
    \/ \E e \in StrangerEnd : StrangerReads(e[1], e[2])

RelaySpec == RelayInit /\ [][RelayNext]_relayVars

\* The message loop runs for ever, the clock advances, every peer is drawn as
\* the trickle node again and again, lost links are made anew, and blocks that
\* keep arriving let ResendWalletTransactions through now and again.  Nothing
\* is assumed of strangers, of the moment a wallet spends or of blocks.
Fairness ==
    /\ \A e \in HonestEnd :
          /\ WF_relayVars(ProcessMessages(e[1], e[2]))
          /\ WF_relayVars(SendMessages(e[1], e[2], TRUE))
    /\ \A n \in Honest : WF_relayVars(ResendWalletTransactions(n))
    /\ \A l \in Link : WF_relayVars(Connect(l))
    /\ WF_relayVars(Tick)

FairRelaySpec == RelaySpec /\ Fairness

-----------------------------------------------------------------------------
(* Properties                                                              *)

RelayTypeOK ==
    /\ mapTx \in [Honest -> SUBSET Tx]
    /\ txdb \in [Honest -> SUBSET Tx]
    /\ mapWallet \in [Honest -> SUBSET Tx]
    /\ mapRelay \in [Honest -> SUBSET Tx]
    /\ mapOrphanTransactions \in [Honest -> SUBSET Tx]
    /\ mapOrphanTransactionsByPrev \in [Honest -> [Tx -> SUBSET Tx]]
    /\ mapAlreadyAskedFor \in [Honest -> [Tx -> Nat \cup {Never}]]
    /\ setInventoryKnown \in [End -> SUBSET Tx]
    /\ vInventoryToSend \in [End -> Seq(Tx)]
    /\ mapAskFor \in [End -> Seq(Nat \X Tx)]
    /\ pipe \in [End -> Seq(Message)]
    /\ up \subseteq Link

\* The two orphan maps describe the same transactions: each stored orphan is
\* found under every parent it spends and nothing else is found there (an
\* entry left behind by EraseOrphanTx would be a pointer to freed memory), and
\* AddOrphanTx with LimitOrphanTxSize keeps the store within its limit.
OrphanMapsAgree ==
    \A n \in Honest :
        /\ \A p \in Tx : mapOrphanTransactionsByPrev[n][p] =
                            {o \in mapOrphanTransactions[n] : p \in Parents[o]}
        /\ Cardinality(mapOrphanTransactions[n]) <= MAX_ORPHAN_TRANSACTIONS

\* Between two messages no stored orphan could be accepted, except when a
\* block brought one of its parents: the tx handler drains everything its
\* transaction made acceptable, whatever order parents and children arrive in,
\* but SetBestChain never looks at the orphans, and AlreadyHave then keeps the
\* node from asking for the orphan again.
OnlyBlocksStrandOrphans ==
    \A n \in Honest : \A o \in mapOrphanTransactions[n] :
        o \notin mapTx[n] \cup txdb[n] /\ HasInputs(n, o, {}) => Parents[o] \cap txdb[n] # {}

\* A transaction a node keeps as an orphan is not in its pool at the same
\* time, so AlreadyHave and the getdata answers never disagree about it.
OrphansNotInPool ==
    \A n \in Honest : mapOrphanTransactions[n] \cap mapTx[n] = {}

\* Nobody sends a transaction, or a child of one, that its owner's wallet has
\* still to make: it would have to carry the signature, and the child its hash.
OrphansAreSigned ==
    \A n \in Honest : \A o \in mapOrphanTransactions[n] : \A t \in {o} \cup Parents[o] : Signed(t)

Committed(t) == Owner[t] \in Honest /\ t \in mapWallet[Owner[t]]
Arrived(n, t) == t \in mapTx[n] \/ \E a \in Honest : t \in txdb[a]
=============================================================================
