----------------------------- MODULE Governance -----------------------------
(***************************************************************************)
(* On-chain voting: the proposals a node knows (mapProposals, the vote     *)
(* database and CVoteProposalManager), the tallies it attaches to block    *)
(* indexes (CVoteTally) and the votes it stakes with (CVoteObject), as     *)
(* blocks are connected and disconnected and the node restarts.            *)
(*                                                                         *)
(* ConnectBlock records proposals one after the other, each by a write     *)
(* that commits on its own, outside the transaction of the block database: *)
(* one step per record here, so that a stop can fall between two of them.  *)
(* Transactions and proposals are numbered in the order of their hashes as *)
(* numbers, the order in which the maps list them; the database lists them *)
(* by the bytes of their keys, which may be any order.  All blocks weigh   *)
(* the same, so that the best chain is the longest one.                    *)
(***************************************************************************)
EXTENDS Integers, Sequences, FiniteSets, BlockTree

CONSTANTS
    BadReward,        \* blocks ConnectBlock refuses at its last check
    Txs,              \* transactions with a proposal, in the order of mapProposals
    Proposals,        \* proposals, in the order of CVoteProposal::GetHash
    ProposalOf,       \* ProposalFromTransaction
    Tracked,          \* those that pay the proposal fee
    WellNamed,        \* proposals whose name and description have legal lengths
    Start, CheckSpan, \* nStartHeight and nCheckSpan
    IntSize,          \* an int is less than IntSize, an unsigned int than twice that
    Msb, Lsb,         \* bitLocation
    NumBits,          \* vote bits in nVersion (28 in the code)
    OutOfRange,       \* std::out_of_range, thrown by vector::at
    VotingStart,      \* VOTING_START, 0 on the test network
    MaxFuture,        \* MAX_BLOCKS_IN_FUTURE
    MaxCheckSpan,     \* MAX_CHECKSPAN
    TxLists,          \* the proposal transactions a block may carry
    RemoteBits,       \* the vote bits a block of another node may carry
    Submitted,        \* transactions that reach this node outside of a block
    UserChoices,      \* the votes the user of this node may set
    MaxWriteFailures, \* bound on the number of failing database writes
    MaxRestarts       \* bound on the number of restarts

(* A choice is the set of bits of its number: {} abstains, {0} is yes, {1} *)
(* is no and {0, 1} asks for a revision.                                   *)
Choices == SUBSET {0, 1}

(* What a block carries: proposal transactions, vote bits, and (ghost) the *)
(* votes this node put there.                                              *)
Content == [txs : Seq(Txs), bits : SUBSET Nat, votes : SUBSET (Proposals \X Choices)]

(* Positions beyond 31 or the wrong way round make ProcessNewVotes shift   *)
(* by an amount C++ leaves undefined: no proposal here has them.           *)
ASSUME ProposalAssumption ==
    /\ Txs \subseteq Nat
    /\ Proposals \subseteq Nat
    /\ ProposalOf \in [Txs -> Proposals]
    /\ Tracked \subseteq Txs
    /\ IntSize \in Nat \ {0}
    /\ Start \in [Proposals -> 0 .. 2 * IntSize - 1]
    /\ CheckSpan \in [Proposals -> 0 .. 2 * IntSize - 1]
    /\ Msb \in [Proposals -> 0 .. 31] /\ Lsb \in [Proposals -> 0 .. 31]
    /\ \A h \in Proposals : Lsb[h] <= Msb[h]
    /\ TxLists \subseteq Seq(Txs)
    /\ Submitted \subseteq Txs
    /\ UserChoices \subseteq Choices
    /\ RemoteBits \subseteq SUBSET Nat
    /\ None \notin Content
    /\ OutOfRange \notin {None} \cup (Int \X Int)

ASSUME BoundAssumption ==
    /\ NumBits \in 1 .. 256
    /\ {VotingStart, MaxFuture, MaxCheckSpan} \subseteq Nat
    /\ {MaxWriteFailures, MaxRestarts} \subseteq Nat

-----------------------------------------------------------------------------
VARIABLES
    pc,              \* "idle", "reorganize", "connect" (a block), "thrown" or "load"
    pindexBest,
    tip,             \* the last block connected by the running SetBestChain
    pindexNew,       \* where the running SetBestChain goes
    vtx,             \* the transactions ConnectBlock has still to look at
    unread,          \* the records CVoteDB::Load has still to read
    block,           \* what an indexed block carries
    mapTx,           \* CTxMemPool, proposal transactions only
    refused,         \* ghost: those CTxMemPool::accept last returned false for
    mapProposals,    \* the keys of mapProposals
    voteDB,          \* the keys of the vote database
    mapProposalData, \* the keys of CVoteProposalManager::mapProposalData
    tally,           \* CBlockIndex::tally
    mapVoteObjects,  \* CWallet::mapVoteObjects, also on disk
    writeFailures,
    restarts

chain == <<pindexBest, tip, pindexNew, block>>
pool == <<mapTx, refused>>
records == <<mapProposals, voteDB, mapProposalData>>
bounds == <<writeFailures, restarts>>
vars == <<pc, chain, vtx, unread, pool, records, tally,
          mapVoteObjects, bounds>>

TxsOf(B) == UNION {{block[b].txs[i] : i \in DOMAIN block[b].txs} : b \in B}

-----------------------------------------------------------------------------
(* CVoteProposalManager.  A proposal is voted on from nHeightStart to      *)
(* nHeightEnd, both included.  The sum is one of unsigned ints, and Add    *)
(* compares unsigned ints; GetActive and GetNextLocation compare ints.     *)

AsInt(n) == IF n < IntSize THEN n ELSE n - 2 * IntSize
HeightEnd(h) == (Start[h] + CheckSpan[h]) % (2 * IntSize)
Bits(h) == Lsb[h] .. Msb[h]
BitCount(h) == (Msb[h] - Lsb[h] + 1) % 256

(* Mutant of Conflict: the last block of a voting period does not count.   *)
ConflictHalfOpen(h, k) ==
    /\ ~(Msb[h] < Lsb[k])
    /\ ~(Lsb[h] > Msb[k])
    /\ ~(Start[h] >= HeightEnd(k) \/ HeightEnd(h) <= Start[k])

(* Two proposals use the same bits during the same time, as Add compares.  *)
Conflict(h, k) ==
    /\ ~(Msb[h] < Lsb[k])
    /\ ~(Lsb[h] > Msb[k])
    /\ ~(Start[h] > HeightEnd(k) \/ HeightEnd(h) < Start[k])

Add(h, data) == IF \E k \in data : Conflict(h, k) THEN data ELSE data \cup {h}

ActiveAt(h, n) == AsInt(Start[h]) <= n /\ AsInt(HeightEnd(h)) >= n
GetActive(n) == {h \in mapProposalData : ActiveAt(h, n)}

ConflictingTime(s, span, data) ==
    {h \in data : AsInt(HeightEnd(h)) >= s /\ AsInt(Start[h]) <= s + span}
Available(busy) == (0 .. NumBits - 1) \ UNION {Bits(h) : h \in busy}

(* Mutant of GetNextLocation: a bit in use does not restart the run.       *)
NextLocationAcrossGaps(n, s, span, data) ==
    LET vConflictingTime == ConflictingTime(s, span, data)
        vAvailable == Available(vConflictingTime)
        fits == {i \in 0 .. NumBits - 1 : Cardinality(vAvailable \cap (i .. NumBits - 1)) = n}
    IN  IF vConflictingTime = {} THEN <<NumBits - 1, (NumBits - n) % 256>>
        ELSE IF \E h \in vConflictingTime : Msb[h] >= NumBits THEN OutOfRange
        ELSE IF fits = {} THEN None
        ELSE LET i == CHOOSE i \in fits : \A j \in fits : j <= i
             IN  <<i + n - 1, i>>

(* Left-most run of n bits free from height s to s + span: nSequential is  *)
(* the length of the run of available bits that ends at bit i, counted     *)
(* from the left.  With nothing in the way the size is not looked at, and  *)
(* a bit in the way that vAvailable does not have throws.                  *)
GetNextLocation(n, s, span, data) ==
    LET vConflictingTime == ConflictingTime(s, span, data)
        vAvailable == Available(vConflictingTime)
        nSequential[i \in 0 .. NumBits] ==
            IF i \in vAvailable THEN nSequential[i + 1] + 1 ELSE 0
        fits == {i \in 0 .. NumBits - 1 : nSequential[i] = n}
    IN  IF vConflictingTime = {} THEN <<NumBits - 1, (NumBits - n) % 256>>
        ELSE IF \E h \in vConflictingTime : Msb[h] >= NumBits THEN OutOfRange
        ELSE IF fits = {} THEN None
        ELSE LET i == CHOOSE i \in fits : \A j \in fits : j <= i
             IN  <<i + n - 1, i>>

(* The checks of CheckProposal before the one for a location.              *)
WellFormed(h) ==
    /\ h \in WellNamed
    /\ Start[h] > Height[pindexBest]
    /\ Start[h] <= Height[pindexBest] + MaxFuture
    /\ CheckSpan[h] \in 1 .. MaxCheckSpan
LocationOf(h) ==
    GetNextLocation(BitCount(h), AsInt(Start[h]), AsInt(CheckSpan[h]), mapProposalData)

CheckProposal(h) ==
    h \in mapProposalData \/ (WellFormed(h) /\ LocationOf(h) \notin {None, OutOfRange})
CheckProposalThrows(h) ==
    h \notin mapProposalData /\ WellFormed(h) /\ LocationOf(h) = OutOfRange

-----------------------------------------------------------------------------
(* CVoteObject and CVoteTally *)

(* Mutant of GetFormattedVote: the vote is not shifted to its place.       *)
UnshiftedVote(h, c) == c

GetFormattedVote(h, c) == {Lsb[h] + i : i \in c}

(* The vote in header bits for h: masked to NumBits, shifted, masked to h. *)
VoteFor(h, bits) ==
    {i - Lsb[h] : i \in bits \cap Bits(h) \cap (0 .. NumBits - 1)}

EmptyTally == [locations |-> {}, votes |-> <<>>]
Summary == [yes : Nat, no : Nat]

(* GetProposalTXID finds the first transaction of h; its record is read.   *)
ReadProposal(h) ==
    \E t \in mapProposals :
        /\ ProposalOf[t] = h
        /\ \A u \in mapProposals : ProposalOf[u] = h => t <= u
        /\ t \in voteDB

(* SetNewPositions stops at the first proposal it cannot read.             *)
SetNewPositions(n) ==
    {h \in GetActive(n) : \A k \in GetActive(n) : k <= h => ReadProposal(k)}

Count(h, sum, locations, bits) ==
    IF h \notin locations THEN sum
    ELSE [yes |-> sum.yes + (IF VoteFor(h, bits) = {0} THEN 1 ELSE 0),
          no |-> sum.no + (IF VoteFor(h, bits) = {1} THEN 1 ELSE 0)]

(* Mutants of NewTally: a block connected again keeps its former tally; no *)
(* summary is started for a new proposal.                                  *)
TallyNotReset(b) ==
    LET own == tally[b].votes
        from == IF DOMAIN own = {} THEN tally[Prev[b]].votes ELSE own
        locations == SetNewPositions(Height[b])
    IN  [locations |-> locations,
         votes |-> [h \in DOMAIN from \cup locations |->
                       Count(h, IF h \in DOMAIN from THEN from[h] ELSE [yes |-> 0, no |-> 0],
                             locations, block[b].bits)]]

(* The tally of b: the copy of its predecessor's (its own former one below *)
(* VOTING_START), a summary for every active proposal, and b's own votes.  *)
NewTally(b) ==
    LET from == tally[IF Height[b] >= VotingStart THEN Prev[b] ELSE b].votes
        locations == SetNewPositions(Height[b])
    IN  [locations |-> locations,
         votes |-> [h \in DOMAIN from \cup locations |->
                       Count(h, IF h \in DOMAIN from THEN from[h] ELSE [yes |-> 0, no |-> 0],
                             locations, block[b].bits)]]

-----------------------------------------------------------------------------
(* Transactions and votes of this node                                     *)

InMainChain(t) == t \in TxsOf(Branch[pindexBest])
GetTransaction(t) == t \in mapTx \/ InMainChain(t)

(* The transaction is stored before its proposal is checked; a check that  *)
(* fails does not remove it, nor does one that throws, which the caller    *)
(* catches (ProcessMessages).                                              *)
AcceptToMemoryPool(t) ==
    /\ pc = "idle"
    /\ t \notin mapTx
    /\ ~InMainChain(t)
    /\ mapTx' = mapTx \cup {t}
    /\ refused' = IF CheckProposal(ProposalOf[t]) \/ CheckProposalThrows(ProposalOf[t])
                  THEN refused \ {t} ELSE refused \cup {t}
    /\ UNCHANGED <<pc, chain, vtx, unread, records, tally, mapVoteObjects, bounds>>

SetVote(t, c) ==
    /\ pc = "idle"
    /\ GetTransaction(t)
    /\ mapVoteObjects' = [mapVoteObjects EXCEPT ![ProposalOf[t]] = c]
    /\ UNCHANGED <<pc, chain, vtx, unread, pool, records, tally, bounds>>

-----------------------------------------------------------------------------
(* Blocks.  ProcessBlock indexes a block whose predecessor it has, and     *)
(* starts SetBestChain if the block makes a longer chain.                  *)

AddToBlockIndex(b, content) ==
    /\ pc = "idle"
    /\ b # Genesis
    /\ block[b] = None
    /\ block[Prev[b]] # None
    /\ \A i \in DOMAIN content.txs : content.txs[i] \notin TxsOf(Branch[Prev[b]])
    /\ block' = [block EXCEPT ![b] = content]
    /\ IF Height[b] > Height[pindexBest]
       THEN pc' = "reorganize" /\ pindexNew' = b
       ELSE UNCHANGED <<pc, pindexNew>>
    /\ UNCHANGED <<pindexBest, tip, vtx, unread, pool, records, tally,
                   mapVoteObjects, bounds>>

ReceiveBlock(b) ==
    \E txs \in TxLists, bits \in RemoteBits :
        AddToBlockIndex(b, [txs |-> txs, bits |-> bits, votes |-> {}])

(* The votes a new block casts: those for the proposals that are active at *)
(* the height of the best block, the new block's predecessor.              *)
VotesCast ==
    {h \in GetActive(Height[pindexBest]) :
        /\ mapVoteObjects[h] # None
        /\ \E t \in mapProposals : ProposalOf[t] = h /\ GetTransaction(t)}

GetCombinedVotes == UNION {GetFormattedVote(h, mapVoteObjects[h]) : h \in VotesCast}

CreateNewBlock(b) ==
    \E txs \in TxLists :
        /\ b # Genesis /\ Prev[b] = pindexBest
        /\ \A i \in DOMAIN txs : txs[i] \in mapTx
        /\ AddToBlockIndex(b, [txs |-> txs, bits |-> GetCombinedVotes,
                               votes |-> {<<h, mapVoteObjects[h]>> : h \in VotesCast}])

-----------------------------------------------------------------------------
(* SetBestChain                                                            *)

NextBlock == CHOOSE b \in Branch[pindexNew] : b # Genesis /\ Prev[b] = tip

DisconnectBlock ==
    /\ pc = "reorganize"
    /\ tip \notin Branch[pindexNew]
    /\ tip' = Prev[tip]
    /\ UNCHANGED <<pc, pindexBest, pindexNew, block, vtx, unread, pool, records,
                   tally, mapVoteObjects, bounds>>

ConnectBlock ==
    /\ pc = "reorganize"
    /\ tip \in Branch[pindexNew] \ {pindexNew}
    /\ pc' = "connect"
    /\ vtx' = block[NextBlock].txs
    /\ UNCHANGED <<chain, unread, pool, records, tally, mapVoteObjects, bounds>>

(* Only proposals that pay the fee are queued.                             *)
SkipTransaction ==
    /\ pc = "connect"
    /\ vtx # <<>>
    /\ Head(vtx) \notin Tracked
    /\ vtx' = Tail(vtx)
    /\ UNCHANGED <<pc, chain, unread, pool, records, tally, mapVoteObjects, bounds>>

RecordProposal ==
    /\ pc = "connect"
    /\ vtx # <<>>
    /\ Head(vtx) \in Tracked
    /\ LET t == Head(vtx)
       IN  /\ mapProposals' = mapProposals \cup {t}
           /\ voteDB' = voteDB \cup {t}
           /\ mapProposalData' = Add(ProposalOf[t], mapProposalData)
    /\ vtx' = Tail(vtx)
    /\ UNCHANGED <<pc, chain, unread, pool, tally, mapVoteObjects, bounds>>

RecordProposalFails ==
    /\ pc = "connect"
    /\ vtx # <<>>
    /\ Head(vtx) \in Tracked
    /\ writeFailures < MaxWriteFailures
    /\ mapProposals' = mapProposals \cup {Head(vtx)}
    /\ vtx' = Tail(vtx)
    /\ writeFailures' = writeFailures + 1
    /\ UNCHANGED <<pc, chain, unread, pool, voteDB, mapProposalData, tally, mapVoteObjects,
                   restarts>>

RecordVotes ==
    /\ pc = "connect"
    /\ vtx = <<>>
    /\ NextBlock \notin BadReward
    /\ tally' = [tally EXCEPT ![NextBlock] = NewTally(NextBlock)]
    /\ tip' = NextBlock
    /\ pc' = "reorganize"
    /\ UNCHANGED <<pindexBest, pindexNew, block, vtx, unread, pool, records,
                   mapVoteObjects, bounds>>

(* The reward is checked after proposals and votes have been recorded; the *)
(* block database rolls back to the old best chain, they do not.           *)
RefuseReward ==
    /\ pc = "connect"
    /\ vtx = <<>>
    /\ NextBlock \in BadReward
    /\ tally' = [tally EXCEPT ![NextBlock] = NewTally(NextBlock)]
    /\ tip' = pindexBest
    /\ pindexNew' = None
    /\ pc' = "idle"
    /\ UNCHANGED <<pindexBest, block, vtx, unread, pool, records, mapVoteObjects,
                   bounds>>

(* Reorganize resurrects the transactions of disconnected blocks, then     *)
(* removes those of connected ones, before nBestHeight changes.            *)
vResurrect == TxsOf(Branch[pindexBest] \ Branch[tip]) \ mapTx
SetBestChain ==
    /\ pc = "reorganize"
    /\ tip = pindexNew
    /\ \A t \in vResurrect : ~CheckProposalThrows(ProposalOf[t])
    /\ LET vDelete == TxsOf(Branch[tip] \ Branch[pindexBest])
           bad == {t \in vResurrect : ~CheckProposal(ProposalOf[t])}
       IN  /\ mapTx' = (mapTx \cup vResurrect) \ vDelete
           /\ refused' = (refused \ vResurrect) \cup bad
    /\ pindexBest' = tip
    /\ pindexNew' = None
    /\ pc' = "idle"
    /\ UNCHANGED <<tip, block, vtx, unread, records, tally, mapVoteObjects, bounds>>

(* Or the check of one of them throws, after those before it: the chain    *)
(* has been committed and is not the best one in memory.  What the node    *)
(* makes of blocks in that state depends on their inputs; here it takes    *)
(* none until it is restarted.                                             *)
SetBestChainThrows ==
    /\ pc = "reorganize"
    /\ tip = pindexNew
    /\ \E t \in vResurrect : \E before \in SUBSET (vResurrect \ {t}) :
          /\ CheckProposalThrows(ProposalOf[t])
          /\ \A u \in before : ~CheckProposalThrows(ProposalOf[u])
          /\ mapTx' = mapTx \cup before \cup {t}
          /\ refused' = {u \in refused \cup before :
                           u \in before \cup {t} => u # t /\ ~CheckProposal(ProposalOf[u])}
    /\ pc' = "thrown"
    /\ UNCHANGED <<chain, vtx, unread, records, tally, mapVoteObjects, bounds>>

-----------------------------------------------------------------------------
(* The process stops and LoadBlockIndex runs: proposals are read back in   *)
(* the order of the database; tallies are on disk but are not read back.   *)

Restart ==
    /\ restarts < MaxRestarts
    /\ restarts' = restarts + 1
    /\ pc' = "load"
    /\ unread' = voteDB
    /\ mapProposals' = {}
    /\ mapProposalData' = {}
    /\ tally' = [b \in Blocks |-> EmptyTally]
    /\ mapTx' = {}
    /\ refused' = {}
    /\ vtx' = <<>>
    /\ pindexBest' = IF pc = "thrown" THEN tip ELSE pindexBest
    /\ tip' = pindexBest'
    /\ pindexNew' = None
    /\ UNCHANGED <<block, voteDB, mapVoteObjects, writeFailures>>

(* Mutant of LoadProposal: a proposal that finds no place ends the loop.   *)
LoadStopsAtConflict(t) ==
    /\ pc = "load"
    /\ t \in unread
    /\ mapProposals' = mapProposals \cup {t}
    /\ mapProposalData' = Add(ProposalOf[t], mapProposalData)
    /\ unread' = IF \E k \in mapProposalData : Conflict(ProposalOf[t], k)
                 THEN {} ELSE unread \ {t}
    /\ UNCHANGED <<pc, chain, vtx, pool, voteDB, tally, mapVoteObjects, bounds>>

LoadProposal(t) ==
    /\ pc = "load"
    /\ t \in unread
    /\ mapProposals' = mapProposals \cup {t}
    /\ mapProposalData' = Add(ProposalOf[t], mapProposalData)
    /\ unread' = unread \ {t}
    /\ UNCHANGED <<pc, chain, vtx, pool, voteDB, tally, mapVoteObjects, bounds>>

LoadDone ==
    /\ pc = "load"
    /\ unread = {}
    /\ pc' = "idle"
    /\ UNCHANGED <<chain, vtx, unread, pool, records, tally, mapVoteObjects, bounds>>

-----------------------------------------------------------------------------
Init ==
    /\ pc = "idle"
    /\ pindexBest = Genesis
    /\ tip = Genesis
    /\ pindexNew = None
    /\ vtx = <<>>
    /\ unread = {}
    /\ block = [b \in Blocks |->
                   IF b = Genesis THEN [txs |-> <<>>, bits |-> {}, votes |-> {}] ELSE None]
    /\ mapTx = {}
    /\ refused = {}
    /\ mapProposals = {}
    /\ voteDB = {}
    /\ mapProposalData = {}
    /\ tally = [b \in Blocks |-> EmptyTally]
    /\ mapVoteObjects = [h \in Proposals |-> None]
    /\ writeFailures = 0
    /\ restarts = 0

Next ==
    \/ \E t \in Submitted : AcceptToMemoryPool(t)
    \/ \E t \in Txs, c \in UserChoices : SetVote(t, c)
    \/ \E b \in Blocks : ReceiveBlock(b)
    \/ \E b \in Blocks : CreateNewBlock(b)
    \/ DisconnectBlock
    \/ ConnectBlock
    \/ SkipTransaction
    \/ RecordProposal
    \/ RecordProposalFails
    \/ RecordVotes
    \/ RefuseReward
    \/ SetBestChain
    \/ SetBestChainThrows
    \/ Restart
    \/ \E t \in Txs : LoadProposal(t)
    \/ LoadDone

Spec == Init /\ [][Next]_vars

-----------------------------------------------------------------------------
(* What CVoteTally holds.                                                  *)
TallyOK(t) ==
    /\ DOMAIN t.votes \subseteq Proposals
    /\ t.votes \in [DOMAIN t.votes -> Summary]
    /\ t.locations \subseteq DOMAIN t.votes

(* Every variable holds a value the code's types allow, and a tally has a  *)
(* summary for every proposal it holds a position for.                     *)
TypeOK ==
    /\ pc \in {"idle", "reorganize", "connect", "thrown", "load"}
    /\ pindexBest \in Blocks
    /\ tip \in Blocks
    /\ pindexNew \in Blocks \cup {None}
    /\ vtx \in Seq(Txs)
    /\ unread \subseteq Txs
    /\ block \in [Blocks -> Content \cup {None}]
    /\ mapTx \subseteq Txs
    /\ refused \subseteq Txs
    /\ mapProposals \subseteq Txs
    /\ voteDB \subseteq Txs
    /\ mapProposalData \subseteq Proposals
    /\ DOMAIN tally = Blocks
    /\ \A b \in Blocks : TallyOK(tally[b])
    /\ mapVoteObjects \in [Proposals -> Choices \cup {None}]
    /\ writeFailures \in 0 .. MaxWriteFailures
    /\ restarts \in 0 .. MaxRestarts

(* At no height do two managed proposals that are active there read the    *)
(* same bit of a block version, whatever order blocks, reorganisations and *)
(* restarts brought them in: CVoteProposalManager::Add keeps a vote from   *)
(* being counted for two proposals.  The one exception is a proposal whose *)
(* nHeightEnd has wrapped around: CheckProposal refuses it, ConnectBlock   *)
(* does not ask, Add sees no conflict and GetActive returns it.            *)
Wraps(h) == HeightEnd(h) < Start[h]
NoSharedBits ==
    \A h, k \in mapProposalData : \A n \in 0 .. IntSize - 1 :
        h # k /\ ActiveAt(h, n) /\ ActiveAt(k, n) =>
            Wraps(h) \/ Wraps(k) \/ Bits(h) \cap Bits(k) = {}

(* A proposal with a record on disk is managed, or a managed one takes its *)
(* place: neither a stop between two writes of ConnectBlock nor the order  *)
(* in which CVoteDB::Load reads them back leaves a free place unused.      *)
EveryRecordHasItsPlace ==
    \A t \in voteDB \ unread :
        \/ ProposalOf[t] \in mapProposalData
        \/ \E k \in mapProposalData : Conflict(ProposalOf[t], k)

(* SetNewPositions never gives up on an active proposal: as long as no     *)
(* write has failed, a managed proposal has a transaction in mapProposals  *)
(* whose record the vote database holds.                                   *)
ManagedProposalsAreReadable ==
    writeFailures = 0 => \A h \in mapProposalData : ReadProposal(h)

(* Records, mapProposals and the manager agree: every record has its place *)
(* and every managed proposal can be read (ConnectBlock, CVoteDB::Load).   *)
RecordsConsistent == TypeOK /\ EveryRecordHasItsPlace /\ ManagedProposalsAreReadable

(* On the chain as it stands, the tally of a block is the number of blocks *)
(* up to it that held a position for the proposal and voted: connecting a  *)
(* block again after a reorganisation counts no vote twice, and a vote on  *)
(* another branch is not counted.                                          *)
TallyIsExact ==
    \A b \in Branch[tip] : \A h \in DOMAIN tally[b].votes :
        LET Voted(v) == {x \in Branch[b] : h \in tally[x].locations
                                           /\ VoteFor(h, block[x].bits) = v}
        IN  /\ tally[b].votes[h].yes = Cardinality(Voted({0}))
            /\ tally[b].votes[h].no = Cardinality(Voted({1}))

(* GetNextLocation finds a place exactly when there is one, the left-most, *)
(* and Add accepts a proposal put there; it throws exactly when a managed  *)
(* proposal that is voted on in that time has a bit outside of the vote    *)
(* bits, which CheckProposal refuses and ConnectBlock lets in.  (The end   *)
(* of the wanted period is an int, as CheckProposal and the dialog see to; *)
(* a managed period that ends before it starts, which ConnectBlock also    *)
(* lets in, is taken for a conflict although it is never voted on.)        *)
Reversed(h) == AsInt(HeightEnd(h)) < AsInt(Start[h])
NextLocationIsLeftmostFree ==
    (\A k \in mapProposalData : ~Reversed(k)) =>
    \A h \in {k \in Proposals : Start[k] + CheckSpan[k] < IntSize} :
        LET overlapping == {k \in mapProposalData :
                               \E i \in Start[h] .. HeightEnd(h) : ActiveAt(k, i)}
            taken == UNION {Bits(k) : k \in overlapping}
            Free(n) == {i \in 0 .. NumBits - n : taken \cap (i .. i + n - 1) = {}}
        IN  \A n \in 1 .. NumBits :
              LET location == GetNextLocation(n, Start[h], CheckSpan[h], mapProposalData)
              IN  IF \E i \in taken : i >= NumBits THEN location = OutOfRange
                  ELSE IF Free(n) = {} THEN location = None
                  ELSE /\ location[2] \in Free(n)
                       /\ location[1] = location[2] + n - 1
                       /\ \A i \in Free(n) : i <= location[2]

(* A vote this node stakes with is counted: the block holds a position for *)
(* every proposal it votes on that is still open at its own height, and    *)
(* shows there the choice the user made, whatever else the block votes on. *)
(* The choice is read back only where every choice of the block fits into  *)
(* the bits of its proposal, as nothing in CVoteObject keeps a "no" out of *)
(* the bit next to a proposal of one bit, and no period has wrapped.       *)
(* (A restart loses the tallies, a failed write the position.)             *)
Strays(v) == Wraps(v[1]) \/ \E i \in v[2] : i > Msb[v[1]] - Lsb[v[1]]
OwnVotesAreCounted ==
    pc = "idle" /\ restarts = 0 /\ writeFailures = 0 =>
        \A b \in Branch[pindexBest] : \A v \in block[b].votes :
            ActiveAt(v[1], Height[b]) =>
                /\ v[1] \in tally[b].locations
                /\ (\A w \in block[b].votes : ~Strays(w)) /\ Bits(v[1]) \subseteq 0 .. NumBits - 1
                      => VoteFor(v[1], block[b].bits) = v[2]

(* setvote "creates a vote object for the proposal in the txid": a block   *)
(* this node staked counts as a vote only where the node cast that vote.   *)
OwnVotesCountForTheirProposal ==
    pc = "idle" => \A b \in Branch[pindexBest] : \A h \in tally[b].locations :
        LET vote == VoteFor(h, block[b].bits)
        IN  block[b].votes # {} /\ vote \in {{0}, {1}} => <<h, vote>> \in block[b].votes

(* CTxMemPool::accept: "If the transaction is a proposal then verify       *)
(* validity": a transaction it refuses is not in the pool.                 *)
RefusedProposalsAreNotPooled == mapTx \cap refused = {}
=============================================================================
