-------------------------- MODULE GovernanceProofs --------------------------
(***************************************************************************)
(* Proofs about Governance, for every block tree, every set of proposals   *)
(* and any number of restarts and failing writes.                          *)
(***************************************************************************)
EXTENDS Governance, BlockTreeProofs, SequenceTheorems, FiniteSetTheorems, TLAPS

Made == {b \in Blocks : block[b] # None}

(* Indexed blocks have indexed parents, and SetBestChain moves among them. *)
ChainOK ==
    /\ Genesis \in Made
    /\ Closed(Made)
    /\ pindexBest \in Made
    /\ tip \in Made
    /\ pc \in {"reorganize", "connect"} => pindexNew \in Made
    /\ pc = "connect" => tip \in Branch[pindexNew] /\ tip # pindexNew

(* Any two managed proposals are free of conflict, in the sense of Add.    *)
NoConflicts == \A h, k \in mapProposalData : h # k => ~Conflict(h, k)

(* A managed proposal has a listed transaction, and a listed transaction   *)
(* has a record unless a write has failed.                                 *)
RecordsOK ==
    /\ unread \subseteq voteDB
    /\ \A h \in mapProposalData : \E t \in mapProposals : ProposalOf[t] = h
    /\ writeFailures = 0 => mapProposals \subseteq voteDB

IInv == TypeOK /\ ChainOK /\ NoConflicts /\ RecordsOK /\ EveryRecordHasItsPlace

-----------------------------------------------------------------------------
(* CVoteProposalManager::Add                                               *)

(* The end of a period is an unsigned int, and their sum unless it wraps.  *)
LEMMA HeightEndOK ==
    ASSUME NEW h \in Proposals
    PROVE  /\ IntSize \in Nat \ {0}
           /\ Start[h] \in 0 .. 2 * IntSize - 1 /\ CheckSpan[h] \in 0 .. 2 * IntSize - 1
           /\ HeightEnd(h) \in 0 .. 2 * IntSize - 1
           /\ Start[h] + CheckSpan[h] < 2 * IntSize => HeightEnd(h) = Start[h] + CheckSpan[h]
<1>1. IntSize \in Nat \ {0} /\ 2 * IntSize \in Nat /\ 2 * IntSize > 0
    BY ProposalAssumption
<1>2. Start[h] \in 0 .. 2 * IntSize - 1 /\ CheckSpan[h] \in 0 .. 2 * IntSize - 1
    BY ProposalAssumption
<1> DEFINE m == 2 * IntSize
           n == Start[h] + CheckSpan[h]
<1>3. m \in Nat /\ m > 0 /\ n \in Nat
    BY <1>1, <1>2
<1> HIDE DEF m, n
<1>4. n % m \in 0 .. m - 1
    BY <1>3
<1>5. n < m => n % m = n
    BY <1>3
<1> QED
    BY <1>1, <1>2, <1>4, <1>5 DEF m, n, HeightEnd

(* The ends of a period and the positions of the bits are numbers. *)
LEMMA PlaceOK ==
    ASSUME NEW h \in Proposals
    PROVE  /\ Start[h] \in Nat /\ HeightEnd(h) \in Nat
           /\ Msb[h] \in Nat /\ Lsb[h] \in Nat /\ Lsb[h] <= Msb[h]
<1>1. Msb[h] \in 0 .. 31 /\ Lsb[h] \in 0 .. 31 /\ Lsb[h] <= Msb[h]
    BY ProposalAssumption
<1>2. Start[h] \in Nat /\ HeightEnd(h) \in Nat
    BY HeightEndOK
<1> QED
    BY <1>1, <1>2

(* Both ends of a period, read as ints. *)
LEMMA AsIntOK ==
    ASSUME NEW h \in Proposals
    PROVE  AsInt(Start[h]) \in Int /\ AsInt(HeightEnd(h)) \in Int
BY HeightEndOK DEF AsInt

(* A proposal that has not wrapped is active at a height of its period.    *)
LEMMA ActiveInPeriod ==
    ASSUME NEW h \in Proposals, NEW n \in Nat, ~Wraps(h), ActiveAt(h, n)
    PROVE  n \in Start[h] .. HeightEnd(h) /\ n \in 0 .. IntSize - 1
BY HeightEndOK DEF AsInt, ActiveAt, Wraps

(* Conflict does not depend on which proposal came first. *)
LEMMA ConflictSymmetric ==
    ASSUME NEW h \in Proposals, NEW k \in Proposals, Conflict(h, k)
    PROVE  Conflict(k, h)
<1>1. /\ Start[h] \in Nat /\ Start[k] \in Nat /\ HeightEnd(h) \in Nat /\ HeightEnd(k) \in Nat
      /\ Msb[h] \in Nat /\ Msb[k] \in Nat /\ Lsb[h] \in Nat /\ Lsb[k] \in Nat
    BY PlaceOK
<1> QED
    BY <1>1 DEF Conflict

(* Add keeps what is managed free of conflicts, and refuses a proposal     *)
(* only if it conflicts with a managed one.                                *)
LEMMA AddOK ==
    ASSUME NEW data \in SUBSET Proposals, NEW h \in Proposals,
           \A j, k \in data : j # k => ~Conflict(j, k)
    PROVE  /\ Add(h, data) \in SUBSET Proposals
           /\ data \subseteq Add(h, data)
           /\ Add(h, data) \subseteq data \cup {h}
           /\ \A j, k \in Add(h, data) : j # k => ~Conflict(j, k)
           /\ h \in Add(h, data) \/ \E k \in Add(h, data) : Conflict(h, k)
<1>1. CASE \E k \in data : Conflict(h, k)
    BY <1>1 DEF Add
<1>2. CASE ~\E k \in data : Conflict(h, k)
    <2>1. Add(h, data) = data \cup {h}
        BY <1>2 DEF Add
    <2>2. \A k \in data : ~Conflict(h, k) /\ ~Conflict(k, h)
        BY <1>2, ConflictSymmetric
    <2> QED
        BY <2>1, <2>2
<1> QED
    BY <1>1, <1>2

(* Proposals that do not conflict and have not wrapped share no bit at a   *)
(* height at which both are active.                                        *)
LEMMA NoConflictNoSharedBits ==
    ASSUME TypeOK, NoConflicts,
           NEW h \in mapProposalData, NEW k \in mapProposalData, h # k,
           NEW n \in Nat, ActiveAt(h, n), ActiveAt(k, n), ~Wraps(h), ~Wraps(k)
    PROVE  Bits(h) \cap Bits(k) = {}
<1>1. SUFFICES ASSUME NEW i \in Bits(h) \cap Bits(k)
               PROVE  FALSE
    OBVIOUS
<1>2. h \in Proposals /\ k \in Proposals
    BY DEF TypeOK
<1>3. /\ Start[h] \in Nat /\ Start[k] \in Nat /\ HeightEnd(h) \in Nat /\ HeightEnd(k) \in Nat
      /\ Msb[h] \in Nat /\ Msb[k] \in Nat /\ Lsb[h] \in Nat /\ Lsb[k] \in Nat
    BY <1>2, PlaceOK
<1>4. n \in Start[h] .. HeightEnd(h) /\ n \in Start[k] .. HeightEnd(k)
    BY <1>2, ActiveInPeriod
<1>5. Conflict(h, k)
    BY <1>1, <1>3, <1>4 DEF Conflict, Bits
<1> QED
    BY <1>1, <1>5 DEF NoConflicts

(* Every managed proposal can be read if its transactions have records. *)
LEMMA RecordsAreReadable ==
    ASSUME TypeOK, RecordsOK
    PROVE  ManagedProposalsAreReadable
<1>1. SUFFICES ASSUME writeFailures = 0, NEW h \in mapProposalData
               PROVE  ReadProposal(h)
    BY DEF ManagedProposalsAreReadable
<1> DEFINE T == {t \in mapProposals : ProposalOf[t] = h}
<1>2. T # {} /\ T \in SUBSET Nat
    BY <1>1, ProposalAssumption DEF RecordsOK, TypeOK
<1>3. PICK t \in T : \A u \in T : t <= u
    BY <1>2, LeastNat
<1>4. t \in voteDB
    BY <1>1, <1>3 DEF RecordsOK
<1> QED
    BY <1>3, <1>4 DEF ReadProposal

-----------------------------------------------------------------------------
(* The block SetBestChain connects next, and its tally *)

LEMMA NextBlockOK ==
    ASSUME TypeOK, ChainOK, pc \in {"reorganize", "connect"},
           tip \in Branch[pindexNew], tip # pindexNew
    PROVE  /\ NextBlock \in Made
           /\ NextBlock \in Branch[pindexNew]
           /\ NextBlock # Genesis
           /\ Prev[NextBlock] = tip
<1>1. pindexNew \in Made /\ pindexNew \in Blocks
    BY DEF ChainOK, Made
<1>2. \E b \in Branch[pindexNew] : b # Genesis /\ Prev[b] = tip
    BY <1>1, BranchGoesOn
<1>3. NextBlock \in Branch[pindexNew] /\ NextBlock # Genesis /\ Prev[NextBlock] = tip
    BY <1>2 DEF NextBlock
<1>4. Branch[pindexNew] \subseteq Made
    BY <1>1, BranchLeast DEF ChainOK, Made
<1> QED
    BY <1>3, <1>4

(* Positions are held by managed proposals only. *)
LEMMA PositionsType ==
    ASSUME TypeOK, NEW n
    PROVE  SetNewPositions(n) \subseteq Proposals
BY DEF SetNewPositions, GetActive, TypeOK

LEMMA NewTallyOK ==
    ASSUME TypeOK, NEW b \in Blocks \ {Genesis}
    PROVE  TallyOK(NewTally(b))
<1> DEFINE c == IF Height[b] >= VotingStart THEN Prev[b] ELSE b
           from == tally[c].votes
           locations == SetNewPositions(Height[b])
           start(h) == IF h \in DOMAIN from THEN from[h] ELSE [yes |-> 0, no |-> 0]
           votes == [h \in DOMAIN from \cup locations |->
                        Count(h, start(h), locations, block[b].bits)]
<1>1. c \in Blocks
    BY TreeAssumption
<1>2. DOMAIN from \subseteq Proposals /\ from \in [DOMAIN from -> Summary]
    BY <1>1 DEF TypeOK, TallyOK
<1>3. locations \subseteq Proposals
    BY PositionsType
<1>4. ASSUME NEW h \in DOMAIN from \cup locations
      PROVE  Count(h, start(h), locations, block[b].bits) \in Summary
    <2>1. start(h) \in Summary
        BY <1>2 DEF Summary
    <2> HIDE DEF start
    <2>2. start(h).yes \in Nat /\ start(h).no \in Nat
        BY <2>1 DEF Summary
    <2> QED
        BY <2>1, <2>2 DEF Count, Summary
<1>5. /\ DOMAIN votes = DOMAIN from \cup locations
      /\ votes \in [DOMAIN votes -> Summary]
    BY <1>4
<1>6. NewTally(b) = [locations |-> locations, votes |-> votes]
    BY DEF NewTally
<1> HIDE DEF votes, locations, from
<1>7. NewTally(b).locations = locations /\ NewTally(b).votes = votes
    BY <1>6
<1> QED
    BY <1>2, <1>3, <1>5, <1>7 DEF TallyOK

-----------------------------------------------------------------------------
(* Type correctness *)

(* The bits a new block votes with are bit numbers. *)
LEMMA CombinedVotesType ==
    ASSUME TypeOK
    PROVE  /\ GetCombinedVotes \in SUBSET Nat
           /\ {<<h, mapVoteObjects[h]>> : h \in VotesCast} \in SUBSET (Proposals \X Choices)
<1>1. \A h \in VotesCast : h \in Proposals /\ mapVoteObjects[h] \in Choices
    BY DEF VotesCast, GetActive, TypeOK
<1>2. \A h \in Proposals, c \in Choices : GetFormattedVote(h, c) \in SUBSET Nat
    BY PlaceOK DEF GetFormattedVote, Choices
<1>3. \A h \in VotesCast : GetFormattedVote(h, mapVoteObjects[h]) \in SUBSET Nat
    BY <1>1, <1>2
<1>4. GetCombinedVotes \in SUBSET Nat
    BY <1>3 DEF GetCombinedVotes
<1> QED
    BY <1>1, <1>4

(* What ProcessBlock adds to the index has the form of a block's content. *)
LEMMA AddedBlock ==
    ASSUME TypeOK, NEW b \in Blocks, ReceiveBlock(b) \/ CreateNewBlock(b)
    PROVE  \E content \in Content : AddToBlockIndex(b, content)
<1>1. CASE ReceiveBlock(b)
    <2>1. PICK txs \in TxLists, bits \in RemoteBits :
               AddToBlockIndex(b, [txs |-> txs, bits |-> bits, votes |-> {}])
        BY <1>1 DEF ReceiveBlock
    <2>2. [txs |-> txs, bits |-> bits, votes |-> {}] \in Content
        BY ProposalAssumption DEF Content
    <2> QED
        BY <2>1, <2>2
<1>2. CASE CreateNewBlock(b)
    <2> DEFINE votes == {<<h, mapVoteObjects[h]>> : h \in VotesCast}
    <2>1. PICK txs \in TxLists :
               AddToBlockIndex(b, [txs |-> txs, bits |-> GetCombinedVotes, votes |-> votes])
        BY <1>2 DEF CreateNewBlock
    <2>2. GetCombinedVotes \in SUBSET Nat /\ votes \in SUBSET (Proposals \X Choices)
        BY CombinedVotesType
    <2>3. txs \in Seq(Txs)
        BY ProposalAssumption
    <2> HIDE DEF votes
    <2>4. [txs |-> txs, bits |-> GetCombinedVotes, votes |-> votes] \in Content
        BY <2>2, <2>3 DEF Content
    <2> QED
        BY <2>1, <2>4
<1> QED
    BY <1>1, <1>2

(* The transactions of indexed blocks are transactions. *)
LEMMA TxsOfType ==
    ASSUME TypeOK, NEW B \in SUBSET Made
    PROVE  TxsOf(B) \in SUBSET Txs
<1>1. ASSUME NEW b \in B, NEW i \in DOMAIN block[b].txs
      PROVE  block[b].txs[i] \in Txs
    <2>1. block[b] \in Content
        BY DEF TypeOK, Made
    <2>2. block[b].txs \in Seq(Txs)
        BY <2>1 DEF Content
    <2> QED
        BY <2>2
<1> QED
    BY <1>1 DEF TxsOf

LEMMA TypeInit == Init => TypeOK
<1> SUFFICES ASSUME Init PROVE TypeOK
    OBVIOUS
<1>1. [txs |-> <<>>, bits |-> {}, votes |-> {}] \in Content
    BY DEF Content
<1>2. TallyOK(EmptyTally)
    BY DEF TallyOK, EmptyTally
<1>3. block \in [Blocks -> Content \cup {None}]
    BY <1>1 DEF Init
<1>4. DOMAIN tally = Blocks /\ \A b \in Blocks : TallyOK(tally[b])
    BY <1>2 DEF Init
<1> QED
    BY <1>3, <1>4, TreeAssumption, BoundAssumption DEF Init, TypeOK

LEMMA TypeStep ==
    ASSUME TypeOK, ChainOK, [Next]_vars
    PROVE  TypeOK'
<1>1. ASSUME NEW t \in Submitted, AcceptToMemoryPool(t) PROVE TypeOK'
    BY <1>1, ProposalAssumption DEF AcceptToMemoryPool, TypeOK, chain, records, bounds
<1>2. ASSUME NEW t \in Txs, NEW c \in UserChoices, SetVote(t, c) PROVE TypeOK'
    <2>1. ProposalOf[t] \in Proposals /\ c \in Choices
        BY ProposalAssumption DEF Choices
    <2>2. mapVoteObjects' \in [Proposals -> Choices \cup {None}]
        BY <1>2, <2>1 DEF SetVote, TypeOK
    <2> QED
        BY <1>2, <2>2 DEF SetVote, TypeOK, chain, pool, records, bounds
<1>3. ASSUME NEW b \in Blocks, NEW content \in Content, AddToBlockIndex(b, content)
      PROVE  TypeOK'
    <2>1. block' \in [Blocks -> Content \cup {None}]
        BY <1>3 DEF AddToBlockIndex, TypeOK
    <2> QED
        BY <1>3, <2>1 DEF AddToBlockIndex, TypeOK, pool, records, bounds
<1>4. CASE DisconnectBlock
    <2>1. tip # Genesis
        BY <1>4, GenesisInBranch DEF DisconnectBlock, ChainOK, Made
    <2>2. Prev[tip] \in Blocks
        BY <2>1, TreeAssumption DEF TypeOK
    <2> QED
        BY <1>4, <2>2 DEF DisconnectBlock, TypeOK, pool, records, bounds
<1>5. CASE ConnectBlock
    <2>1. NextBlock \in Made
        BY <1>5, NextBlockOK DEF ConnectBlock
    <2>2. block[NextBlock] \in Content
        BY <2>1 DEF Made, TypeOK
    <2>3. block[NextBlock].txs \in Seq(Txs)
        BY <2>2 DEF Content
    <2>4. vtx' \in Seq(Txs)
        BY <1>5, <2>3 DEF ConnectBlock
    <2> QED
        BY <1>5, <2>4 DEF ConnectBlock, TypeOK, chain, pool, records, bounds
<1>14. CASE SkipTransaction
    <2>1. Tail(vtx) \in Seq(Txs)
        BY <1>14 DEF SkipTransaction, TypeOK
    <2> QED
        BY <1>14, <2>1 DEF SkipTransaction, TypeOK, chain, pool, records, bounds
<1>6. CASE RecordProposal
    <2>1. Head(vtx) \in Txs /\ Tail(vtx) \in Seq(Txs)
        BY <1>6 DEF RecordProposal, TypeOK
    <2>2. Add(ProposalOf[Head(vtx)], mapProposalData) \subseteq Proposals
        BY <2>1, ProposalAssumption DEF Add, TypeOK
    <2> QED
        BY <1>6, <2>1, <2>2 DEF RecordProposal, TypeOK, chain, pool, bounds
<1>7. CASE RecordProposalFails
    <2>1. Head(vtx) \in Txs /\ Tail(vtx) \in Seq(Txs)
        BY <1>7 DEF RecordProposalFails, TypeOK
    <2>2. writeFailures' \in 0 .. MaxWriteFailures
        BY <1>7, BoundAssumption DEF RecordProposalFails, TypeOK
    <2> QED
        BY <1>7, <2>1, <2>2 DEF RecordProposalFails, TypeOK, chain, pool
<1>8. CASE RecordVotes \/ RefuseReward
    <2>1. NextBlock \in Made /\ NextBlock # Genesis /\ pc = "connect"
        BY <1>8, NextBlockOK DEF RecordVotes, RefuseReward, ChainOK
    <2>2. NextBlock \in Blocks
        BY <2>1 DEF Made
    <2>3. TallyOK(NewTally(NextBlock))
        BY <2>1, <2>2, NewTallyOK
    <2>4. tally' = [tally EXCEPT ![NextBlock] = NewTally(NextBlock)]
        BY <1>8 DEF RecordVotes, RefuseReward
    <2>5. DOMAIN tally' = Blocks /\ \A b \in Blocks : TallyOK(tally'[b])
        BY <2>2, <2>3, <2>4 DEF TypeOK
    <2> QED
        BY <1>8, <2>2, <2>5 DEF RecordVotes, RefuseReward, TypeOK, pool, records, bounds
<1>9. CASE SetBestChain
    <2>1. Branch[pindexBest] \subseteq Made /\ Branch[tip] \subseteq Made
        BY BranchLeast DEF ChainOK, Made
    <2>2. TxsOf(Branch[pindexBest] \ Branch[tip]) \in SUBSET Txs
        BY <2>1, TxsOfType
    <2>3. mapTx' \subseteq Txs /\ refused' \subseteq Txs
        BY <1>9, <2>2 DEF SetBestChain, vResurrect, TypeOK
    <2> QED
        BY <1>9, <2>3 DEF SetBestChain, TypeOK, records, bounds
<1>15. CASE SetBestChainThrows
    <2>1. Branch[pindexBest] \subseteq Made /\ Branch[tip] \subseteq Made
        BY BranchLeast DEF ChainOK, Made
    <2>2. vResurrect \in SUBSET Txs
        BY <2>1, TxsOfType DEF vResurrect
    <2>3. mapTx' \subseteq Txs /\ refused' \subseteq Txs
        BY <1>15, <2>2 DEF SetBestChainThrows, TypeOK
    <2> QED
        BY <1>15, <2>3 DEF SetBestChainThrows, TypeOK, chain, records, bounds
<1>10. CASE Restart
    <2>1. TallyOK(EmptyTally)
        BY DEF TallyOK, EmptyTally
    <2>2. DOMAIN tally' = Blocks /\ \A b \in Blocks : TallyOK(tally'[b])
        BY <1>10, <2>1 DEF Restart
    <2>3. restarts' \in 0 .. MaxRestarts
        BY <1>10, BoundAssumption DEF Restart, TypeOK
    <2> QED
        BY <1>10, <2>2, <2>3 DEF Restart, TypeOK
<1>11. ASSUME NEW t \in Txs, LoadProposal(t) PROVE TypeOK'
    <2>1. Add(ProposalOf[t], mapProposalData) \subseteq Proposals
        BY ProposalAssumption DEF Add, TypeOK
    <2> QED
        BY <1>11, <2>1 DEF LoadProposal, TypeOK, chain, pool, bounds
<1>12. CASE LoadDone
    BY <1>12 DEF LoadDone, TypeOK, chain, pool, records, bounds
<1>13. CASE UNCHANGED vars
    BY <1>13 DEF TypeOK, vars, chain, pool, records, bounds
<1> QED
    BY <1>1, <1>2, <1>3, <1>4, <1>5, <1>6, <1>7, <1>8, <1>9, <1>10, <1>11, <1>12, <1>13, <1>14,
       <1>15, AddedBlock DEF Next

-----------------------------------------------------------------------------
(* The chain *)

LEMMA ChainStep ==
    ASSUME TypeOK, ChainOK, [Next]_vars
    PROVE  ChainOK'
<1>1. ASSUME NEW b \in Blocks, NEW content \in Content, AddToBlockIndex(b, content)
      PROVE  ChainOK'
    <2>1. block' = [block EXCEPT ![b] = content] /\ b # Genesis /\ Prev[b] \in Blocks
        BY <1>1, TreeAssumption DEF AddToBlockIndex
    <2>2. block[Prev[b]] # None
        BY <1>1 DEF AddToBlockIndex
    <2>3. content # None
        BY ProposalAssumption
    <2>4. Made' = Made \cup {b}
        BY <2>1, <2>3 DEF Made, TypeOK
    <2>5. Closed(Made')
        BY <2>1, <2>2, <2>4 DEF Closed, ChainOK, Made
    <2> QED
        BY <1>1, <2>4, <2>5 DEF AddToBlockIndex, ChainOK
<1>2. CASE DisconnectBlock
    <2>1. tip # Genesis
        BY <1>2, GenesisInBranch DEF DisconnectBlock, ChainOK, Made
    <2>2. Prev[tip] \in Made
        BY <2>1 DEF ChainOK, Closed
    <2>3. Made' = Made
        BY <1>2 DEF DisconnectBlock, Made
    <2> QED
        BY <1>2, <2>2, <2>3 DEF DisconnectBlock, ChainOK
<1>3. CASE ConnectBlock
    <2>1. Made' = Made
        BY <1>3 DEF ConnectBlock, Made, chain
    <2> QED
        BY <1>3, <2>1 DEF ConnectBlock, ChainOK, chain
<1>4. CASE RecordVotes \/ RefuseReward
    <2>1. NextBlock \in Made
        BY <1>4, NextBlockOK DEF RecordVotes, RefuseReward, ChainOK
    <2>2. Made' = Made
        BY <1>4 DEF RecordVotes, RefuseReward, Made
    <2> QED
        BY <1>4, <2>1, <2>2 DEF RecordVotes, RefuseReward, ChainOK
<1>5. CASE SetBestChain
    <2>1. Made' = Made
        BY <1>5 DEF SetBestChain, Made
    <2> QED
        BY <1>5, <2>1 DEF SetBestChain, ChainOK
<1>14. CASE SetBestChainThrows
    <2>1. Made' = Made
        BY <1>14 DEF SetBestChainThrows, Made, chain
    <2> QED
        BY <1>14, <2>1 DEF SetBestChainThrows, ChainOK, chain
<1>6. CASE Restart
    <2>1. Made' = Made
        BY <1>6 DEF Restart, Made
    <2> QED
        BY <1>6, <2>1 DEF Restart, ChainOK
<1>7. CASE UNCHANGED <<pc, chain>>
    <2>1. Made' = Made
        BY <1>7 DEF Made, chain
    <2> QED
        BY <1>7, <2>1 DEF ChainOK, chain
<1>8. CASE LoadDone
    <2>1. Made' = Made
        BY <1>8 DEF LoadDone, Made, chain
    <2> QED
        BY <1>8, <2>1 DEF LoadDone, ChainOK, chain
<1>9. ASSUME NEW t \in Submitted, AcceptToMemoryPool(t) PROVE UNCHANGED <<pc, chain>>
    BY <1>9 DEF AcceptToMemoryPool
<1>10. ASSUME NEW t \in Txs, NEW c \in UserChoices, SetVote(t, c) PROVE UNCHANGED <<pc, chain>>
    BY <1>10 DEF SetVote
<1>11. SkipTransaction \/ RecordProposal \/ RecordProposalFails => UNCHANGED <<pc, chain>>
    BY DEF SkipTransaction, RecordProposal, RecordProposalFails
<1>12. ASSUME NEW t \in Txs, LoadProposal(t) PROVE UNCHANGED <<pc, chain>>
    BY <1>12 DEF LoadProposal
<1>13. UNCHANGED vars => UNCHANGED <<pc, chain>>
    BY DEF vars
<1> QED
    BY <1>1, <1>2, <1>3, <1>4, <1>5, <1>6, <1>7, <1>8, <1>9, <1>10, <1>11, <1>12, <1>13,
       <1>14, AddedBlock DEF Next

-----------------------------------------------------------------------------
(* The records *)

RecordInv == NoConflicts /\ RecordsOK /\ EveryRecordHasItsPlace

(* Recording a proposal, in ConnectBlock or in CVoteDB::Load. *)
LEMMA RecordStep ==
    ASSUME TypeOK, RecordInv, NEW t \in Txs,
           mapProposals' = mapProposals \cup {t},
           mapProposalData' = Add(ProposalOf[t], mapProposalData),
           t \in voteDB', voteDB \subseteq voteDB', voteDB' \subseteq voteDB \cup {t},
           unread' \subseteq unread, unread \subseteq unread' \cup {t},
           writeFailures' = writeFailures
    PROVE  RecordInv'
<1> DEFINE h == ProposalOf[t]
<1>1. h \in Proposals /\ mapProposalData \in SUBSET Proposals
    BY ProposalAssumption DEF TypeOK
<1>2. \A j, k \in mapProposalData : j # k => ~Conflict(j, k)
    BY DEF RecordInv, NoConflicts
<1>3. /\ mapProposalData \subseteq mapProposalData'
      /\ mapProposalData' \subseteq mapProposalData \cup {h}
      /\ \A j, k \in mapProposalData' : j # k => ~Conflict(j, k)
      /\ h \in mapProposalData' \/ \E k \in mapProposalData' : Conflict(h, k)
    BY <1>1, <1>2, AddOK
<1>4. NoConflicts'
    BY <1>3 DEF NoConflicts
<1>5. RecordsOK'
    BY <1>3 DEF RecordInv, RecordsOK
<1>6. ASSUME NEW u \in voteDB' \ unread'
      PROVE  \/ ProposalOf[u] \in mapProposalData'
             \/ \E k \in mapProposalData' : Conflict(ProposalOf[u], k)
    <2>1. CASE u = t
        BY <2>1, <1>3
    <2>2. CASE u # t
        <3>1. u \in voteDB \ unread
            BY <2>2
        <3> QED
            BY <3>1, <1>3 DEF RecordInv, EveryRecordHasItsPlace
    <2> QED
        BY <2>1, <2>2
<1>7. EveryRecordHasItsPlace'
    BY <1>6 DEF EveryRecordHasItsPlace
<1> QED
    BY <1>4, <1>5, <1>7 DEF RecordInv

LEMMA RecordInvStep ==
    ASSUME TypeOK, RecordInv, [Next]_vars
    PROVE  RecordInv'
<1>1. CASE RecordProposal
    <2>1. Head(vtx) \in Txs
        BY <1>1 DEF RecordProposal, TypeOK
    <2> QED
        BY <1>1, <2>1, RecordStep DEF RecordProposal, bounds
<1>2. ASSUME NEW t \in Txs, LoadProposal(t) PROVE RecordInv'
    <2>1. t \in voteDB
        BY <1>2 DEF LoadProposal, RecordInv, RecordsOK
    <2> QED
        BY <1>2, <2>1, RecordStep DEF LoadProposal, bounds
<1>3. CASE RecordProposalFails
    <2>1. writeFailures' # 0
        BY <1>3, BoundAssumption DEF RecordProposalFails, TypeOK
    <2> QED
        BY <1>3, <2>1
        DEF RecordProposalFails, RecordInv, NoConflicts, RecordsOK, EveryRecordHasItsPlace
<1>4. CASE Restart
    BY <1>4 DEF Restart, RecordInv, NoConflicts, RecordsOK, EveryRecordHasItsPlace
<1>5. CASE UNCHANGED <<records, unread, writeFailures>>
    BY <1>5 DEF records, RecordInv, NoConflicts, RecordsOK, EveryRecordHasItsPlace
<1>6. ASSUME NEW t \in Submitted, AcceptToMemoryPool(t)
      PROVE  UNCHANGED <<records, unread, writeFailures>>
    BY <1>6 DEF AcceptToMemoryPool, bounds
<1>7. ASSUME NEW t \in Txs, NEW c \in UserChoices, SetVote(t, c)
      PROVE  UNCHANGED <<records, unread, writeFailures>>
    BY <1>7 DEF SetVote, bounds
<1>8. ASSUME NEW b \in Blocks, NEW content \in Content, AddToBlockIndex(b, content)
      PROVE  UNCHANGED <<records, unread, writeFailures>>
    BY <1>8 DEF AddToBlockIndex, bounds
<1>9. DisconnectBlock \/ ConnectBlock \/ SkipTransaction \/ RecordVotes \/ RefuseReward
          \/ SetBestChain \/ SetBestChainThrows \/ LoadDone
      => UNCHANGED <<records, unread, writeFailures>>
    BY DEF DisconnectBlock, ConnectBlock, SkipTransaction, RecordVotes, RefuseReward,
           SetBestChain, SetBestChainThrows, LoadDone, bounds
<1>10. UNCHANGED vars => UNCHANGED <<records, unread, writeFailures>>
    BY DEF vars, bounds
<1> QED
    BY <1>1, <1>2, <1>3, <1>4, <1>5, <1>6, <1>7, <1>8, <1>9, <1>10, AddedBlock DEF Next

-----------------------------------------------------------------------------
(* The inductive invariant holds: it is the types, the shape of the chain  *)
(* and the agreement of the three places a proposal is kept in.            *)
THEOREM GovernanceInvariant == Spec => []IInv
<1>1. Init => IInv
    <2> SUFFICES ASSUME Init PROVE IInv
        OBVIOUS
    <2>1. TypeOK
        BY TypeInit
    <2>2. [txs |-> <<>>, bits |-> {}, votes |-> {}] # None
        <3>1. [txs |-> <<>>, bits |-> {}, votes |-> {}] \in Content
            BY DEF Content
        <3> QED
            BY <3>1, ProposalAssumption
    <2>3. Made = {Genesis}
        BY <2>2, TreeAssumption DEF Init, Made
    <2>4. ChainOK
        BY <2>3 DEF Init, ChainOK, Closed
    <2>5. NoConflicts /\ RecordsOK /\ EveryRecordHasItsPlace
        BY DEF Init, NoConflicts, RecordsOK, EveryRecordHasItsPlace
    <2> QED
        BY <2>1, <2>4, <2>5 DEF IInv
<1>2. IInv /\ [Next]_vars => IInv'
    BY TypeStep, ChainStep, RecordInvStep DEF IInv, RecordInv
<1> QED
    BY <1>1, <1>2, PTL DEF Spec

(* Every reachable state of a node's voting records is well typed. *)
THEOREM GovernanceTypeCorrect == Spec => []TypeOK
BY GovernanceInvariant, PTL DEF IInv

(* CVoteProposalManager never manages two proposals that read the same bit *)
(* at the same height, across reorganisations, refused blocks and restarts,*)
(* but for one whose nHeightEnd has wrapped around.                        *)
THEOREM ProposalsNeverShareBits == Spec => []NoSharedBits
<1>1. IInv => NoSharedBits
    <2> SUFFICES ASSUME IInv, NEW h \in mapProposalData, NEW k \in mapProposalData,
                        NEW n \in 0 .. IntSize - 1, h # k, ActiveAt(h, n), ActiveAt(k, n),
                        ~Wraps(h), ~Wraps(k)
                 PROVE  Bits(h) \cap Bits(k) = {}
        BY DEF NoSharedBits
    <2>1. n \in Nat
        BY ProposalAssumption
    <2> QED
        BY <2>1, NoConflictNoSharedBits DEF IInv
<1> QED
    BY <1>1, GovernanceInvariant, PTL

(* A recorded proposal is managed or its place is taken, also after a stop *)
(* in the middle of ConnectBlock and in the middle of CVoteDB::Load.       *)
THEOREM RecordsAlwaysHaveTheirPlace == Spec => []EveryRecordHasItsPlace
BY GovernanceInvariant, PTL DEF IInv

(* As long as no write failed, SetNewPositions can read every proposal it  *)
(* is given.                                                               *)
THEOREM ManagedAlwaysReadable == Spec => []ManagedProposalsAreReadable
<1>1. IInv => ManagedProposalsAreReadable
    BY RecordsAreReadable DEF IInv
<1> QED
    BY <1>1, GovernanceInvariant, PTL

(* Every record of the vote database has its place in the manager, and     *)
(* every managed proposal can be read, across reorganisations, failing     *)
(* writes and restarts (ConnectBlock, CVoteDB::Load).                      *)
THEOREM RecordsAlwaysConsistent == Spec => []RecordsConsistent
BY GovernanceTypeCorrect, RecordsAlwaysHaveTheirPlace, ManagedAlwaysReadable, PTL
DEF RecordsConsistent

-----------------------------------------------------------------------------
(* Tallies.  They accumulate from the genesis block on where VotingStart   *)
(* is at most 1, which the test network's rule amounts to.                 *)

Voted(c, h, v) == {x \in Branch[c] : h \in tally[x].locations
                                     /\ VoteFor(h, block[x].bits) = v}

Exact(c) ==
    /\ \A x \in Branch[c] : tally[x].locations \subseteq DOMAIN tally[c].votes
    /\ \A h \in DOMAIN tally[c].votes :
          /\ tally[c].votes[h].yes = Cardinality(Voted(c, h, {0}))
          /\ tally[c].votes[h].no = Cardinality(Voted(c, h, {1}))

(* A reorganisation that fails goes back to the old chain: its tallies are *)
(* still exact, because SetBestChain connects no block of it again.        *)
TallyInv ==
    /\ pc \in {"idle", "load"} => tip = pindexBest
    /\ pc \in {"reorganize", "connect"} =>
          Branch[pindexBest] \cap Branch[pindexNew] \subseteq Branch[tip]
    /\ \A c \in Branch[tip] \cup Branch[pindexBest] : Exact(c)

(* The branch of a block on a branch is part of it. *)
LEMMA BranchTransitive ==
    ASSUME NEW b \in Blocks, NEW c \in Branch[b]
    PROVE  Branch[c] \subseteq Branch[b]
BY BranchClosed, BranchLeast DEF Closed

(* A tally stays exact while the blocks below it keep theirs. *)
LEMMA TallyFrame ==
    ASSUME NEW c \in Blocks, Exact(c),
           \A x \in Branch[c] : tally'[x] = tally[x] /\ block'[x] = block[x]
    PROVE  Exact(c)'
<1>1. \A h, v : Voted(c, h, v)' = Voted(c, h, v)
    BY DEF Voted, VoteFor
<1>2. tally'[c] = tally[c]
    BY BranchClosed
<1> QED
    BY <1>1, <1>2 DEF Exact

(* Connecting a block on top of exact tallies makes an exact one. *)
LEMMA TallyConnect ==
    ASSUME TypeOK, IsFiniteSet(Blocks), VotingStart <= 1,
           NEW b \in Blocks \ {Genesis}, Exact(Prev[b]),
           tally' = [tally EXCEPT ![b] = NewTally(b)], block' = block
    PROVE  Exact(b)'
<1> DEFINE p == Prev[b]
           from == tally[p].votes
           locations == SetNewPositions(Height[b])
           bits == block[b].bits
           start(h) == IF h \in DOMAIN from THEN from[h] ELSE [yes |-> 0, no |-> 0]
           votes == [h \in DOMAIN from \cup locations |->
                        Count(h, start(h), locations, bits)]
<1>1. p \in Blocks /\ b \notin Branch[p] /\ Branch[b] = {b} \cup Branch[p] /\ Branch[p] \subseteq Blocks
    BY BranchStep, BranchIrreflexive, BranchClosed
<1>2. Height[b] >= VotingStart
    BY TreeAssumption, BoundAssumption
<1>3. NewTally(b) = [locations |-> locations, votes |-> votes]
    BY <1>2 DEF NewTally
<1>4. tally'[b].locations = locations /\ tally'[b].votes = votes
    BY <1>3 DEF TypeOK
<1>5. \A x \in Branch[p] : tally'[x] = tally[x]
    BY <1>1 DEF TypeOK
<1>6. DOMAIN votes = DOMAIN from \cup locations
    OBVIOUS
<1>7. \A x \in Branch[b] : tally'[x].locations \subseteq DOMAIN tally'[b].votes
    BY <1>1, <1>4, <1>5, <1>6 DEF Exact
<1>8. ASSUME NEW h \in DOMAIN votes, NEW v
      PROVE  /\ Cardinality(Voted(p, h, v)) \in Nat
             /\ Cardinality(Voted(b, h, v)') = Cardinality(Voted(p, h, v))
                    + (IF h \in locations /\ VoteFor(h, bits) = v THEN 1 ELSE 0)
    <2>1. Voted(b, h, v)' = Voted(p, h, v) \cup
              (IF h \in locations /\ VoteFor(h, bits) = v THEN {b} ELSE {})
        BY <1>1, <1>4, <1>5 DEF Voted, VoteFor
    <2>2. IsFiniteSet(Voted(p, h, v)) /\ b \notin Voted(p, h, v)
        BY <1>1, FS_Subset DEF Voted
    <2>3. Cardinality(Voted(p, h, v)) \in Nat
        BY <2>2, FS_CardinalityType
    <2>4. CASE h \in locations /\ VoteFor(h, bits) = v
        <3>1. Voted(b, h, v)' = Voted(p, h, v) \cup {b}
            BY <2>1, <2>4
        <3>2. Cardinality(Voted(p, h, v) \cup {b}) = Cardinality(Voted(p, h, v)) + 1
            BY <2>2, FS_AddElement
        <3> QED
            BY <2>3, <2>4, <3>1, <3>2
    <2>5. CASE ~(h \in locations /\ VoteFor(h, bits) = v)
        <3>1. Voted(b, h, v)' = Voted(p, h, v)
            BY <2>1, <2>5
        <3> QED
            BY <2>3, <2>5, <3>1
    <2> QED
        BY <2>4, <2>5
<1>9. ASSUME NEW h \in DOMAIN votes
      PROVE  /\ start(h).yes = Cardinality(Voted(p, h, {0}))
             /\ start(h).no = Cardinality(Voted(p, h, {1}))
    <2>1. CASE h \in DOMAIN from
        BY <2>1 DEF Exact
    <2>2. CASE h \notin DOMAIN from
        <3>1. \A v : Voted(p, h, v) = {}
            BY <2>2 DEF Voted, Exact
        <3>2. Cardinality({}) = 0
            BY FS_EmptySet
        <3> QED
            BY <2>2, <3>1, <3>2
    <2> QED
        BY <2>1, <2>2
<1>10. ASSUME NEW h \in DOMAIN votes
       PROVE  /\ votes[h].yes = Cardinality(Voted(b, h, {0})')
              /\ votes[h].no = Cardinality(Voted(b, h, {1})')
    <2>1. votes[h] = Count(h, start(h), locations, bits)
        BY <1>6
    <2>2. votes[h].yes = start(h).yes
              + (IF h \in locations /\ VoteFor(h, bits) = {0} THEN 1 ELSE 0)
        <3> HIDE DEF start, locations, bits, votes
        <3>1. start(h).yes \in Nat
            BY <1>8, <1>9
        <3> QED
            BY <2>1, <3>1 DEF Count
    <2>3. votes[h].no = start(h).no
              + (IF h \in locations /\ VoteFor(h, bits) = {1} THEN 1 ELSE 0)
        <3> HIDE DEF start, locations, bits, votes
        <3>1. start(h).no \in Nat
            BY <1>8, <1>9
        <3> QED
            BY <2>1, <3>1 DEF Count
    <2> HIDE DEF start, locations, bits, votes
    <2> QED
        BY <1>8, <1>9, <2>2, <2>3
<1> HIDE DEF votes, locations
<1> QED
    BY <1>4, <1>7, <1>10 DEF Exact

LEMMA TallyStep ==
    ASSUME TypeOK, ChainOK, TallyInv, [Next]_vars, IsFiniteSet(Blocks), VotingStart <= 1
    PROVE  TallyInv'
<1>0. /\ pindexBest \in Blocks /\ tip \in Blocks
      /\ \A c \in Branch[tip] \cup Branch[pindexBest] :
            c \in Blocks /\ (Branch[c] \subseteq Branch[tip] \/ Branch[c] \subseteq Branch[pindexBest])
      /\ Branch[tip] \subseteq Made /\ Branch[pindexBest] \subseteq Made
    BY BranchTransitive, BranchClosed, BranchLeast DEF TypeOK, ChainOK, Made
<1>1. ASSUME NEW b \in Blocks, NEW content \in Content, AddToBlockIndex(b, content)
      PROVE  TallyInv'
    <2>1. \A x \in Made : block'[x] = block[x]
        BY <1>1 DEF AddToBlockIndex, Made, TypeOK
    <2>2. \A c \in Branch[tip] \cup Branch[pindexBest] : Exact(c)'
        <3>1. TAKE c \in Branch[tip] \cup Branch[pindexBest]
        <3>2. \A x \in Branch[c] : tally'[x] = tally[x] /\ block'[x] = block[x]
            BY <1>0, <1>1, <2>1 DEF AddToBlockIndex
        <3> QED
            BY <1>0, <3>2, TallyFrame DEF TallyInv
    <2> QED
        BY <1>1, <2>2 DEF AddToBlockIndex, TallyInv
<1>2. CASE DisconnectBlock
    <2>1. tip # Genesis
        BY <1>2, GenesisInBranch DEF DisconnectBlock, ChainOK, Made
    <2>2. Branch[tip] = {tip} \cup Branch[Prev[tip]]
        BY <2>1, BranchStep DEF TypeOK
    <2>3. Branch[pindexBest] \cap Branch[pindexNew] \subseteq Branch[Prev[tip]]
        BY <1>2, <2>2 DEF DisconnectBlock, TallyInv
    <2>4. \A c \in Branch[tip] \cup Branch[pindexBest] : Exact(c)'
        BY <1>0, <1>2, TallyFrame DEF DisconnectBlock, TallyInv
    <2> QED
        BY <1>2, <2>2, <2>3, <2>4 DEF DisconnectBlock, TallyInv
<1>3. CASE RecordVotes \/ RefuseReward
    <2>0. NextBlock \in Blocks
        BY <1>3, NextBlockOK DEF RecordVotes, RefuseReward, ChainOK, Made
    <2> PICK b \in Blocks : b = NextBlock
        BY <2>0
    <2>1. /\ b \in Branch[pindexNew] /\ b \in Made /\ b # Genesis /\ Prev[b] = tip
          /\ pc = "connect"
        BY <1>3, NextBlockOK DEF RecordVotes, RefuseReward, ChainOK
    <2>2. b \in Blocks
        BY <2>1 DEF Made
    <2>3. b \notin Branch[tip] /\ Branch[b] = {b} \cup Branch[tip]
        BY <2>1, <2>2, BranchStep, BranchIrreflexive
    <2>4. b \notin Branch[pindexBest]
        BY <2>1, <2>3 DEF TallyInv
    <2>5. tally' = [tally EXCEPT ![b] = NewTally(b)] /\ block' = block
        BY <1>3 DEF RecordVotes, RefuseReward
    <2>6. \A c \in Branch[tip] \cup Branch[pindexBest] : Exact(c)'
        <3>1. TAKE c \in Branch[tip] \cup Branch[pindexBest]
        <3>2. \A x \in Branch[c] : tally'[x] = tally[x] /\ block'[x] = block[x]
            BY <1>0, <2>2, <2>3, <2>4, <2>5, BranchClosed DEF TypeOK
        <3> QED
            BY <1>0, <3>2, TallyFrame DEF TallyInv
    <2>7. Exact(tip)
        BY <1>0, BranchClosed DEF TallyInv
    <2>8. Exact(b)'
        BY <2>1, <2>2, <2>5, <2>7, TallyConnect
    <2>9. CASE RecordVotes
        <3>1. tip' = b /\ pindexBest' = pindexBest /\ pindexNew' = pindexNew /\ pc' = "reorganize"
            BY <2>9 DEF RecordVotes
        <3>2. Branch[pindexBest] \cap Branch[pindexNew] \subseteq Branch[b]
            BY <2>1, <2>3 DEF TallyInv
        <3>3. \A c \in Branch[b] \cup Branch[pindexBest] : Exact(c)'
            BY <2>3, <2>6, <2>8
        <3> QED
            BY <3>1, <3>2, <3>3 DEF TallyInv
    <2>10. CASE RefuseReward
        <3>1. tip' = pindexBest /\ pindexBest' = pindexBest /\ pc' = "idle"
            BY <2>10 DEF RefuseReward
        <3> QED
            BY <3>1, <2>6 DEF TallyInv
    <2> QED
        BY <1>3, <2>9, <2>10
<1>4. CASE SetBestChain
    <2>1. \A c \in Branch[tip] \cup Branch[pindexBest] : Exact(c)'
        BY <1>0, <1>4, TallyFrame DEF SetBestChain, TallyInv
    <2> QED
        BY <1>4, <2>1 DEF SetBestChain, TallyInv
<1>5. CASE Restart
    <2>1. \A x \in Blocks : tally'[x].locations = {} /\ tally'[x].votes = <<>>
        BY <1>5 DEF Restart, EmptyTally
    <2>2. ASSUME NEW c \in Blocks PROVE Exact(c)'
        BY <2>1, BranchClosed DEF Exact
    <2> QED
        BY <1>0, <1>5, <2>2 DEF Restart, TallyInv
<1>6. CASE /\ UNCHANGED <<chain, tally>>
           /\ pc' = pc \/ ConnectBlock \/ LoadDone \/ SetBestChainThrows
    <2>1. \A c \in Branch[tip] \cup Branch[pindexBest] : Exact(c)'
        BY <1>0, <1>6, TallyFrame DEF chain, TallyInv
    <2> QED
        BY <1>6, <2>1 DEF chain, TallyInv, ConnectBlock, LoadDone, SetBestChainThrows
<1>7. ASSUME NEW t \in Submitted, AcceptToMemoryPool(t)
      PROVE  UNCHANGED <<pc, chain, tally>>
    BY <1>7 DEF AcceptToMemoryPool
<1>8. ASSUME NEW t \in Txs, NEW c \in UserChoices, SetVote(t, c)
      PROVE  UNCHANGED <<pc, chain, tally>>
    BY <1>8 DEF SetVote
<1>9. SkipTransaction \/ RecordProposal \/ RecordProposalFails
      => UNCHANGED <<pc, chain, tally>>
    BY DEF SkipTransaction, RecordProposal, RecordProposalFails
<1>10. ASSUME NEW t \in Txs, LoadProposal(t) PROVE UNCHANGED <<pc, chain, tally>>
    BY <1>10 DEF LoadProposal
<1>11. ConnectBlock \/ LoadDone \/ SetBestChainThrows => UNCHANGED <<chain, tally>>
    BY DEF ConnectBlock, LoadDone, SetBestChainThrows
<1>12. UNCHANGED vars => UNCHANGED <<pc, chain, tally>>
    BY DEF vars
<1> QED
    BY <1>1, <1>2, <1>3, <1>4, <1>5, <1>6, <1>7, <1>8, <1>9, <1>10, <1>11, <1>12,
       AddedBlock DEF Next

(* On the chain as it stands every tally counts each vote exactly once,    *)
(* however often blocks were disconnected, refused and connected again.    *)
THEOREM TallyAlwaysExact ==
    ASSUME IsFiniteSet(Blocks), VotingStart <= 1
    PROVE  Spec => []TallyIsExact
<1>1. Init => TallyInv
    <2> SUFFICES ASSUME Init PROVE TallyInv
        OBVIOUS
    <2>1. \A x \in Blocks : tally[x].locations = {} /\ tally[x].votes = <<>>
        BY DEF Init, EmptyTally
    <2>2. ASSUME NEW c \in Blocks PROVE Exact(c)
        BY <2>1, BranchClosed DEF Exact
    <2> QED
        BY <2>2, BranchClosed, TreeAssumption DEF Init, TallyInv
<1>2. IInv /\ TallyInv /\ [Next]_vars => TallyInv'
    BY TallyStep DEF IInv
<1>3. TallyInv => TallyIsExact
    BY DEF TallyInv, Exact, Voted, TallyIsExact
<1> QED
    BY <1>1, <1>2, <1>3, GovernanceInvariant, PTL DEF Spec

-----------------------------------------------------------------------------
(* GetNextLocation                                                         *)

(* The run of available bits at i ends before End(A, i). *)
End(A, i) == CHOOSE j \in i .. NumBits : j \notin A /\ \A k \in i .. NumBits :
                                                        k \notin A => j <= k
Runs(A) == CHOOSE s : s = [i \in 0 .. NumBits |-> IF i \in A THEN s[i + 1] + 1 ELSE 0]

LEMMA EndOK ==
    ASSUME NEW A \in SUBSET (0 .. NumBits - 1), NEW i \in 0 .. NumBits
    PROVE  /\ End(A, i) \in i .. NumBits /\ End(A, i) \notin A
           /\ \A k \in i .. End(A, i) - 1 : k \in A
           /\ \A j \in i .. NumBits :
                 j \notin A /\ (\A k \in i .. j - 1 : k \in A) => j = End(A, i)
<1>0. NumBits \in Nat /\ i \in Nat
    BY BoundAssumption
<1> DEFINE S == {k \in i .. NumBits : k \notin A}
<1>1. S # {} /\ S \in SUBSET Nat
    BY <1>0
<1>2. \E j \in S : \A k \in S : j <= k
    BY <1>1, LeastNat
<1>3. /\ End(A, i) \in i .. NumBits /\ End(A, i) \notin A
      /\ \A k \in i .. NumBits : k \notin A => End(A, i) <= k
    BY <1>2 DEF End
<1> HIDE DEF S
<1>4. \A k \in i .. End(A, i) - 1 : k \in A
    BY <1>0, <1>3
<1> QED
    BY <1>0, <1>3, <1>4

(* nSequential at bit i is the length of the run that ends there. *)
LEMMA RunsOK ==
    ASSUME NEW A \in SUBSET (0 .. NumBits - 1)
    PROVE  \A i \in 0 .. NumBits : Runs(A)[i] = End(A, i) - i
<1> DEFINE f == [i \in 0 .. NumBits |-> End(A, i) - i]
           Rule(s) == s = [i \in 0 .. NumBits |-> IF i \in A THEN s[i + 1] + 1 ELSE 0]
<1>0. NumBits \in Nat /\ 0 .. NumBits \in SUBSET Nat
    BY BoundAssumption
<1>1. ASSUME NEW i \in 0 .. NumBits
      PROVE  End(A, i) - i = IF i \in A THEN End(A, i + 1) - (i + 1) + 1 ELSE 0
    <2>1. End(A, i) \in i .. NumBits /\ End(A, i) \notin A /\ i \in Nat
        BY <1>0, EndOK
    <2>2. CASE i \in A
        <3>1. i + 1 \in 0 .. NumBits /\ End(A, i) # i
            BY <1>0, <2>1, <2>2
        <3>2. End(A, i) \in i + 1 .. NumBits
            BY <1>0, <2>1, <3>1
        <3>3. \A k \in i + 1 .. End(A, i) - 1 : k \in i .. End(A, i) - 1
            BY <1>0, <2>1
        <3>4. \A k \in i + 1 .. End(A, i) - 1 : k \in A
            BY <3>3, EndOK
        <3>5. End(A, i) = End(A, i + 1)
            BY <2>1, <3>1, <3>2, <3>4, EndOK
        <3> QED
            BY <1>0, <2>1, <2>2, <3>5
    <2>3. CASE i \notin A
        <3>1. \A k \in i .. i - 1 : k \in A
            BY <1>0
        <3>2. i = End(A, i)
            BY <1>0, <2>3, <3>1, EndOK
        <3> QED
            BY <1>0, <2>3, <3>2
    <2> QED
        BY <2>2, <2>3
<1>2. \A i \in A : i + 1 \in 0 .. NumBits
    BY <1>0
<1>3. Rule(f)
    BY <1>1, <1>2
<1>4. Rule(Runs(A))
    <2>1. Runs(A) = CHOOSE s : Rule(s)
        BY DEF Runs
    <2> HIDE DEF Rule, f
    <2> QED
        BY <1>3, <2>1
<1>5. \A i \in 0 .. NumBits : Runs(A)[i] = IF i \in A THEN Runs(A)[i + 1] + 1 ELSE 0
    BY <1>4
<1> HIDE DEF Rule, f
<1> DEFINE bad == {i \in 0 .. NumBits : Runs(A)[i] # End(A, i) - i}
           S == {NumBits - i : i \in bad}
<1>6. SUFFICES ASSUME bad # {} PROVE FALSE
    OBVIOUS
<1>7. S # {} /\ S \in SUBSET Nat
    BY <1>0, <1>6
<1>8. PICK m \in S : \A k \in S : m <= k
    BY <1>7, LeastNat
<1>9. PICK i \in bad : m = NumBits - i
    BY <1>8
<1>10. i \in A /\ i + 1 \in 0 .. NumBits
    BY <1>1, <1>2, <1>5, <1>9
<1>11. i + 1 \notin bad
    <2>1. SUFFICES ASSUME i + 1 \in bad PROVE FALSE
        OBVIOUS
    <2>2. NumBits - (i + 1) \in S /\ i \in Nat
        BY <1>0, <1>9, <2>1
    <2>3. m <= NumBits - (i + 1)
        BY <1>8, <2>2
    <2> QED
        BY <1>0, <1>9, <2>2, <2>3
<1> QED
    BY <1>1, <1>5, <1>9, <1>10, <1>11

(* A run of exactly n available bits starts at the left-most place where n *)
(* bits are available.                                                     *)
LEMMA FitsOK ==
    ASSUME NEW A \in SUBSET (0 .. NumBits - 1), NEW n \in 1 .. NumBits
    PROVE  /\ \A i \in 0 .. NumBits - 1 : Runs(A)[i] = n =>
                 i \in 0 .. NumBits - n /\ i .. i + n - 1 \subseteq A
           /\ \A i \in 0 .. NumBits - n : i .. i + n - 1 \subseteq A =>
                 \E j \in 0 .. NumBits - 1 : Runs(A)[j] = n /\ i <= j
<1>0. NumBits \in Nat /\ n \in Nat /\ n >= 1 /\ n <= NumBits
    BY BoundAssumption
<1>1. ASSUME NEW i \in 0 .. NumBits - 1, Runs(A)[i] = n
      PROVE  i \in 0 .. NumBits - n /\ i .. i + n - 1 \subseteq A
    <2>1. i \in 0 .. NumBits /\ i \in Nat
        BY <1>0
    <2>2. End(A, i) - i = n /\ End(A, i) \in i .. NumBits
             /\ \A k \in i .. End(A, i) - 1 : k \in A
        BY <1>1, <2>1, RunsOK, EndOK
    <2>3. End(A, i) = i + n
        BY <1>0, <2>1, <2>2
    <2> QED
        BY <1>0, <2>1, <2>2, <2>3
<1>2. ASSUME NEW i \in 0 .. NumBits - n, i .. i + n - 1 \subseteq A
      PROVE  \E j \in 0 .. NumBits - 1 : Runs(A)[j] = n /\ i <= j
    <2>1. i \in 0 .. NumBits /\ i \in Nat
        BY <1>0
    <2> DEFINE e == End(A, i)
    <2>2. e \in i .. NumBits /\ e \notin A /\ \A k \in i .. e - 1 : k \in A
        BY <2>1, EndOK
    <2> HIDE DEF e
    <2>3. e >= i + n
        BY <1>0, <1>2, <2>1, <2>2
    <2>4. e - n \in 0 .. NumBits - 1 /\ i <= e - n /\ e - n \in 0 .. NumBits
             /\ e \in e - n .. NumBits
        BY <1>0, <2>1, <2>2, <2>3
    <2>5. \A k \in e - n .. e - 1 : k \in A
        BY <1>0, <2>1, <2>2, <2>3
    <2>6. e = End(A, e - n)
        BY <2>2, <2>4, <2>5, EndOK
    <2>7. Runs(A)[e - n] = e - (e - n)
        BY <2>4, <2>6, RunsOK
    <2> QED
        BY <1>0, <2>1, <2>2, <2>4, <2>7
<1> QED
    BY <1>1, <1>2

LEMMA NextLocationDef ==
    ASSUME NEW n, NEW s, NEW span, NEW data
    PROVE  GetNextLocation(n, s, span, data) =
             LET busy == ConflictingTime(s, span, data)
                 fits == {i \in 0 .. NumBits - 1 : Runs(Available(busy))[i] = n}
             IN  IF busy = {} THEN <<NumBits - 1, (NumBits - n) % 256>>
                 ELSE IF \E h \in busy : Msb[h] >= NumBits THEN OutOfRange
                 ELSE IF fits = {} THEN None
                 ELSE LET i == CHOOSE i \in fits : \A j \in fits : j <= i
                      IN  <<i + n - 1, i>>
BY DEF GetNextLocation, Runs

LEMMA NextLocationOK ==
    ASSUME NEW data \in SUBSET Proposals, NEW n \in 1 .. NumBits, NEW s, NEW span
    PROVE  LET location == GetNextLocation(n, s, span, data)
               taken == UNION {Bits(k) : k \in ConflictingTime(s, span, data)}
               free == {i \in 0 .. NumBits - n : taken \cap (i .. i + n - 1) = {}}
           IN  IF \E i \in taken : i >= NumBits THEN location = OutOfRange
               ELSE IF free = {} THEN location = None
               ELSE /\ location[2] \in free
                    /\ location[1] = location[2] + n - 1
                    /\ \A i \in free : i <= location[2]
<1> DEFINE location == GetNextLocation(n, s, span, data)
           busy == ConflictingTime(s, span, data)
           taken == UNION {Bits(k) : k \in busy}
           A == Available(busy)
           free == {i \in 0 .. NumBits - n : taken \cap (i .. i + n - 1) = {}}
           fits == {i \in 0 .. NumBits - 1 : Runs(A)[i] = n}
           beyond == \E h \in busy : Msb[h] >= NumBits
<1>0. /\ NumBits \in Nat /\ n \in Nat /\ n >= 1 /\ n <= NumBits /\ NumBits <= 256
    BY BoundAssumption
<1>1. beyond <=> \E i \in taken : i >= NumBits
    <2>1. \A k \in busy : /\ Lsb[k] \in Nat /\ Msb[k] \in Nat /\ Lsb[k] <= Msb[k]
        BY PlaceOK DEF ConflictingTime
    <2>2. \A k \in busy : Msb[k] \in Bits(k) /\ \A i \in Bits(k) : i \in Nat /\ i <= Msb[k]
        BY <2>1 DEF Bits
    <2> QED
        BY <1>0, <2>1, <2>2
<1>2. A \in SUBSET (0 .. NumBits - 1) /\ A = (0 .. NumBits - 1) \ taken
    BY DEF Available
<1>3. location = IF busy = {} THEN <<NumBits - 1, (NumBits - n) % 256>>
                 ELSE IF beyond THEN OutOfRange
                 ELSE IF fits = {} THEN None
                 ELSE LET i == CHOOSE i \in fits : \A j \in fits : j <= i
                      IN  <<i + n - 1, i>>
    BY NextLocationDef
<1>9. busy = {} => taken = {} /\ ~beyond
    OBVIOUS
<1> HIDE DEF location, A, taken, busy, beyond
<1>4. \A i \in 0 .. NumBits - n : taken \cap (i .. i + n - 1) = {} <=> i .. i + n - 1 \subseteq A
    <2>1. TAKE i \in 0 .. NumBits - n
    <2>2. i .. i + n - 1 \subseteq 0 .. NumBits - 1
        BY <1>0
    <2> QED
        BY <1>2, <2>2
<1>5. /\ \A i \in fits : i \in free
      /\ \A i \in free : \E j \in fits : i <= j
    BY <1>2, <1>4, FitsOK
<1>6. CASE busy = {}
    <2>1. NumBits - n \in free /\ \A i \in free : i <= NumBits - n
        BY <1>0, <1>6, <1>9
    <2>2. (NumBits - n) % 256 = NumBits - n
        BY <1>0
    <2>3. location[1] = NumBits - 1 /\ location[2] = NumBits - n
        BY <1>3, <1>6, <2>2
    <2>4. location[1] = location[2] + n - 1
        BY <1>0, <2>3
    <2> HIDE DEF free
    <2>5. ~\E i \in taken : i >= NumBits
        BY <1>6, <1>9
    <2> QED
        BY <2>1, <2>3, <2>4, <2>5 DEF free, location, taken, busy
<1>7. CASE busy # {} /\ (beyond \/ free = {})
    BY <1>1, <1>3, <1>5, <1>7 DEF location, taken, busy
<1>8. CASE busy # {} /\ ~beyond /\ free # {}
    <2> DEFINE S == {NumBits - i : i \in fits}
    <2>1. S # {} /\ S \in SUBSET Nat /\ fits # {} /\ \A i \in fits : i \in Nat
        BY <1>0, <1>5, <1>8
    <2>2. PICK m \in S : \A k \in S : m <= k
        BY <2>1, LeastNat
    <2>3. PICK x \in fits : m = NumBits - x
        BY <2>2
    <2>4. \A j \in fits : j <= x
        <3>1. TAKE j \in fits
        <3>2. m <= NumBits - j
            BY <2>2
        <3> QED
            BY <1>0, <2>1, <2>3, <3>2
    <2> DEFINE i == CHOOSE i \in fits : \A j \in fits : j <= i
    <2> HIDE DEF fits
    <2>5. i \in fits /\ \A j \in fits : j <= i
        BY <2>3, <2>4
    <2>6. location[1] = i + n - 1 /\ location[2] = i
        BY <1>3, <1>8, <2>1
    <2> HIDE DEF i
    <2>7. i \in free /\ i \in Nat /\ \A j \in free : j \in Nat
        BY <1>0, <1>5, <2>1, <2>5
    <2>8. \A j \in free : j <= i
        BY <1>5, <2>1, <2>5, <2>7
    <2> QED
        BY <1>1, <1>8, <2>6, <2>7, <2>8 DEF location, taken, busy
<1> QED
    BY <1>6, <1>7, <1>8

(* For any set of managed proposals GetNextLocation offers the left-most   *)
(* free place, none exactly when there is none, and throws exactly when a  *)
(* proposal in the way has a bit outside of the vote bits.                 *)
THEOREM NextLocationAlwaysLeftmost == Spec => []NextLocationIsLeftmostFree
<1>1. TypeOK => NextLocationIsLeftmostFree
    <2> SUFFICES ASSUME TypeOK, \A k \in mapProposalData : ~Reversed(k),
                        NEW h \in Proposals, Start[h] + CheckSpan[h] < IntSize,
                        NEW n \in 1 .. NumBits
                 PROVE  LET overlapping == {k \in mapProposalData :
                                \E i \in Start[h] .. HeightEnd(h) : ActiveAt(k, i)}
                            taken == UNION {Bits(k) : k \in overlapping}
                            Free(m) == {i \in 0 .. NumBits - m : taken \cap (i .. i + m - 1) = {}}
                            location == GetNextLocation(n, Start[h], CheckSpan[h], mapProposalData)
                        IN  IF \E i \in taken : i >= NumBits THEN location = OutOfRange
                            ELSE IF Free(n) = {} THEN location = None
                            ELSE /\ location[2] \in Free(n)
                                 /\ location[1] = location[2] + n - 1
                                 /\ \A i \in Free(n) : i <= location[2]
        BY DEF NextLocationIsLeftmostFree
    <2> DEFINE overlapping == {k \in mapProposalData :
                                  \E i \in Start[h] .. HeightEnd(h) : ActiveAt(k, i)}
               busy == ConflictingTime(Start[h], CheckSpan[h], mapProposalData)
    <2>1. /\ IntSize \in Nat /\ Start[h] \in Nat /\ CheckSpan[h] \in Nat
          /\ HeightEnd(h) = Start[h] + CheckSpan[h]
        BY HeightEndOK
    <2>2. ASSUME NEW k \in mapProposalData
          PROVE  k \in overlapping <=> k \in busy
        <3>1. AsInt(Start[k]) \in Int /\ AsInt(HeightEnd(k)) \in Int
            BY AsIntOK DEF TypeOK
        <3>2. AsInt(Start[k]) <= AsInt(HeightEnd(k))
            BY <3>1 DEF Reversed
        <3>3. k \in overlapping => k \in busy
            BY <2>1, <3>1 DEF ConflictingTime, ActiveAt
        <3>4. ASSUME k \in busy PROVE k \in overlapping
            <4>1. AsInt(HeightEnd(k)) >= Start[h] /\ AsInt(Start[k]) <= Start[h] + CheckSpan[h]
                BY <3>4 DEF ConflictingTime
            <4>2. CASE AsInt(Start[k]) <= Start[h]
                BY <2>1, <3>1, <4>1, <4>2 DEF ActiveAt
            <4>3. CASE AsInt(Start[k]) > Start[h]
                <5>1. AsInt(Start[k]) \in Start[h] .. HeightEnd(h)
                    BY <2>1, <3>1, <4>1, <4>3
                <5>2. ActiveAt(k, AsInt(Start[k]))
                    BY <3>1, <3>2 DEF ActiveAt
                <5> QED
                    BY <5>1, <5>2
            <4> QED
                BY <2>1, <3>1, <4>2, <4>3
        <3> QED
            BY <3>3, <3>4
    <2>3. overlapping = busy
        BY <2>2 DEF ConflictingTime
    <2>4. mapProposalData \in SUBSET Proposals
        BY DEF TypeOK
    <2> HIDE DEF overlapping
    <2>5. LET taken == UNION {Bits(k) : k \in overlapping}
              free == {i \in 0 .. NumBits - n : taken \cap (i .. i + n - 1) = {}}
              location == GetNextLocation(n, Start[h], CheckSpan[h], mapProposalData)
          IN  IF \E i \in taken : i >= NumBits THEN location = OutOfRange
              ELSE IF free = {} THEN location = None
              ELSE /\ location[2] \in free
                   /\ location[1] = location[2] + n - 1
                   /\ \A i \in free : i <= location[2]
        BY <2>3, <2>4, NextLocationOK
    <2> QED
        BY <2>5 DEF overlapping
<1> QED
    BY <1>1, GovernanceTypeCorrect, PTL

-----------------------------------------------------------------------------
(* The votes of this node                                                  *)

(* A vote this node cast is for a proposal that it still manages, and can  *)
(* be read from the block unless a choice of the block strays.             *)
ReadBack(votes, bits) ==
    \A v \in votes :
        (\A w \in votes : ~Strays(w)) /\ Bits(v[1]) \subseteq 0 .. NumBits - 1
            => VoteFor(v[1], bits) = v[2]
CastOK(b) ==
    /\ \A v \in block[b].votes : v[1] \in mapProposalData
    /\ ReadBack(block[b].votes, block[b].bits)

(* The block has a position for every proposal it votes on that is open.   *)
CountedOK(b) ==
    \A v \in block[b].votes : ActiveAt(v[1], Height[b]) => v[1] \in tally[b].locations

OwnVoteInv ==
    restarts = 0 /\ writeFailures = 0 =>
        /\ \A b \in Made : CastOK(b)
        /\ \A b \in Branch[tip] \cup Branch[pindexBest] : CountedOK(b)

(* The combined vote of a new block shows each choice at its place.        *)
LEMMA CombinedVoteOK ==
    ASSUME TypeOK, NoConflicts, NEW h \in VotesCast, Bits(h) \subseteq 0 .. NumBits - 1,
           \A k \in VotesCast : ~Strays(<<k, mapVoteObjects[k]>>)
    PROVE  VoteFor(h, GetCombinedVotes) = mapVoteObjects[h]
<1> DEFINE c(k) == mapVoteObjects[k]
<1>0. /\ \A k \in VotesCast : /\ k \in mapProposalData /\ k \in Proposals /\ c(k) \subseteq {0, 1}
                              /\ ActiveAt(k, Height[pindexBest])
                              /\ ~Wraps(k) /\ \A i \in c(k) : i \in Nat /\ i <= Msb[k] - Lsb[k]
      /\ \A k \in Proposals : Lsb[k] \in Nat /\ Msb[k] \in Nat
      /\ Height[pindexBest] \in Nat
    <2>1. \A k \in VotesCast : /\ k \in mapProposalData /\ k \in Proposals /\ c(k) \subseteq {0, 1}
                              /\ ActiveAt(k, Height[pindexBest])
        BY DEF VotesCast, GetActive, TypeOK, Choices
    <2>2. \A k \in Proposals : Lsb[k] \in Nat /\ Msb[k] \in Nat
        BY PlaceOK
    <2>3. Height[pindexBest] \in Nat
        BY TreeAssumption DEF TypeOK
    <2>4. ASSUME NEW k \in VotesCast
          PROVE  ~Wraps(k) /\ \A i \in c(k) : i \in Nat /\ i <= Msb[k] - Lsb[k]
        BY <2>1, <2>2 DEF Strays
    <2> QED
        BY <2>1, <2>2, <2>3, <2>4
<1>1. ASSUME NEW k \in VotesCast, k # h
      PROVE  Bits(k) \cap Bits(h) = {}
    BY <1>0, <1>1, NoConflictNoSharedBits
<1>2. \A k \in VotesCast : \A i \in c(k) : Lsb[k] + i \in Bits(k)
    BY <1>0 DEF Bits
<1>3. \A j : j \in GetCombinedVotes <=> \E k \in VotesCast : \E i \in c(k) : j = Lsb[k] + i
    BY DEF GetCombinedVotes, GetFormattedVote
<1>4. \A j : j \in GetCombinedVotes \cap Bits(h) <=> \E i \in c(h) : j = Lsb[h] + i
    BY <1>1, <1>2, <1>3
<1>5. \A i \in c(h) : Lsb[h] + i \in 0 .. NumBits - 1 /\ (Lsb[h] + i) - Lsb[h] = i
    BY <1>0, <1>2
<1>6. \A j : j \in GetCombinedVotes \cap Bits(h) \cap (0 .. NumBits - 1)
              <=> \E i \in c(h) : j = Lsb[h] + i
    BY <1>4, <1>5
<1>7. \A i : i \in VoteFor(h, GetCombinedVotes) <=> i \in c(h)
    <2>1. \A i : i \in VoteFor(h, GetCombinedVotes) <=>
            \E j \in GetCombinedVotes \cap Bits(h) \cap (0 .. NumBits - 1) : i = j - Lsb[h]
        BY DEF VoteFor
    <2> QED
        BY <1>5, <1>6, <2>1
<1> QED
    BY <1>7

(* A new block of this node, or of another, whose votes are none.          *)
LEMMA NewBlockCast ==
    ASSUME TypeOK, NoConflicts, NEW b \in Blocks, ReceiveBlock(b) \/ CreateNewBlock(b)
    PROVE  /\ CastOK(b)'
           /\ \A x \in Made : x # b /\ block'[x] = block[x]
           /\ UNCHANGED <<mapProposalData, tally, tip, pindexBest, bounds>>
           /\ Made' = Made \cup {b}
<1>0. PICK content \in Content : AddToBlockIndex(b, content)
    BY AddedBlock
<1>1. /\ block' = [block EXCEPT ![b] = content] /\ block[b] = None /\ b # Genesis
      /\ UNCHANGED <<mapProposalData, tally, tip, pindexBest, bounds>>
      /\ content # None
    BY <1>0, ProposalAssumption DEF AddToBlockIndex, records
<1>2. /\ \A x \in Made : x # b /\ block'[x] = block[x]
      /\ Made' = Made \cup {b} /\ block'[b] = content
    BY <1>1 DEF Made, TypeOK
<1>3. CASE ReceiveBlock(b)
    <2>1. PICK txs \in TxLists, bits \in RemoteBits :
             AddToBlockIndex(b, [txs |-> txs, bits |-> bits, votes |-> {}])
        BY <1>3 DEF ReceiveBlock
    <2>2. block'[b].votes = {}
        BY <2>1 DEF AddToBlockIndex, TypeOK
    <2> QED
        BY <1>1, <1>2, <2>2 DEF CastOK, ReadBack
<1>4. CASE CreateNewBlock(b)
    <2> DEFINE votes == {<<h, mapVoteObjects[h]>> : h \in VotesCast}
    <2>1. PICK txs \in TxLists :
             /\ Prev[b] = pindexBest
             /\ AddToBlockIndex(b, [txs |-> txs, bits |-> GetCombinedVotes, votes |-> votes])
        BY <1>4 DEF CreateNewBlock
    <2>2. block'[b].votes = votes /\ block'[b].bits = GetCombinedVotes
        BY <2>1 DEF AddToBlockIndex, TypeOK
    <2>3. ASSUME NEW v \in votes
          PROVE  /\ v[1] \in mapProposalData
                 /\ (\A w \in votes : ~Strays(w)) /\ Bits(v[1]) \subseteq 0 .. NumBits - 1
                      => VoteFor(v[1], GetCombinedVotes) = v[2]
        <3>1. PICK h \in VotesCast : v = <<h, mapVoteObjects[h]>>
            BY <2>3
        <3>2. h \in mapProposalData
            BY DEF VotesCast, GetActive
        <3>3. ASSUME \A w \in votes : ~Strays(w), Bits(h) \subseteq 0 .. NumBits - 1
              PROVE  VoteFor(h, GetCombinedVotes) = mapVoteObjects[h]
            <4>1. \A k \in VotesCast : ~Strays(<<k, mapVoteObjects[k]>>)
                BY <3>3
            <4> QED
                BY <3>3, <4>1, CombinedVoteOK
        <3> QED
            BY <3>1, <3>2, <3>3
    <2>4. ReadBack(votes, GetCombinedVotes)
        BY <2>3 DEF ReadBack
    <2>5. \A v \in votes : v[1] \in mapProposalData
        BY <2>3
    <2> HIDE DEF votes
    <2>6. CastOK(b)'
        BY <1>1, <2>2, <2>4, <2>5 DEF CastOK, ReadBack
    <2> QED
        BY <1>1, <1>2, <2>6
<1> QED
    BY <1>1, <1>2, <1>3, <1>4

(* The tally of a connected block has its positions. *)
LEMMA ConnectedCounted ==
    ASSUME TypeOK, RecordsOK, writeFailures = 0, NEW b \in Blocks, CastOK(b),
           block[b] # None, tally' = [tally EXCEPT ![b] = NewTally(b)], block' = block
    PROVE  CountedOK(b)'
<1>1. tally'[b].locations = SetNewPositions(Height[b])
    BY DEF TypeOK, NewTally
<1>2. ASSUME NEW v \in block[b].votes, ActiveAt(v[1], Height[b])
      PROVE  v[1] \in SetNewPositions(Height[b])
    <2>1. v[1] \in GetActive(Height[b])
        BY <1>2 DEF GetActive, CastOK
    <2>2. \A k \in GetActive(Height[b]) : ReadProposal(k)
        BY RecordsAreReadable DEF ManagedProposalsAreReadable, GetActive
    <2> QED
        BY <2>1, <2>2 DEF SetNewPositions
<1> QED
    BY <1>1, <1>2 DEF CountedOK

LEMMA OwnVoteStep ==
    ASSUME IInv, OwnVoteInv, [Next]_vars
    PROVE  OwnVoteInv'
<1>0. /\ TypeOK /\ ChainOK /\ NoConflicts /\ RecordsOK
      /\ pindexBest \in Blocks /\ tip \in Blocks
      /\ Branch[tip] \subseteq Made /\ Branch[pindexBest] \subseteq Made
    BY BranchClosed, BranchLeast DEF IInv, TypeOK, ChainOK, Made
<1>1. /\ (restarts' = 0 => restarts = 0 /\ ~Restart) /\ (writeFailures' = 0 => writeFailures = 0)
    BY <1>0, AddedBlock DEF TypeOK, Next, vars, bounds, AcceptToMemoryPool, SetVote,
       AddToBlockIndex, DisconnectBlock, ConnectBlock, SkipTransaction, RecordProposal,
       RecordProposalFails, RecordVotes, RefuseReward, SetBestChain, SetBestChainThrows, Restart,
       LoadProposal, LoadDone
<1> SUFFICES ASSUME restarts' = 0, writeFailures' = 0
             PROVE  /\ \A b \in Made' : CastOK(b)'
                    /\ \A b \in Branch[tip'] \cup Branch[pindexBest'] : CountedOK(b)'
    BY DEF OwnVoteInv
<1>2. /\ \A b \in Made : CastOK(b)
      /\ \A b \in Branch[tip] \cup Branch[pindexBest] : CountedOK(b)
    BY <1>1 DEF OwnVoteInv
<1>3. ASSUME NEW x \in Made, block'[x] = block[x], mapProposalData \subseteq mapProposalData'
      PROVE  CastOK(x)'
    BY <1>2, <1>3 DEF CastOK, ReadBack
<1>4. ASSUME NEW x \in Branch[tip] \cup Branch[pindexBest], block'[x] = block[x],
             tally'[x] = tally[x]
      PROVE  CountedOK(x)'
    BY <1>2, <1>4 DEF CountedOK
<1>5. ASSUME NEW b \in Blocks, ReceiveBlock(b) \/ CreateNewBlock(b)
      PROVE  /\ \A x \in Made' : CastOK(x)'
             /\ \A x \in Branch[tip'] \cup Branch[pindexBest'] : CountedOK(x)'
    BY <1>0, <1>3, <1>4, <1>5, NewBlockCast
<1>6. ASSUME block' = block, mapProposalData \subseteq mapProposalData'
      PROVE  \A b \in Made' : CastOK(b)'
    BY <1>3, <1>6 DEF Made
<1>7. CASE RecordVotes \/ RefuseReward
    <2>0. NextBlock \in Blocks
        BY <1>0, <1>7, NextBlockOK DEF RecordVotes, RefuseReward, ChainOK, Made
    <2> PICK b \in Blocks : b = NextBlock
        BY <2>0
    <2>1. b \in Made /\ b # Genesis /\ Prev[b] = tip
        BY <1>0, <1>7, NextBlockOK DEF RecordVotes, RefuseReward, ChainOK
    <2>2. /\ tally' = [tally EXCEPT ![b] = NewTally(b)] /\ block' = block
          /\ mapProposalData' = mapProposalData /\ pindexBest' = pindexBest
          /\ tip' \in {b, pindexBest}
        BY <1>7 DEF RecordVotes, RefuseReward, records
    <2>3. CountedOK(b)'
        BY <1>0, <1>1, <1>2, <2>1, <2>2, ConnectedCounted DEF Made
    <2>4. Branch[b] = {b} \cup Branch[tip]
        BY <2>1, BranchStep
    <2>5. \A x \in Branch[tip] \cup Branch[pindexBest] : CountedOK(x)'
        <3>1. TAKE x \in Branch[tip] \cup Branch[pindexBest]
        <3>2. CASE x = b
            BY <2>3, <3>2
        <3>3. CASE x # b
            <4>1. tally'[x] = tally[x]
                BY <1>0, <2>2, <3>3 DEF TypeOK, Made
            <4> QED
                BY <1>4, <2>2, <4>1
        <3> QED
            BY <3>2, <3>3
    <2> QED
        BY <1>6, <2>2, <2>3, <2>4, <2>5
<1>8. CASE DisconnectBlock
    <2>1. tip # Genesis
        BY <1>0, <1>8, GenesisInBranch DEF DisconnectBlock, ChainOK, Made
    <2>2. Branch[tip] = {tip} \cup Branch[Prev[tip]]
        BY <1>0, <2>1, BranchStep
    <2> QED
        BY <1>4, <1>6, <1>8, <2>2 DEF DisconnectBlock, records
<1>9. CASE SetBestChain
    BY <1>4, <1>6, <1>9 DEF SetBestChain, records
<1>10. ASSUME UNCHANGED <<chain, tally>>, mapProposalData \subseteq mapProposalData'
       PROVE  /\ \A b \in Made' : CastOK(b)'
              /\ \A b \in Branch[tip'] \cup Branch[pindexBest'] : CountedOK(b)'
    BY <1>4, <1>6, <1>10 DEF chain
<1>11. \A h : mapProposalData \subseteq Add(h, mapProposalData)
    BY DEF Add
<1>12. CASE \/ ConnectBlock \/ SkipTransaction \/ RecordProposal \/ RecordProposalFails
            \/ SetBestChainThrows \/ LoadDone \/ UNCHANGED vars
    BY <1>10, <1>11, <1>12 DEF ConnectBlock, SkipTransaction, RecordProposal,
       RecordProposalFails, SetBestChainThrows, LoadDone, vars, records
<1>13. ASSUME NEW t \in Txs, NEW c \in UserChoices,
              \/ t \in Submitted /\ AcceptToMemoryPool(t)
              \/ SetVote(t, c) \/ LoadProposal(t)
       PROVE  UNCHANGED <<chain, tally>> /\ mapProposalData \subseteq mapProposalData'
    BY <1>11, <1>13 DEF AcceptToMemoryPool, SetVote, LoadProposal, records
<1>14. ASSUME NEW t \in Txs, AcceptToMemoryPool(t) \/ LoadProposal(t)
       PROVE  UNCHANGED <<chain, tally>> /\ mapProposalData \subseteq mapProposalData'
    BY <1>11, <1>14 DEF AcceptToMemoryPool, LoadProposal, records
<1> QED
    BY <1>1, <1>5, <1>7, <1>8, <1>9, <1>10, <1>12, <1>13, <1>14, ProposalAssumption DEF Next

(* A vote this node stakes with is counted for the proposal it was cast    *)
(* for, through reorganisations and refused blocks, until a restart or a   *)
(* failed write, and shows the choice of the user wherever the choices of  *)
(* the block fit into their proposals (CreateNewBlock, CVoteObject,        *)
(* CVoteTally::SetNewPositions).                                           *)
THEOREM OwnVotesAlwaysCounted == Spec => []OwnVotesAreCounted
<1>1. Init => OwnVoteInv
    <2> SUFFICES ASSUME Init PROVE OwnVoteInv
        OBVIOUS
    <2>1. tip = Genesis /\ pindexBest = Genesis /\ \A b \in Made : b = Genesis
        BY DEF Init, Made
    <2>2. block[Genesis].votes = {}
        BY TreeAssumption DEF Init
    <2>3. \A b \in Branch[Genesis] : b = Genesis
        <3>1. Closed({Genesis})
            BY DEF Closed
        <3> QED
            BY <3>1, BranchLeast, TreeAssumption
    <2>4. CastOK(Genesis) /\ CountedOK(Genesis)
        BY <2>2 DEF CastOK, ReadBack, CountedOK
    <2> QED
        BY <2>1, <2>3, <2>4 DEF OwnVoteInv
<1>2. IInv /\ OwnVoteInv /\ [Next]_vars => OwnVoteInv'
    BY OwnVoteStep
<1>3. IInv /\ OwnVoteInv => OwnVotesAreCounted
    <2> SUFFICES ASSUME IInv, OwnVoteInv, restarts = 0, writeFailures = 0,
                        NEW b \in Branch[pindexBest], NEW v \in block[b].votes,
                        ActiveAt(v[1], Height[b])
                 PROVE  /\ v[1] \in tally[b].locations
                        /\ (\A w \in block[b].votes : ~Strays(w))
                              /\ Bits(v[1]) \subseteq 0 .. NumBits - 1
                           => VoteFor(v[1], block[b].bits) = v[2]
        BY DEF OwnVotesAreCounted
    <2>1. b \in Made
        BY BranchClosed, BranchLeast DEF IInv, TypeOK, ChainOK, Made
    <2> QED
        BY <2>1 DEF OwnVoteInv, CastOK, CountedOK, ReadBack
<1> QED
    BY <1>1, <1>2, <1>3, GovernanceInvariant, PTL DEF Spec
=============================================================================
