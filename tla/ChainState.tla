----------------------------- MODULE ChainState -----------------------------
(***************************************************************************)
(* The block tree, the best chain, the transaction index and the memory    *)
(* pool of a HyperStake node (src/src/main.cpp, src/src/db.cpp): how       *)
(* ProcessBlock, AcceptBlock, AddToBlockIndex, SetBestChain, Reorganize,   *)
(* ConnectBlock and DisconnectBlock move them, what a Berkeley DB          *)
(* transaction makes atomic, and what a restart rebuilds from the disk.    *)
(*                                                                         *)
(* One thread runs this code at a time (cs_main); what interleaves is the  *)
(* arrival order of blocks and transactions, a failure in the middle of a  *)
(* reorganisation, and a stop of the process between two database commits. *)
(***************************************************************************)
EXTENDS Naturals, Sequences, FiniteSets, BlockTree

CONSTANTS
    Trust,       \* GetBlockTrust()
    Txs,
    OutPoints,
    OutTx,       \* the transaction an outpoint belongs to (prevout.hash)
    Vin,         \* the set of outpoints a transaction spends
    Vtx,         \* the transactions of a block, in order
    Generated,   \* coinbase and coinstake transactions
    Maturity,    \* nCoinbaseMaturity
    Proofs,      \* proofs of stake: pairs (prevoutStake, nStakeTime)
    Proof,       \* GetProofOfStake() of a block; None for proof of work
    KernelTx,    \* the transaction whose output a proof stakes
    Modifiers,   \* the blocks that generated a stake modifier a selection
                 \* interval or more after a block
    KernelMet,   \* the blocks whose modifier makes a block's kernel hash low
                 \* enough for its target
    BadContext,  \* blocks AcceptBlock refuses (target, time, checkpoint ...)
    BadValue,    \* blocks ConnectBlock refuses for values, fees, signatures
    MaxRestarts  \* bound on the number of restarts

(* bnChainTrust *)
ChainTrust[b \in Blocks] ==
    Trust[b] + (IF b = Genesis THEN 0 ELSE ChainTrust[Prev[b]])

TxsOf(b) == {Vtx[b][i] : i \in DOMAIN Vtx[b]}
Earlier(b, i) == {Vtx[b][j] : j \in {k \in DOMAIN Vtx[b] : k < i}}
Later(b, i) == {Vtx[b][j] : j \in {k \in DOMAIN Vtx[b] : k > i}}
Vout(t) == {o \in OutPoints : OutTx[o] = t}
ProofsOf(B) == {Proof[b] : b \in B} \ {None}

ASSUME TrustAssumption ==
    /\ None \notin Txs \cup Proofs
    /\ Trust \in [Blocks -> Nat \ {0}]

(* Genesis is made the best block without ConnectBlock, so its coinbase    *)
(* never enters the transaction index.  CheckBlock refuses a block that    *)
(* repeats a transaction; only a coinbase spends nothing.                  *)
ASSUME TxAssumption ==
    /\ OutTx \in [OutPoints -> Txs]
    /\ Vin \in [Txs -> SUBSET OutPoints]
    /\ Vtx \in [Blocks -> Seq(Txs)]
    /\ Vtx[Genesis] = <<>>
    /\ \A b \in Blocks : \A i, j \in DOMAIN Vtx[b] :
          Vtx[b][i] = Vtx[b][j] => i = j
    /\ \A t \in Txs : Vin[t] = {} => t \in Generated
    /\ Generated \subseteq Txs
    /\ Maturity \in Nat \ {0}

(* AcceptBlock makes every coinbase start with its block's height.         *)
ASSUME CoinbaseHeightAssumption ==
    \A b, c \in Blocks : \A t \in TxsOf(b) \cap TxsOf(c) :
        Vin[t] = {} => Height[b] = Height[c]

ASSUME StakeAssumption ==
    /\ Proof \in [Blocks -> Proofs \cup {None}]
    /\ KernelTx \in [Proofs -> Txs]
    /\ Modifiers \in [Blocks -> SUBSET Blocks]
    /\ KernelMet \in [Blocks -> SUBSET Blocks]
    /\ BadContext \subseteq Blocks
    /\ BadValue \subseteq Blocks
    /\ MaxRestarts \in Nat

-----------------------------------------------------------------------------
VARIABLES
    mapBlockIndex,      \* indexed blocks; written to disk as they are added
    disk,               \* committed: hashNext, CTxIndex.pos/vSpent, hashBestChain
    txn,                \* the same as the open database transaction sees it
    pnext,              \* CBlockIndex::pnext in memory
    pindexBest,
    setStakeSeen,
    mapOrphanBlocks,
    setStakeSeenOrphan,
    mapTx,              \* CTxMemPool
    mapNextTx,
    pc,                 \* where the thread that holds cs_main is
    pindexNew,          \* the block being accepted
    pindexIntermediate, \* where Reorganize goes
    vResurrect,         \* a set: none of them conflicts with another
    vWorkQueue,         \* ProcessBlock's queue, from index i on
    restarts,
    skipped             \* ghost: blocks made best without being connected

pool == <<mapTx, mapNextTx>>
orphans == <<mapOrphanBlocks, setStakeSeenOrphan>>
index == <<mapBlockIndex, setStakeSeen>>
best == <<pnext, pindexBest, skipped>>
work == <<pindexNew, pindexIntermediate, vResurrect>>
vars == <<index, disk, txn, best, orphans, pool, pc, work, vWorkQueue, restarts>>

View == [next : [Blocks -> Blocks \cup {None}],
         pos : [Txs -> Blocks \cup {None}],
         spent : [OutPoints -> Txs \cup {None}],
         best : Blocks]

-----------------------------------------------------------------------------
(* ConnectBlock and DisconnectBlock on a view v of the index.              *)

(* BIP30: no transaction of b overwrites one that has an unspent output.   *)
Overwrites(b, v) ==
    \E t \in TxsOf(b) : v.pos[t] # None /\ \E o \in Vout(t) : v.spent[o] = None

(* A coinbase or coinstake output is not spent within Maturity blocks of   *)
(* the branch of tip; a block's own height counts as depth 0.              *)
Mature(t, tip, v) ==
    t \in Generated =>
        ~(v.pos[t] \in Branch[tip] /\ Height[tip] < Height[v.pos[t]] + Maturity)

(* FetchInputs and ConnectInputs for input o of the i-th transaction of b: *)
(* mapQueuedChanges holds what earlier transactions of b made and spent.   *)
InputOK(b, i, o, v) ==
    /\ \/ OutTx[o] \in Earlier(b, i) \ Generated
       \/ /\ OutTx[o] \notin Earlier(b, i)
          /\ v.pos[OutTx[o]] # None
          /\ v.spent[o] = None
          /\ Mature(OutTx[o], b, v)
    /\ \A t \in Earlier(b, i) : o \notin Vin[t]

Connectable(b, v) ==
    /\ b \notin BadValue
    /\ ~Overwrites(b, v)
    /\ \A i \in DOMAIN Vtx[b] : \A o \in Vin[Vtx[b][i]] : InputOK(b, i, o, v)

Spends(b, o) == {t \in TxsOf(b) : o \in Vin[t]}

(* pindex is written with its pnext of memory, then pprev with hashNext = b *)
Connect(b, v, nextOfb) ==
    [next |-> [v.next EXCEPT ![b] = nextOfb, ![Prev[b]] = b],
     pos |-> [t \in Txs |-> IF t \in TxsOf(b) THEN b ELSE v.pos[t]],
     spent |-> [o \in OutPoints |->
                  IF Spends(b, o) # {} THEN CHOOSE t \in Spends(b, o) : TRUE
                  ELSE IF OutTx[o] \in TxsOf(b) THEN None
                  ELSE v.spent[o]],
     best |-> b]

(* DisconnectInputs, last transaction first, reads every input's index.    *)
Disconnectable(b, v) ==
    \A i \in DOMAIN Vtx[b] : \A o \in Vin[Vtx[b][i]] :
        v.pos[OutTx[o]] # None /\ OutTx[o] \notin Later(b, i)

(* Mutants: the index entries, or hashNext of the parent, are left behind. *)
DisconnectKeepsPos(b, v) ==
    [next |-> [v.next EXCEPT ![Prev[b]] = None],
     pos |-> v.pos,
     spent |-> [o \in OutPoints |->
                  IF Spends(b, o) # {} \/ OutTx[o] \in TxsOf(b) THEN None
                  ELSE v.spent[o]],
     best |-> Prev[b]]
DisconnectKeepsNext(b, v) ==
    [next |-> v.next,
     pos |-> [t \in Txs |-> IF t \in TxsOf(b) THEN None ELSE v.pos[t]],
     spent |-> [o \in OutPoints |->
                  IF Spends(b, o) # {} \/ OutTx[o] \in TxsOf(b) THEN None
                  ELSE v.spent[o]],
     best |-> Prev[b]]

Disconnect(b, v) ==
    [next |-> [v.next EXCEPT ![Prev[b]] = None],
     pos |-> [t \in Txs |-> IF t \in TxsOf(b) THEN None ELSE v.pos[t]],
     spent |-> [o \in OutPoints |->
                  IF Spends(b, o) # {} \/ OutTx[o] \in TxsOf(b) THEN None
                  ELSE v.spent[o]],
     best |-> Prev[b]]

-----------------------------------------------------------------------------
(* CTxMemPool *)

NoPoolConflict(t) == \A o \in Vin[t] : mapNextTx[o] = None

(* FetchInputs and ConnectInputs with fBlock = fMiner = false. *)
PoolInputsOK(t) ==
    \A o \in Vin[t] :
        IF disk.pos[OutTx[o]] # None
        THEN disk.spent[o] = None /\ Mature(OutTx[o], pindexBest, disk)
        ELSE OutTx[o] \in mapTx

addUnchecked(t) ==
    /\ mapTx' = mapTx \cup {t}
    /\ mapNextTx' = [o \in OutPoints |-> IF o \in Vin[t] THEN t ELSE mapNextTx[o]]

(* mempool.remove of every transaction of T *)
RemoveFromPool(T) ==
    /\ mapTx' = mapTx \ T
    /\ mapNextTx' = [o \in OutPoints |->
                       IF \E t \in T \cap mapTx : o \in Vin[t] THEN None
                       ELSE mapNextTx[o]]

(* The "tx" message, sendrawtransaction and the wallet: fCheckInputs.      *)
AcceptToMemoryPool(t) ==
    /\ pc = "idle"
    /\ t \notin Generated
    /\ t \notin mapTx
    /\ disk.pos[t] = None
    /\ NoPoolConflict(t)
    /\ PoolInputsOK(t)
    /\ addUnchecked(t)
    /\ UNCHANGED <<index, disk, txn, best, orphans, pc, work, vWorkQueue, restarts>>

-----------------------------------------------------------------------------
(* ProcessBlock and AcceptBlock *)

IsProofOfStake(b) == Proof[b] # None
HasOrphanChild(b) == \E o \in mapOrphanBlocks : Prev[o] = b
KnownBlock(b) == b \in mapBlockIndex \cup mapOrphanBlocks
DuplicateStake(b) ==
    IsProofOfStake(b) /\ Proof[b] \in setStakeSeen /\ ~HasOrphanChild(b)

(* The block whose modifier scrambles the kernel of a coin of block from:  *)
(* the first one late enough along the pnext of memory, None at the best   *)
(* block, where the walk ends without one.                                 *)
GetKernelStakeModifier(from) ==
    LET walk[x \in Blocks \cup {None}] ==
            IF x = None \/ x \in Modifiers[from] THEN x ELSE walk[pnext[x]]
    IN walk[from]

(* CheckProofOfStake reads the staked transaction from the index and takes *)
(* the modifier from the chain the node is on, also for a block of another *)
(* branch.  The blocks are above the last checkpoint (fFullCheck).         *)
CheckProofOfStake(b) ==
    IsProofOfStake(b) =>
        LET from == disk.pos[KernelTx[Proof[b]]] IN
        from # None /\ GetKernelStakeModifier(from) \in KernelMet[b]

(* The thread leaves AcceptBlock: with success the block joins the work    *)
(* queue; with failure ProcessBlock returns, or the loop over the orphans  *)
(* goes on.                                                                *)
Rejected ==
    /\ pc' = (IF vWorkQueue = <<>> THEN "idle" ELSE "orphans")
    /\ UNCHANGED vWorkQueue
AcceptedNotQueued(b) == Rejected    \* mutant: its orphans are not looked for
Accepted(b) == vWorkQueue' = Append(vWorkQueue, b) /\ pc' = "orphans"

NewBestByHeight(b) == Height[b] > Height[pindexBest]                   \* mutant
NewBestOnTie(b) == ChainTrust[b] >= ChainTrust[pindexBest]             \* mutant
NewBest(b) == ChainTrust[b] > ChainTrust[pindexBest]

(* The block and its index entry are on disk before SetBestChain starts.   *)
AddToBlockIndex(b) ==
    /\ mapBlockIndex' = mapBlockIndex \cup {b}
    /\ setStakeSeen' = setStakeSeen \cup ProofsOf({b})
    /\ IF NewBest(b)
       THEN pindexNew' = b /\ pc' = "setbest" /\ UNCHANGED vWorkQueue
       ELSE Accepted(b) /\ UNCHANGED pindexNew
    /\ UNCHANGED <<pindexIntermediate, vResurrect>>

AcceptBlockOK(b) ==
    b \notin mapBlockIndex /\ Prev[b] \in mapBlockIndex /\ b \notin BadContext

(* The "reorg" signal: a duplicate of a stake already seen is refused, but *)
(* the stake is forgotten.                                                 *)
ProcessDuplicateStake(b) ==
    /\ pc = "idle"
    /\ ~KnownBlock(b)
    /\ DuplicateStake(b)
    /\ Prev[b] \in mapBlockIndex
    /\ setStakeSeen' = setStakeSeen \ {Proof[b]}
    /\ UNCHANGED <<mapBlockIndex, disk, txn, best, orphans, pool, pc, work,
                   vWorkQueue, restarts>>

ProcessOrphanBlock(b) ==
    /\ pc = "idle"
    /\ ~KnownBlock(b)
    /\ ~DuplicateStake(b)
    /\ CheckProofOfStake(b)
    /\ Prev[b] \notin mapBlockIndex
    /\ IsProofOfStake(b) => Proof[b] \notin setStakeSeenOrphan \/ HasOrphanChild(b)
    /\ mapOrphanBlocks' = mapOrphanBlocks \cup {b}
    /\ setStakeSeenOrphan' = setStakeSeenOrphan \cup ProofsOf({b})
    /\ UNCHANGED <<index, disk, txn, best, pool, pc, work, vWorkQueue, restarts>>

ProcessBlock(b) ==
    /\ pc = "idle"
    /\ ~KnownBlock(b)
    /\ ~DuplicateStake(b)
    /\ CheckProofOfStake(b)
    /\ AcceptBlockOK(b)
    /\ AddToBlockIndex(b)
    /\ UNCHANGED <<disk, txn, best, orphans, pool, restarts>>

KeepOrphan(o) == UNCHANGED orphans                                     \* mutant
KeepOrphanStake(o) ==                                                  \* mutant
    mapOrphanBlocks' = mapOrphanBlocks \ {o} /\ UNCHANGED setStakeSeenOrphan
EraseOrphan(o) ==
    /\ mapOrphanBlocks' = mapOrphanBlocks \ {o}
    /\ setStakeSeenOrphan' = setStakeSeenOrphan \ {Proof[o]}

(* ProcessBlock's loop: the orphans whose parent is at the head of the     *)
(* queue are taken out and offered to AcceptBlock one by one.              *)
AcceptOrphanBlock(o) ==
    /\ pc = "orphans"
    /\ o \in mapOrphanBlocks
    /\ Prev[o] = Head(vWorkQueue)
    /\ EraseOrphan(o)
    /\ IF AcceptBlockOK(o)
       THEN AddToBlockIndex(o)
       ELSE UNCHANGED <<index, pc, work, vWorkQueue>>
    /\ UNCHANGED <<disk, txn, best, pool, restarts>>

NextInWorkQueue ==
    /\ pc = "orphans"
    /\ ~HasOrphanChild(Head(vWorkQueue))
    /\ vWorkQueue' = Tail(vWorkQueue)
    /\ pc' = (IF Tail(vWorkQueue) = <<>> THEN "idle" ELSE "orphans")
    /\ UNCHANGED <<index, disk, txn, best, orphans, pool, work, restarts>>

-----------------------------------------------------------------------------
(* SetBestChain *)

(* SetBestChainInner: connect b to the committed view, commit, then change *)
(* the memory structures.  A block that does not connect changes nothing.  *)
SetBestChainInner(b) ==
    /\ Connectable(b, disk)
    /\ disk' = Connect(b, disk, pnext[b])
    /\ txn' = disk'
    /\ pnext' = [pnext EXCEPT ![Prev[b]] = b]
    /\ RemoveFromPool(TxsOf(b))

SetBestChainDone ==
    /\ pindexBest' = pindexNew
    /\ Accepted(pindexNew)
    /\ pindexNew' = None
    /\ pindexIntermediate' = None
    /\ vResurrect' = {}

SetBestChainFailed ==
    /\ Rejected
    /\ pindexNew' = None
    /\ pindexIntermediate' = None
    /\ vResurrect' = {}
    /\ txn' = disk
    /\ UNCHANGED <<index, disk, best, orphans, pool, restarts>>

ExtendBestChain ==
    /\ pc = "setbest"
    /\ Prev[pindexNew] = pindexBest
    /\ SetBestChainInner(pindexNew)
    /\ SetBestChainDone
    /\ UNCHANGED <<index, orphans, skipped, restarts>>

ExtendBestChainFails ==
    /\ pc = "setbest"
    /\ Prev[pindexNew] = pindexBest
    /\ ~Connectable(pindexNew, disk)
    /\ SetBestChainFailed

(* Blocks whose parent alone beats the best chain are postponed: Reorganize *)
(* goes to the highest block of the branch that is not.                    *)
vpindexSecondary ==
    {x \in Branch[pindexNew] :
        x # Genesis /\ ChainTrust[Prev[x]] > ChainTrust[pindexBest]}

BeginReorganize ==
    /\ pc = "setbest"
    /\ Prev[pindexNew] # pindexBest
    /\ \E x \in Branch[pindexNew] \ vpindexSecondary :
          /\ \A y \in Branch[pindexNew] \ vpindexSecondary : Height[y] <= Height[x]
          /\ pindexIntermediate' = x
    /\ txn' = [disk EXCEPT !.best = pindexBest]
    /\ pc' = "reorg"
    /\ UNCHANGED <<index, disk, best, orphans, pool, pindexNew, vResurrect,
                   vWorkQueue, restarts>>

vDisconnect == Branch[pindexBest] \ Branch[pindexIntermediate]
vConnect == Branch[pindexIntermediate] \ Branch[pindexBest]

(* Mutant: the loop over vtx starts at 1, where a coinbase is expected at 0. *)
ResurrectableButFirst(b) ==
    {Vtx[b][i] : i \in DOMAIN Vtx[b] \ {1}} \ Generated
Resurrectable(b) == TxsOf(b) \ Generated

DisconnectBlock ==
    /\ pc = "reorg"
    /\ txn.best \in vDisconnect
    /\ Disconnectable(txn.best, txn)
    /\ txn' = Disconnect(txn.best, txn)
    /\ vResurrect' = vResurrect \cup Resurrectable(txn.best)
    /\ UNCHANGED <<index, disk, best, orphans, pool, pc, pindexNew,
                   pindexIntermediate, vWorkQueue, restarts>>

DisconnectBlockFails ==
    /\ pc = "reorg"
    /\ txn.best \in vDisconnect
    /\ ~Disconnectable(txn.best, txn)
    /\ SetBestChainFailed

ConnectBlock ==
    /\ pc = "reorg"
    /\ txn.best \notin vDisconnect
    /\ \E c \in vConnect :
          /\ Prev[c] = txn.best
          /\ Connectable(c, txn)
          /\ txn' = Connect(c, txn, pnext[c])
    /\ UNCHANGED <<index, disk, best, orphans, pool, pc, work, vWorkQueue, restarts>>

ConnectBlockFails ==
    /\ pc = "reorg"
    /\ txn.best \notin vDisconnect
    /\ \E c \in vConnect : Prev[c] = txn.best /\ ~Connectable(c, txn)
    /\ SetBestChainFailed

(* The pnext pointers after the two loops that follow TxnCommit.  The      *)
(* mutant leaves out the first loop.                                       *)
RelinkConnectedOnly ==
    [x \in Blocks |-> IF \E c \in vConnect : Prev[c] = x
                      THEN CHOOSE c \in vConnect : Prev[c] = x
                      ELSE pnext[x]]
Relink ==
    [x \in Blocks |-> IF \E c \in vConnect : Prev[c] = x
                      THEN CHOOSE c \in vConnect : Prev[c] = x
                      ELSE IF \E c \in vDisconnect : Prev[c] = x THEN None
                      ELSE pnext[x]]

(* TxnCommit, then the pnext pointers of memory. *)
CommitReorganize ==
    /\ pc = "reorg"
    /\ txn.best = pindexIntermediate
    /\ disk' = txn
    /\ pnext' = Relink
    /\ pc' = "resurrect"
    /\ UNCHANGED <<index, txn, pindexBest, skipped, orphans, pool, work,
                   vWorkQueue, restarts>>

(* AcceptToMemoryPool with fCheckInputs = false *)
ResurrectTx ==
    /\ pc = "resurrect"
    /\ \E t \in vResurrect :
          /\ IF t \notin mapTx /\ NoPoolConflict(t)
             THEN addUnchecked(t)
             ELSE UNCHANGED pool
          /\ vResurrect' = vResurrect \ {t}
    /\ UNCHANGED <<index, disk, txn, best, orphans, pc, pindexNew,
                   pindexIntermediate, vWorkQueue, restarts>>

DeleteRedundantTxs ==
    /\ pc = "resurrect"
    /\ vResurrect = {}
    /\ RemoveFromPool(UNION {TxsOf(c) : c \in vConnect})
    /\ pc' = "secondary"
    /\ UNCHANGED <<index, disk, txn, best, orphans, work, vWorkQueue, restarts>>

(* The postponed block that comes next, none when all are connected. *)
NextSecondary == {c \in Branch[pindexNew] : c # Genesis /\ Prev[c] = disk.best}

ConnectSecondary ==
    /\ pc = "secondary"
    /\ \E c \in NextSecondary : SetBestChainInner(c)
    /\ UNCHANGED <<index, pindexBest, skipped, orphans, pc, work, vWorkQueue, restarts>>

(* "errors now are not fatal": a postponed block that does not connect     *)
(* ends the loop, and pindexNew becomes the best block all the same.       *)
FinishReorganize ==
    /\ pc = "secondary"
    /\ \A c \in NextSecondary : ~Connectable(c, disk)
    /\ SetBestChainDone
    /\ skipped' = skipped \cup (Branch[pindexNew] \ Branch[disk.best])
    /\ UNCHANGED <<index, disk, txn, pnext, orphans, pool, restarts>>

-----------------------------------------------------------------------------
(* The process stops anywhere and starts again: LoadBlockIndex.            *)
Restart ==
    /\ restarts < MaxRestarts
    /\ restarts' = restarts + 1
    /\ pindexBest' = disk.best
    /\ pnext' = disk.next
    /\ txn' = disk
    /\ setStakeSeen' = ProofsOf(mapBlockIndex)
    /\ mapOrphanBlocks' = {}
    /\ setStakeSeenOrphan' = {}
    /\ mapTx' = {}
    /\ mapNextTx' = [o \in OutPoints |-> None]
    /\ pc' = "idle"
    /\ pindexNew' = None
    /\ pindexIntermediate' = None
    /\ vResurrect' = {}
    /\ vWorkQueue' = <<>>
    /\ UNCHANGED <<mapBlockIndex, disk, skipped>>

GenesisView ==
    [next |-> [b \in Blocks |-> None], pos |-> [t \in Txs |-> None],
     spent |-> [o \in OutPoints |-> None], best |-> Genesis]

Init ==
    /\ mapBlockIndex = {Genesis}
    /\ disk = GenesisView
    /\ txn = GenesisView
    /\ pnext = [b \in Blocks |-> None]
    /\ pindexBest = Genesis
    /\ setStakeSeen = {}
    /\ mapOrphanBlocks = {}
    /\ setStakeSeenOrphan = {}
    /\ mapTx = {}
    /\ mapNextTx = [o \in OutPoints |-> None]
    /\ pc = "idle"
    /\ pindexNew = None
    /\ pindexIntermediate = None
    /\ vResurrect = {}
    /\ vWorkQueue = <<>>
    /\ restarts = 0
    /\ skipped = {}

(* A call that has started under cs_main, one step of it. *)
Reorganize ==
    \/ BeginReorganize \/ DisconnectBlock \/ DisconnectBlockFails
    \/ ConnectBlock \/ ConnectBlockFails \/ CommitReorganize
    \/ ResurrectTx \/ DeleteRedundantTxs \/ ConnectSecondary \/ FinishReorganize

Step ==
    \/ Reorganize \/ ExtendBestChain \/ ExtendBestChainFails
    \/ NextInWorkQueue
    \/ \E o \in Blocks : AcceptOrphanBlock(o)

ReceiveBlock(b) ==
    ProcessDuplicateStake(b) \/ ProcessOrphanBlock(b) \/ ProcessBlock(b)

Receive ==
    \/ \E b \in Blocks \ {Genesis} : ReceiveBlock(b)
    \/ \E t \in Txs : AcceptToMemoryPool(t)

Next == Step \/ Receive \/ Restart

Spec == Init /\ [][Next]_vars

(* The thread that holds cs_main keeps running. *)
FairSpec == Spec /\ WF_vars(Step)

-----------------------------------------------------------------------------
TypeOK ==
    /\ mapBlockIndex \in SUBSET Blocks /\ Genesis \in mapBlockIndex
    /\ disk \in View
    /\ txn \in View
    /\ pnext \in [Blocks -> Blocks \cup {None}]
    /\ pindexBest \in Blocks
    /\ setStakeSeen \subseteq Proofs
    /\ mapOrphanBlocks \in SUBSET (Blocks \ {Genesis})
    /\ setStakeSeenOrphan \subseteq Proofs
    /\ mapTx \in SUBSET Txs
    /\ mapNextTx \in [OutPoints -> Txs \cup {None}]
    /\ pc \in {"idle", "setbest", "reorg", "resurrect", "secondary", "orphans"}
    /\ pindexNew \in (Blocks \ {Genesis}) \cup {None}
    /\ pc \in {"setbest", "reorg", "resurrect", "secondary"} => pindexNew # None
    /\ pindexIntermediate \in Blocks \cup {None}
    /\ pc \in {"reorg", "resurrect"} => pindexIntermediate # None
    /\ vResurrect \in SUBSET Txs
    /\ vWorkQueue \in Seq(Blocks)
    /\ pc = "orphans" => vWorkQueue # <<>>
    /\ restarts \in 0..MaxRestarts
    /\ skipped \in SUBSET Blocks

(* hashNext of the blocks of the best branch, and of no other block.       *)
ChainOK(next, tip) ==
    /\ \A y \in Branch[tip] \ {Genesis} : next[Prev[y]] = y
    /\ \A x \in Blocks : next[x] # None =>
          next[x] \in Branch[tip] \ {Genesis} /\ Prev[next[x]] = x

(* A transaction is indexed exactly when a block of the best branch holds  *)
(* it, and at that block.                                                  *)
PosOK(v) ==
    /\ \A b \in Branch[v.best] : \A t \in TxsOf(b) : v.pos[t] = b
    /\ \A t \in Txs : v.pos[t] # None =>
          v.pos[t] \in Branch[v.best] /\ t \in TxsOf(v.pos[t])

(* An output is marked spent exactly by the one indexed transaction that   *)
(* spends it, and an indexed transaction spends only what a block at its   *)
(* height or below made.                                                   *)
SpentOK(v) ==
    /\ \A o \in OutPoints : v.spent[o] # None =>
          v.pos[v.spent[o]] # None /\ o \in Vin[v.spent[o]]
    /\ \A t \in Txs : v.pos[t] # None =>
          \A o \in Vin[t] :
              /\ v.spent[o] = t
              /\ v.pos[OutTx[o]] # None
              /\ Height[v.pos[OutTx[o]]] <= Height[v.pos[t]]

ViewOK(v) == ChainOK(v.next, v.best) /\ PosOK(v) /\ SpentOK(v)

(* What is committed is a consistent index of one chain: through every     *)
(* interleaving of connects, disconnects, failed reorganisations and       *)
(* restarts, no transaction is confirmed twice, none is missing from the   *)
(* index, no output is spent twice and none stays spent by a transaction   *)
(* that left the chain (ConnectBlock, DisconnectBlock, TxnCommit).  It     *)
(* holds as long as no postponed reconnect has failed.                     *)
DiskConsistent == skipped = {} => ViewOK(disk)

(* Between calls, memory and disk agree on the best block and on the       *)
(* blocks after each block (SetBestChain, LoadBlockIndex).                 *)
MemoryMatchesDisk ==
    pc = "idle" /\ skipped = {} => pindexBest = disk.best /\ pnext = disk.next

(* Replaying a branch from Genesis with ConnectBlock alone. *)
Replay[b \in Blocks] ==
    IF b = Genesis THEN GenesisView ELSE Connect(b, Replay[Prev[b]], None)
ValidBranch[b \in Blocks] ==
    b = Genesis \/ (ValidBranch[Prev[b]] /\ Connectable(b, Replay[Prev[b]]))

(* The committed index depends on the best block alone, not on the route   *)
(* of reorganisations that led to it: it is the one a node would have that *)
(* connected the blocks of that branch in order, and each of them passes   *)
(* ConnectBlock there.                                                     *)
DiskIsReplayOfBest ==
    skipped = {} => ValidBranch[disk.best] /\ disk = Replay[disk.best]

(* A node that has not been restarted is never left on a chain with less   *)
(* trust than a valid one it has all the blocks of (AddToBlockIndex,       *)
(* Reorganize that fails, orphans).                                        *)
BestValidChainChosen ==
    pc = "idle" /\ skipped = {} /\ restarts = 0 =>
        \A b \in mapBlockIndex :
            ChainTrust[b] > ChainTrust[pindexBest] => ~ValidBranch[b]

(* An orphan is kept only as long as its parent is missing: ProcessBlock   *)
(* drains the orphans of every block it accepts, so only descendants of an *)
(* invalid block stay behind.                                              *)
NoStrandedOrphans ==
    pc = "idle" /\ skipped = {} =>
        \A o \in mapOrphanBlocks :
            Prev[o] \in mapBlockIndex => ~ValidBranch[Prev[o]]

(* setStakeSeenOrphan holds no proof of a block that has left the orphan   *)
(* map, where it would keep refusing other blocks.                         *)
NoLeakedOrphanStake == setStakeSeenOrphan \subseteq ProofsOf(mapOrphanBlocks)

(* Reorganize's comment: "Make sure it's successfully written to disk      *)
(* before changing memory structure" - the best block of memory is the one *)
(* on disk whenever a call returns.                                        *)
BestBlockIsOnDisk == pc = "idle" => pindexBest = disk.best

(* mapNextTx is the exact inverse of the inputs of mapTx, so no two        *)
(* transactions of the pool spend one output (accept, remove, Reorganize). *)
PoolConsistent ==
    \A o \in OutPoints : \A t \in Txs :
        mapNextTx[o] = t <=> t \in mapTx /\ o \in Vin[t]

(* Index, memory and pool describe one chain: what is committed is the     *)
(* consistent index of its best block, memory agrees with it between       *)
(* calls, and the two maps of the pool with each other (SetBestChain,      *)
(* Reorganize, LoadBlockIndex, CTxMemPool).                                *)
ChainStateConsistent == TypeOK /\ DiskConsistent /\ MemoryMatchesDisk /\ PoolConsistent

(* The committed best chain never loses trust. *)
BestTrustIncreases ==
    [][disk'.best # disk.best => ChainTrust[disk'.best] > ChainTrust[disk.best]]_vars

(* A transaction the node knows, confirmed or not, is lost only to a       *)
(* restart or to another transaction in the pool that spends one of its    *)
(* inputs: Reorganize puts back what it disconnects, as long as no         *)
(* postponed reconnect has failed.                                         *)
KnownTx(t) ==
    disk.pos[t] # None \/ t \in mapTx \cup vResurrect
NoTxLost ==
    [][restarts' = restarts /\ skipped = {} =>
         \A t \in Txs \ Generated :
            KnownTx(t) /\ ~KnownTx(t)' =>
                \E o \in Vin[t] : mapNextTx[o] \notin {None, t}]_vars

(* Every call under cs_main returns. *)
CallReturns == pc # "idle" ~> pc = "idle"
=============================================================================
