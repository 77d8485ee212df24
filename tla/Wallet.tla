------------------------------- MODULE Wallet -------------------------------
(***************************************************************************)
(* The transactions of a wallet (mapWallet, vfSpent, hashBlock) beside the  *)
(* chain, the memory pool and the staking thread's cache of coins.          *)
(*                                                                          *)
(* A transaction has one output that may be ours, and the output is named   *)
(* by its transaction.  cs_main is held from the arrival of a block to the  *)
(* end of SetBestChain, and by every command, so each is a step.  Wallet    *)
(* records are written as soon as they change, the chain only when its      *)
(* database transaction commits: what a failed SetBestChain did to the      *)
(* wallet stays.                                                            *)
(***************************************************************************)
EXTENDS BlockTree, Sequences, SequencesExt, FiniteSets

CONSTANTS
  Txs,          \* transactions
  Inputs,       \* Inputs[t]: the transactions whose output t spends
  Mine,         \* those with an output of ours
  CoinStakes,
  TxsOf,        \* TxsOf[b]: the transactions of a block, in order
  Invalid,      \* blocks ConnectBlock refuses
  Maturity,     \* nCoinbaseMaturity + 20
  MayRepair,    \* whether the user calls repairwallet
  MayCrash      \* whether the process may end before a chain is committed

ASSUME WalletAssumption ==
  /\ Inputs \in [Txs -> SUBSET Txs] /\ Mine \subseteq Txs /\ CoinStakes \subseteq Txs
  /\ TxsOf \in [Blocks -> Seq(Txs)] /\ Invalid \subseteq Blocks \ {Genesis}
  /\ Maturity \in Nat /\ MayRepair \in BOOLEAN /\ MayCrash \in BOOLEAN
  /\ IsFiniteSet(Txs)

VARIABLES
  index,      \* mapBlockIndex
  best,       \* pindexBest
  mempool,
  wallet,     \* mapWallet: its transactions, their hashBlock, the spent ones
  created,    \* those this process made: their vtxPrev is filled in
  old,        \* received more than ten minutes ago
  stakeSet,   \* setStakeCoins of CreateCoinStake
  failed,     \* ghost: SetBestChain has failed, or the process has ended in it
  repaired    \* ghost: repairwallet has been called

ghosts == <<failed, repaired>>
vars == <<index, best, mempool, wallet, created, old, stakeSet, ghosts>>

-----------------------------------------------------------------------------
(* The chain.                                                              *)

TxsIn(B) == UNION {ToSet(TxsOf[b]) : b \in B}
InChain == TxsIn(Branch[best])
SpentIn(T) == UNION {Inputs[t] : t \in T}

\* ConnectBlock refuses a block that spends what is not there yet, or spends or
\* contains again what is in a block before it.
ASSUME ChainAssumption ==
  \A b \in Blocks : Branch[b] \cap Invalid = {} =>
    /\ \A i \in 1 .. Len(TxsOf[b]) :
          Inputs[TxsOf[b][i]] \subseteq TxsIn(Branch[b] \ {b}) \cup {TxsOf[b][j] : j \in 1 .. i - 1}
    /\ \A c \in Branch[b] \ {b} :
          /\ TxsIn({b}) \cap TxsIn({c}) = {}
          /\ SpentIn(TxsIn({b})) \cap SpentIn(TxsIn({c})) = {}

\* CTxMemPool::accept; without fCheckInputs only the pool itself is asked
Accepts(pool, t, fCheckInputs) ==
  /\ t \notin CoinStakes /\ t \notin pool
  /\ Inputs[t] \cap SpentIn(pool) = {}
  /\ fCheckInputs => /\ t \notin InChain
                     /\ Inputs[t] \subseteq InChain \cup pool
                     /\ Inputs[t] \cap SpentIn(InChain) = {}

\* the pool after the transactions ts, in turn, without a check of the inputs
AcceptAll(pool, ts) ==
  LET after[i \in 0 .. Len(ts)] ==
        IF i = 0 THEN pool
        ELSE IF Accepts(after[i - 1], ts[i], FALSE) THEN after[i - 1] \cup {ts[i]} ELSE after[i - 1]
  IN after[Len(ts)]

-----------------------------------------------------------------------------
(* CWallet.  w is a value of the variable wallet.                          *)

IsFromMe(w, t) == Inputs[t] \cap w.txs \cap Mine # {}

WalletUpdateSpent(w, t) == [w EXCEPT !.spent = @ \cup (Inputs[t] \cap w.txs \cap Mine)]

\* a new entry is unspent; an old one is merged with what is new
AddToWallet(w, t, b) ==
  WalletUpdateSpent([w EXCEPT !.txs = @ \cup {t},
                              !.hashBlock[t] = IF b = None THEN @ ELSE b], t)

\* mutant: only transactions that pay to us are of interest
AddToWalletIfMine(w, t, b) == IF t \in w.txs \cup Mine THEN AddToWallet(w, t, b) ELSE w

AddToWalletIfInvolvingMe(w, t, b) ==
  IF t \in w.txs \cup Mine \/ IsFromMe(w, t) THEN AddToWallet(w, t, b) ELSE w

\* Only for coinstakes: their inputs are refunded when they are disconnected.
\* Each of T clears flags, so that their order plays no part.
DisableTransaction(w, T) ==
  [w EXCEPT !.spent = @ \ (SpentIn(T \cap CoinStakes) \cap w.txs \cap Mine)]

SyncDisconnected(w, B) == DisableTransaction(w, TxsIn(B))

\* the transactions of a block that is connected, in turn
SyncConnected(w, b) ==
  LET after[i \in 0 .. Len(TxsOf[b])] ==
        IF i = 0 THEN w ELSE AddToWalletIfInvolvingMe(after[i - 1], TxsOf[b][i], b)
  IN after[Len(TxsOf[b])]

\* those of the blocks B on the branch of b, from the lowest up
SyncBranch(w, B, b) ==
  LET after[x \in Blocks] ==
        LET before == IF x = Genesis THEN w ELSE after[Prev[x]]
        IN IF x \in B THEN SyncConnected(before, x) ELSE before
  IN after[b]

EraseFromWallet(w, T) ==
  [txs |-> w.txs \ T, spent |-> w.spent \ T,
   hashBlock |-> [t \in Txs |-> IF t \in T THEN None ELSE w.hashBlock[t]]]

Depth(t) ==
  LET b == wallet.hashBlock[t] IN
  IF b = None \/ b \notin Branch[best] THEN 0 ELSE Height[best] - Height[b] + 1

\* IsConfirmed: in the chain, or made here from confirmed ones.  (The copies in
\* vtxPrev are taken to know as much as mapWallet.)
IsConfirmed ==
  LET confirmed[t \in Txs] ==
        \/ Depth(t) >= 1
        \/ t \in created /\ IsFromMe(wallet, t) /\ \A i \in Inputs[t] : confirmed[i]
  IN confirmed

AvailableCoins ==
  {t \in wallet.txs \cap Mine : /\ IsConfirmed[t] /\ t \notin wallet.spent
                                /\ t \in CoinStakes => Depth(t) >= Maturity}

-----------------------------------------------------------------------------
Init ==
  /\ index = {Genesis} /\ best = Genesis /\ mempool = {}
  /\ LET none == [txs |-> {}, spent |-> {}, hashBlock |-> [t \in Txs |-> None]]
     IN wallet = SyncConnected(none, Genesis)
  /\ created = {} /\ old = {} /\ stakeSet = {} /\ failed = FALSE /\ repaired = FALSE

-----------------------------------------------------------------------------
(* Blocks.                                                                 *)

Disconnected(b) == Branch[best] \ Branch[b]
ToConnect(b) == Branch[b] \ Branch[best]

\* the blocks that ConnectBlock gets through before it refuses one
Connected(b) == {c \in ToConnect(b) : Branch[c] \cap Invalid = {}}

\* mutant: refunds come last
SyncedWalletRefundsLast(b) ==
  SyncDisconnected(SyncBranch(wallet, Connected(b), b), Disconnected(b))

\* What DisconnectBlock and ConnectBlock make of the wallet.
SyncedWallet(b) ==
  SyncBranch(SyncDisconnected(wallet, Disconnected(b)), Connected(b), b)

Accepted(b) == b \notin index /\ Prev[b] \in index
Better(b) == Height[b] > Height[best]

AcceptSideBlock(b) ==
  /\ Accepted(b) /\ ~Better(b)
  /\ index' = index \cup {b}
  /\ UNCHANGED <<best, mempool, wallet, created, old, stakeSet, ghosts>>

\* SetBestChain: transactions of the branch that goes return to the pool, but
\* no coinstake does, and those of the new one leave it.  The order in which they
\* return plays no part, for none conflicts with another.
SetBestChain(b) ==
  /\ Accepted(b) /\ Better(b) /\ Connected(b) = ToConnect(b)
  /\ index' = index \cup {b}
  /\ best' = b
  /\ wallet' = SyncedWallet(b)
  /\ \E ts \in SetToSeqs(TxsIn(Disconnected(b)) \ CoinStakes) :
        mempool' = AcceptAll(mempool, ts) \ TxsIn(ToConnect(b))
  /\ UNCHANGED <<created, old, stakeSet, ghosts>>

\* A block of the branch is refused: the chain's transaction is aborted.  (When
\* the blocks before it already make the better chain they are committed first;
\* that case is ChainState's.)
SetBestChainFails(b) ==
  /\ Accepted(b) /\ Better(b) /\ Connected(b) # ToConnect(b)
  /\ \A c \in Connected(b) : ~Better(c)
  /\ index' = index \cup {b}
  /\ wallet' = SyncedWallet(b)
  /\ failed' = TRUE
  /\ UNCHANGED <<best, mempool, created, old, stakeSet, repaired>>

-----------------------------------------------------------------------------
(* Transactions.                                                           *)

\* a "tx" message, perhaps from a copy of this wallet
ReceiveTx(t) ==
  /\ Accepts(mempool, t, TRUE)
  /\ mempool' = mempool \cup {t}
  /\ wallet' = AddToWalletIfInvolvingMe(wallet, t, None)
  /\ UNCHANGED <<index, best, created, old, stakeSet, ghosts>>

\* CreateTransaction and CommitTransaction.  The transaction is in the wallet
\* whether or not the memory pool takes it.
CommitTransaction(t) ==
  /\ t \notin wallet.txs \cup CoinStakes /\ Inputs[t] # {}
  /\ Inputs[t] \subseteq AvailableCoins
  /\ wallet' = [AddToWallet(wallet, t, None) EXCEPT !.spent = @ \cup Inputs[t]]
  /\ mempool' = IF Accepts(mempool, t, TRUE) THEN mempool \cup {t} ELSE mempool
  /\ created' = created \cup {t}
  /\ UNCHANGED <<index, best, old, stakeSet, ghosts>>

\* ten minutes pass
Age ==
  /\ old # wallet.txs
  /\ old' = wallet.txs
  /\ UNCHANGED <<index, best, mempool, wallet, created, stakeSet, ghosts>>

\* CreateCoinStake when nStakeSetUpdateTime has passed; amounts and ages decide
\* which of the old coins are taken
SelectStakeCoins ==
  /\ stakeSet' \in SUBSET (AvailableCoins \cap old)
  /\ UNCHANGED <<index, best, mempool, wallet, created, old, ghosts>>

-----------------------------------------------------------------------------
(* repairwallet and restarts.                                              *)

\* FixSpentCoins: what seems never to have been accepted goes, the flags of the
\* rest follow the chain's transaction index, orphaned coinstakes go.
Rejected == {t \in wallet.txs \cap old : Depth(t) = 0}
OrphanedStakes == {t \in wallet.txs \cap CoinStakes : Depth(t) = 0}
Compared == {t \in ((wallet.txs \cap old \cap Mine) \ Rejected) : t \in InChain \cup CoinStakes}

\* the flags of the coins that are compared with the index
RepairedFlags == (wallet.spent \ Compared) \cup (Compared \cap SpentIn(InChain))

FixSpentCoins ==
  /\ MayRepair
  /\ wallet' = EraseFromWallet([wallet EXCEPT !.spent = RepairedFlags],
                               Rejected \cup OrphanedStakes)
  /\ old' = old \cap wallet'.txs
  /\ repaired' = TRUE
  /\ UNCHANGED <<index, best, mempool, created, stakeSet, failed>>

\* mutant: only wallet transactions outside the chain are looked at
ReacceptedUnmarked(w) == w

\* ReacceptWalletTransactions: outputs the index knows to be spent are marked,
\* and then the chain is scanned for what spent them; transactions outside the
\* chain go back to the pool without a look at their inputs.
Reaccepted(w) ==
  LET missing == (w.txs \cap Mine \cap InChain \cap SpentIn(InChain)) \ w.spent
      marked == [w EXCEPT !.spent = @ \cup missing]
  IN IF missing = {} THEN marked ELSE SyncBranch(marked, Branch[best], best)

\* the start of the process with w in wallet.dat; mapWallet is ordered by hash,
\* which orders transactions in no particular way
StartUp(w) ==
  /\ wallet' = Reaccepted(w)
  /\ \E ts \in SetToSeqs(wallet'.txs \ (InChain \cup CoinStakes)) :
       mempool' = AcceptAll({}, ts)
  /\ stakeSet' = {}
  /\ UNCHANGED <<best, created, old, repaired>>

Restart == StartUp(wallet) /\ UNCHANGED <<index, failed>>

\* the process ends inside SetBestChain, before the commit: the block is in the
\* index, the chain is as it was, the wallet is ahead
CrashInSetBestChain(b) ==
  /\ MayCrash /\ Accepted(b) /\ Better(b)
  /\ index' = index \cup {b}
  /\ StartUp(SyncedWallet(b))
  /\ failed' = TRUE

Next ==
  \/ \E b \in Blocks : AcceptSideBlock(b) \/ SetBestChain(b) \/ SetBestChainFails(b)
                       \/ CrashInSetBestChain(b)
  \/ \E t \in Txs : ReceiveTx(t) \/ CommitTransaction(t)
  \/ Age \/ SelectStakeCoins \/ FixSpentCoins \/ Restart

Spec == Init /\ [][Next]_vars

-----------------------------------------------------------------------------
\* Type correctness; only transactions of the wallet have flags or a block.
TypeOK ==
  /\ index \subseteq Blocks /\ best \in index
  /\ mempool \subseteq Txs \ CoinStakes
  /\ wallet.txs \subseteq Txs /\ wallet.spent \subseteq wallet.txs \cap Mine
  /\ wallet.hashBlock \in [Txs -> Blocks \cup {None}]
  /\ \A t \in Txs \ wallet.txs : wallet.hashBlock[t] = None
  /\ created \subseteq Txs /\ old \subseteq Txs /\ stakeSet \subseteq Mine
  /\ failed \in BOOLEAN /\ repaired \in BOOLEAN

\* "Anytime a signature is successfully verified, it's proof the outpoint is
\* spent" (WalletUpdateSpent): an output of ours that the chain has spent is
\* never offered again, through every reorganization.
ChainSpendsAreFlagged == wallet.txs \cap Mine \cap SpentIn(InChain) \subseteq wallet.spent

\* A transaction of ours that is in the chain has a depth, also when the chain
\* has moved it to another block (SetMerkleBranch, AddToWallet's merge).
ConfirmedHasDepth == \A t \in wallet.txs \cap InChain : Depth(t) >= 1

\* The wallet has every transaction of the chain or the pool that pays to it
\* or spends from it.
OwnTxsKnown ==
  \A t \in InChain \cup mempool : (t \in Mine \/ IsFromMe(wallet, t)) => t \in wallet.txs

\* No coin is lost to a stake: an output that is marked spent is spent by a
\* transaction of the wallet that is in the chain or may still get there, so a
\* coinstake that loses its place has been refunded (DisableTransaction).
OrphanedStakesRefunded ==
  wallet.spent \subseteq SpentIn(wallet.txs \cap (InChain \cup (Txs \ CoinStakes)))

\* A restart mends what a failed SetBestChain did to the flags.
RestartMendsFlags ==
  [][Restart => wallet'.txs \cap Mine \cap SpentIn(InChain) \subseteq wallet'.spent]_vars

\* The pointers that CreateCoinStake keeps in setStakeCoins between its calls
\* point into mapWallet, as long as nobody calls repairwallet.
StakeSetValid == stakeSet \subseteq wallet.txs

\* Through every reorganisation, restart and repairwallet, as long as no block of
\* a better chain fails: an output of ours that the chain has spent is never
\* offered again, and a transaction of ours in the chain has a depth, also after
\* it has moved to another block.  And no coin is lost to a stake that lost its
\* place (DisableTransaction), but for repairwallet.
WalletFollowsChain ==
  /\ TypeOK
  /\ ~failed => ChainSpendsAreFlagged /\ ConfirmedHasDepth
  /\ ~failed /\ ~repaired => OrphanedStakesRefunded

\* The wallet has every transaction of the chain or the pool that pays to it or
\* spends from it, also when SetBestChain failed or the process ended in it, and
\* setStakeCoins, kept by CreateCoinStake between its calls, points into
\* mapWallet; repairwallet alone may take a transaction out.
WalletKeepsItsTxs == ~repaired => OwnTxsKnown /\ StakeSetValid
=============================================================================
