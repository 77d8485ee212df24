------------------------------- MODULE Ledger -------------------------------
(***************************************************************************)
(* What the chain state promises to those who use it (the wallet, the RPC  *)
(* commands, the staking thread): a ledger that is at every moment the     *)
(* ledger of one valid chain, and that moves from one chain to a heavier   *)
(* one in a single step, however many blocks and database commits lie in   *)
(* between.                                                                *)
(***************************************************************************)
EXTENDS BlockTree

CONSTANTS
    ChainTrust,  \* bnChainTrust of every block
    BlockTxs,    \* the transactions of a block
    OutPoints,
    OutTx,       \* the transaction an outpoint belongs to
    Vin          \* the outpoints a transaction spends

VARIABLES
    known,       \* the blocks that can be built on
    tip,
    confirmed,   \* the transactions on record
    unspent,     \* the outputs that can be spent
    sound        \* no postponed reconnect has failed yet

vars == <<known, tip, confirmed, unspent, sound>>

TxsOn(b) == UNION {BlockTxs[x] : x \in Branch[b]}
SpentOn(b) == UNION {Vin[t] : t \in TxsOn(b)}
UnspentOn(b) == {o \in OutPoints : OutTx[o] \in TxsOn(b)} \ SpentOn(b)

(* Each transaction of the chain has one place, spends what the chain has  *)
(* made, and shares no input with another.                                 *)
ValidChain(b) ==
    /\ \A x, y \in Branch[b] : x # y => BlockTxs[x] \cap BlockTxs[y] = {}
    /\ \A t \in TxsOn(b) : \A o \in Vin[t] : OutTx[o] \in TxsOn(b)
    /\ \A t, u \in TxsOn(b) : t # u => Vin[t] \cap Vin[u] = {}

Init ==
    /\ known = {Genesis} /\ tip = Genesis
    /\ confirmed = {} /\ unspent = {}
    /\ sound = TRUE

Learn(b) ==
    /\ b \notin known /\ Prev[b] \in known
    /\ known' = known \cup {b}
    /\ UNCHANGED <<tip, confirmed, unspent, sound>>

(* The heaviest chain that is valid wins; what left the chain with the old *)
(* tip is as if it had never been on record.                               *)
Advance(b) ==
    /\ b \in known
    /\ ChainTrust[b] > ChainTrust[tip]
    /\ ValidChain(b)
    /\ tip' = b
    /\ confirmed' = TxsOn(b)
    /\ unspent' = UnspentOn(b)
    /\ UNCHANGED <<known, sound>>

(* The one way out of the promise: see BestBlockIsOnDisk in ChainState.    *)
Derail == sound' = FALSE /\ UNCHANGED <<known, tip, confirmed, unspent>>

Next ==
    \/ sound /\ ((\E b \in Blocks : Learn(b) \/ Advance(b)) \/ Derail)
    \/ ~sound /\ ~sound'

Spec == Init /\ [][Next]_vars
=============================================================================
