-------------------------- MODULE ChainRefinement ---------------------------
(***************************************************************************)
(* ChainState implements Ledger.  What a user sees of the chain state is   *)
(* what is committed: the transaction index and hashBestChain.             *)
(***************************************************************************)
EXTENDS ChainState

confirmedTxs == {t \in Txs : disk.pos[t] # None}
unspentOuts == {o \in OutPoints : disk.pos[OutTx[o]] # None /\ disk.spent[o] = None}

L == INSTANCE Ledger WITH
        known <- mapBlockIndex,
        tip <- disk.best,
        confirmed <- confirmedTxs,
        unspent <- unspentOuts,
        sound <- skipped = {},
        BlockTxs <- [b \in Blocks |-> TxsOf(b)]

(* Every step of ProcessBlock, SetBestChain, Reorganize, a failure in the  *)
(* middle of them or a restart is a step of the ledger or invisible to its *)
(* users: reorganisations are atomic, and what they leave behind is the    *)
(* ledger of one valid chain, heavier than the last.                       *)
LedgerRefined == L!Spec
=============================================================================
