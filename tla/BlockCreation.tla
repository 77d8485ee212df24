--------------------------- MODULE BlockCreation ----------------------------
(***************************************************************************)
(* A block of this node: the stake (Staking), the transactions of the pool *)
(* that CreateNewBlock puts in (BlockAssembly), and the modifier that      *)
(* AddToBlockIndex gives it (StakeModifier).                               *)
(***************************************************************************)
EXTENDS Staking

CONSTANTS Txs, vin, ChainTxs, Size, nBlockMaxSize,
          Interval, Rounds, Ratio, Gaps, Hash(_, _), MaxBlocks
VARIABLES mapTx, chainSpent, NotFinal, Refused, toScan, setDependsOn, mapDependers,
          vecPriority, mapTestPool, vtx, nBlockSize, failed, freed, crashed,
          mapBlockIndex, pindexBest

Assembly == INSTANCE BlockAssembly
Modifier == INSTANCE StakeModifier

ASSUME AssemblyAssumption == Assembly!AssemblyAssumption
ASSUME ModifierAssumption == Modifier!ModifierAssumption

\* "Connecting shouldn't fail due to dependency on other memory pool
\* transactions" (CreateNewBlock): the queue hands out parents first, and only
\* what lacks an input or conflicts with the chain fails.  And it leaves out
\* only what is not final, over a limit, conflicts with the chain, or spends
\* what is not in the block: no depender is forgotten or released too late,
\* although orphans are freed while mapDependers points to them.
CollectionIsComplete == Assembly!CollectionIsComplete

\* While the best chain only grows, GetKernelStakeModifier goes on finding the
\* same modifier for a coin.
KernelModifierKept == [][Modifier!KernelModifierStep]_(Modifier!vars)
=============================================================================
