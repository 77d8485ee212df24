----------------------------- MODULE BlockTree ------------------------------
(***************************************************************************)
(* The tree of blocks that CBlockIndex::pprev makes (src/src/main.h), used *)
(* by every module that follows the best chain.                            *)
(***************************************************************************)
EXTENDS Naturals

CONSTANTS
    Blocks,  \* the blocks that may arrive, and the genesis block
    Genesis,
    None,    \* null pointer / null CDiskTxPos
    Prev,    \* hashPrevBlock of every block but Genesis
    Height   \* nHeight

ASSUME TreeAssumption ==
    /\ Genesis \in Blocks
    /\ None \notin Blocks
    /\ Prev \in [Blocks -> Blocks \cup {None}]
    /\ Prev[Genesis] = None
    /\ Height \in [Blocks -> Nat]
    /\ \A b \in Blocks \ {Genesis} :
          Prev[b] \in Blocks /\ Height[b] = Height[Prev[b]] + 1

Closed(S) == \A x \in S : x # Genesis => Prev[x] \in S

(* The blocks reached from b by following pprev, b and Genesis included.   *)
Branch == [b \in Blocks |->
              {x \in Blocks : \A S \in SUBSET Blocks :
                                 b \in S /\ Closed(S) => x \in S}]
=============================================================================
