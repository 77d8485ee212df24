---------------------------- MODULE MCGovernance ----------------------------
(***************************************************************************)
(* Proposals 1 and 2 want bit 0 in overlapping periods, which meet in one  *)
(* height; 3 takes bit 0 over as 1 ends; 4 has the two bits next to them,  *)
(* in the periods of all three.  The end of 5 wraps around (an unsigned    *)
(* int is less than 16 here), so that 5 is active from the start without   *)
(* conflicting with anything, and its bits run out of the field.           *)
(* Transactions 1 and 4 carry the same proposal.                           *)
(*                                                                         *)
(*      g <- a1 <- a2 <- a3                                                *)
(*        <- b1 <- b2                                                      *)
(***************************************************************************)
EXTENDS Governance, TLC

CONSTANTS g, a1, a2, a3, b1, b2

MCBlocks == {g, a1, a2, a3, b1, b2}
MCPrev == g :> None @@ a1 :> g @@ a2 :> a1 @@ a3 :> a2 @@ b1 :> g @@ b2 :> b1
MCHeight == g :> 0 @@ a1 :> 1 @@ a2 :> 2 @@ a3 :> 3 @@ b1 :> 1 @@ b2 :> 2

MCProposalOf == 1 :> 1 @@ 2 :> 2 @@ 3 :> 3 @@ 4 :> 1 @@ 5 :> 4 @@ 6 :> 5
MCStart == 1 :> 1 @@ 2 :> 2 @@ 3 :> 3 @@ 4 :> 2 @@ 5 :> 15
MCCheckSpan == 1 :> 1 @@ 2 :> 2 @@ 3 :> 1 @@ 4 :> 1 @@ 5 :> 4
MCMsb == 1 :> 0 @@ 2 :> 0 @@ 3 :> 0 @@ 4 :> 2 @@ 5 :> 4
MCLsb == 1 :> 0 @@ 2 :> 0 @@ 3 :> 0 @@ 4 :> 1 @@ 5 :> 0
MCTxLists == {<<>>, <<1, 6, 2>>, <<4, 5, 3>>}

\* The chain a alone, where this node sends proposals, votes and stakes.
MCChain == {g, a1, a2, a3}
MCChainPrev == g :> None @@ a1 :> g @@ a2 :> a1 @@ a3 :> a2
MCChainHeight == g :> 0 @@ a1 :> 1 @@ a2 :> 2 @@ a3 :> 3
MCChainTxLists == {<<>>, <<1>>, <<5, 3>>}
=============================================================================
