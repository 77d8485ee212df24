---------------------------- MODULE MCChainState ----------------------------
(***************************************************************************)
(* A fork with conflicting transactions.  f creates three coins that       *)
(* mature one block later than e.                                          *)
(*                                                                         *)
(*      g <- f(cb) <- e <- a1(t1) <- a2(ca, t3, t4)                        *)
(*                      <- b1(c1, t2) <- b2(ca, k1, t5) <- b3(t6)          *)
(*                                    <- c2(k2, t7)                        *)
(*                                                                         *)
(* a1 and b1 spend the same coin; a2 spends what a1 made, twice over in    *)
(* one block; a2 and b2 carry the same coinbase; t5 spends the other coin; *)
(* b3 spends an output its branch does not have; c2 spends the coinbase of *)
(* b1 too early.  b2 and c2 carry the same proof of stake, k1 and k2, with *)
(* the modifier of e.  a2 and c2 are heavy blocks, so that reorganisations *)
(* go in both directions and across unequal depths.                        *)
(***************************************************************************)
EXTENDS ChainRefinement, TLC

CONSTANTS g, f, e, a1, a2, b1, b2, b3, c2, cb, ca, c1, k1, k2, t1, t2, t3, t4, t5, t6, t7, p

MCBlocks == {g, f, e, a1, a2, b1, b2, b3, c2}
MCPrev == g :> None @@ f :> g @@ e :> f @@ a1 :> e @@ a2 :> a1
          @@ b1 :> e @@ b2 :> b1 @@ b3 :> b2 @@ c2 :> b1
MCHeight == g :> 0 @@ f :> 1 @@ e :> 2 @@ a1 :> 3 @@ a2 :> 4
            @@ b1 :> 3 @@ b2 :> 4 @@ b3 :> 5 @@ c2 :> 4
MCTrust == [b \in MCBlocks |-> IF b \in {a2, c2} THEN 3 ELSE 1]

MCTxs == {cb, ca, c1, k1, k2, t1, t2, t3, t4, t5, t6, t7}
MCOutPoints == {<<cb, 0>>, <<cb, 1>>, <<cb, 2>>, <<ca, 0>>, <<c1, 0>>, <<t1, 0>>, <<t3, 0>>}
MCOutTx == [o \in MCOutPoints |-> o[1]]
MCVin == cb :> {} @@ ca :> {} @@ c1 :> {}
         @@ t1 :> {<<cb, 0>>} @@ t2 :> {<<cb, 0>>} @@ t3 :> {<<t1, 0>>}
         @@ t4 :> {<<t3, 0>>} @@ t5 :> {<<cb, 1>>} @@ t6 :> {<<t1, 0>>}
         @@ t7 :> {<<c1, 0>>} @@ k1 :> {<<cb, 2>>} @@ k2 :> {<<cb, 2>>}
MCVtx == g :> <<>> @@ f :> <<cb>> @@ e :> <<>> @@ a1 :> <<t1>>
         @@ a2 :> <<ca, t3, t4>> @@ b1 :> <<c1, t2>> @@ b2 :> <<ca, k1, t5>>
         @@ b3 :> <<t6>> @@ c2 :> <<k2, t7>>
MCGenerated == {cb, ca, c1, k1, k2}
MCProof == [b \in MCBlocks |-> IF b \in {b2, c2} THEN p ELSE None]
MCKernelTx == p :> cb
MCModifiers == [b \in MCBlocks |-> IF b = f THEN {e} ELSE {}]
MCKernelMet == [b \in MCBlocks |-> IF b \in {b2, c2} THEN {e} ELSE {}]
=============================================================================
