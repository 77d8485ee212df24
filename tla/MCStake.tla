------------------------------- MODULE MCStake -------------------------------
(***************************************************************************)
(* Blocks that stake the same output.  f creates two coins; m and n carry  *)
(* the stake modifiers those coins are staked with, m on the one branch, n *)
(* on the other.  s1 and s2 carry the same proof p, s3 and s4 the same     *)
(* proof q.                                                                *)
(*                                                                         *)
(*      g <- f(cb) <- m <- s1(p) <- r1                                     *)
(*                      <- s2(p) <- s3(q) <- r3                            *)
(*                               <- s4(q)                                  *)
(*                 <- n                                                    *)
(*                                                                         *)
(* s4 is the heaviest tip and no block builds on it; r1 is refused by      *)
(* AcceptBlock.  A node on n has the wrong modifier for every stake.       *)
(***************************************************************************)
EXTENDS ChainState, TLC

CONSTANTS g, f, m, n, s1, s2, s3, s4, r1, r3, cb, k1, k2, k3, k4, p, q

MCBlocks == {g, f, m, n, s1, s2, s3, s4, r1, r3}
MCPrev == g :> None @@ f :> g @@ m :> f @@ n :> f @@ s1 :> m @@ s2 :> m
          @@ r1 :> s1 @@ s3 :> s2 @@ s4 :> s2 @@ r3 :> s3
MCHeight == g :> 0 @@ f :> 1 @@ m :> 2 @@ n :> 2 @@ s1 :> 3 @@ s2 :> 3
            @@ r1 :> 4 @@ s3 :> 4 @@ s4 :> 4 @@ r3 :> 5
MCTrust == [b \in MCBlocks |-> CASE b = s1 -> 2 [] b = s4 -> 3 [] OTHER -> 1]

MCTxs == {cb, k1, k2, k3, k4}
MCOutPoints == {<<cb, 0>>, <<cb, 1>>}
MCOutTx == [o \in MCOutPoints |-> o[1]]
MCVin == cb :> {} @@ k1 :> {<<cb, 0>>} @@ k2 :> {<<cb, 0>>}
         @@ k3 :> {<<cb, 1>>} @@ k4 :> {<<cb, 1>>}
MCVtx == [b \in MCBlocks |-> CASE b = f -> <<cb>> [] b = s1 -> <<k1>>
            [] b = s2 -> <<k2>> [] b = s3 -> <<k3>> [] b = s4 -> <<k4>>
            [] OTHER -> <<>>]
MCProof == [b \in MCBlocks |-> CASE b \in {s1, s2} -> p
              [] b \in {s3, s4} -> q [] OTHER -> None]
MCKernelTx == [x \in {p, q} |-> cb]
MCModifiers == [b \in MCBlocks |-> IF b = f THEN {m, n} ELSE {}]
MCKernelMet == [b \in MCBlocks |-> IF b \in {s1, s2, s3, s4} THEN {m} ELSE {}]

VARIABLE refused    \* the blocks ProcessBlock has refused at least once

\* ProcessBlock returns false and changes nothing: no parent for a duplicate
\* stake, a kernel the chain of the node does not meet, AcceptBlock, or an
\* orphan with the stake of another one.
RefusedUnchanged(b) ==
    \/ DuplicateStake(b) /\ Prev[b] \notin mapBlockIndex
    \/ ~DuplicateStake(b) /\ ~CheckProofOfStake(b)
    \/ Prev[b] \in mapBlockIndex /\ b \in BadContext
    \/ Proof[b] \in setStakeSeenOrphan /\ ~HasOrphanChild(b)
         /\ Prev[b] \notin mapBlockIndex

\* A peer sends a block.
Offer(b) ==
    \/ ProcessOrphanBlock(b) /\ UNCHANGED refused
    \/ ProcessBlock(b) /\ UNCHANGED refused
    \/ ProcessDuplicateStake(b) /\ refused' = refused \cup {b}
    \/ /\ pc = "idle" /\ ~KnownBlock(b) /\ RefusedUnchanged(b)
       /\ refused' = refused \cup {b}
       /\ UNCHANGED vars

\* Every transaction here is a coinstake or a coinbase, which no pool takes, and
\* the node is not restarted.
OfferNext ==
    \/ Step /\ UNCHANGED refused
    \/ \E b \in Blocks \ {Genesis} : Offer(b)

BuiltOn(b) == \E c \in Blocks : Prev[c] = b

\* The peers announce a block once; one the node refused it sees again only
\* when it asks for the ancestors of what has been built on it (GetOrphanRoot,
\* WantedByOrphan), which a tip never is.
DeliverySpec ==
    /\ Init /\ refused = {}
    /\ [][OfferNext]_<<vars, refused>>
    /\ WF_<<vars, refused>>(Step /\ UNCHANGED refused)
    /\ \A b \in Blocks \ {Genesis} :
          WF_<<vars, refused>>((BuiltOn(b) \/ b \notin refused) /\ Offer(b))

\* A block of the branch that keeps the rest of it away: a tip that was refused
\* and is not offered again, or a stake whose kernel the node's chain does not
\* meet.
KeptAway(b) ==
    \E x \in Branch[b] \ mapBlockIndex :
        \/ ~BuiltOn(x) /\ x \in refused
        \/ ~CheckProofOfStake(x)

\* The node ends on a valid chain of greatest trust and stays there: neither
\* the duplicate-stake rule nor the orphan map keeps a block away for good.  A
\* heavier chain is missed only when its best block was refused, which no peer
\* offers again, or when a stake in it depends on a modifier of its own branch
\* (setStakeSeen, setStakeSeenOrphan, GetKernelStakeModifier).
HeaviestChainWins ==
    <>[](\A b \in Blocks \ BadContext :
            ValidBranch[b] /\ ChainTrust[b] > ChainTrust[disk.best] => KeptAway(b))
=============================================================================
