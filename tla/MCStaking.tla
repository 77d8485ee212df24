----------------------------- MODULE MCStaking ------------------------------
(***************************************************************************)
(* How a block of this node comes about.  Cases that share no state, one   *)
(* of them chosen in the initial state:                                    *)
(*   "staking"   the staking thread with one coin whose kernel meets the   *)
(*               target at up to two times, with a weight of one or four,  *)
(*               and one other block;                                      *)
(*   "heights"   the same with one hash function and two other blocks that *)
(*               change nothing but the height;                            *)
(*   "assembly"  CreateNewBlock collects transactions: c is in the chain,  *)
(*               b spends two outputs of a, d spends b and the chain, e    *)
(*               spends b and f, f spends the chain, g what d spends; any  *)
(*               of them may be missing, and an output of c may be spent;  *)
(*   "modifier"  blocks get their stake modifiers: three rounds, sections  *)
(*               of 0, 1 and 2, a selection interval of 3.                 *)
(***************************************************************************)
EXTENDS BlockCreation, Sequences, TLC

CONSTANTS a, b, c, d, e, f, g
VARIABLE case

MCCoinTime == [x \in Coins |-> 0]
MCGrowth == {-1, 1}
MCBlockTime == [m \in Modifiers |-> IF m = 1 THEN 0 ELSE 1]
\* With the modifier 2 there is no hit.
OneOrTwoHits ==
  {[x \in Coins \X Modifiers \X (0 .. LastTry) |->
       IF x[2] # 1 THEN 99 ELSE IF x[3] = s THEN u ELSE IF x[3] = t THEN v ELSE 99] :
      s \in {3}, t \in {4, 6}, u \in {0, 3}, v \in {0, 3}}

TwoHits ==
  [x \in Coins \X Modifiers \X (0 .. LastTry) |-> IF x[2] = 1 /\ x[3] \in {3, 4} THEN 0 ELSE 99]

MCvin == a :> {<<c, 1>>} @@ b :> {<<a, 1>>, <<a, 2>>} @@ d :> {<<b, 1>>, <<c, 2>>}
         @@ e :> {<<b, 2>>, <<f, 1>>} @@ f :> {<<c, 3>>} @@ g :> {<<c, 2>>, <<f, 2>>}
MCSize == [t \in Txs |-> IF t \in {a, e} THEN 2 ELSE 1]

MCHash(x, m) == (7 * x + 3 * m + x * m + 2) % 5
MCGaps == {-1, 1, 4}

\* A component that is not in play has one initial state.
MCInit ==
  /\ case \in {"staking", "heights", "assembly", "modifier"}
  /\ Init /\ (case # "staking" => hash = TwoHits /\ best.modifier = [x \in Coins |-> 1])
  /\ Assembly!Init /\ (case # "assembly" => mapTx = {} /\ chainSpent = {})
  /\ Modifier!Init

assemblyVars == <<mapTx, chainSpent, NotFinal, Refused, toScan, setDependsOn, mapDependers, vecPriority,
                  mapTestPool, vtx, nBlockSize, failed, freed, crashed>>
modifierVars == <<mapBlockIndex, pindexBest>>

\* Another block: one in "staking", any height in "heights".
OtherBlock ==
  \/ case = "staking" /\ best.id < 1 /\ NewBest
  \/ /\ case = "heights" /\ NewBest
     /\ UNCHANGED <<best.bits, best.minTime, best.spent, best.modifier>>

MCNext ==
  \/ /\ case \in {"staking", "heights"} /\ (Tick \/ LockOrUnlock \/ Thread)
     /\ UNCHANGED <<case, assemblyVars, modifierVars>>
  \/ OtherBlock /\ UNCHANGED <<case, assemblyVars, modifierVars>>
  \/ case = "assembly" /\ Assembly!Next /\ UNCHANGED <<case, vars, modifierVars>>
  \/ case = "modifier" /\ Modifier!Next /\ UNCHANGED <<case, vars, assemblyVars>>

MCSpec == MCInit /\ [][MCNext]_<<case, vars, assemblyVars, modifierVars>>

-----------------------------------------------------------------------------
\* ComputeNextStakeModifier selects what the reference selection says, for
\* block times that are not monotone too.
SelectionIsReference ==
  case = "modifier" => Modifier!TypeOK /\ Modifier!SelectionIsReference
=============================================================================
